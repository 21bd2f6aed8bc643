--------------------------- MODULE CampaignProofs ---------------------------
(***************************************************************************)
(* Proofs about the campaigns table, for any incidents, any number of      *)
(* arrivals and notification threads, and whatever store calls fail.       *)
(*                                                                         *)
(* First the merge: what a record is after any incidents, of any lengths,  *)
(* were merged into it one after the other.  The loops of the merge are    *)
(* recursive functions; each is shown to be the run of its step, and what  *)
(* the step keeps holds at the end of the run by induction.                *)
(*                                                                         *)
(* At most one open campaign per actor: of all the writers only the INSERT *)
(* can open one, and the unique index makes it look first; the others      *)
(* leave actors alone and only ever close.                                 *)
(***************************************************************************)
EXTENDS CampaignAlerts, Induction, FiniteSetTheorems, SequenceTheorems

-----------------------------------------------------------------------------
(* Paths *)

\* The changes up to a place are finitely many, and the more the further it is.
LEMMA ChangesAreFinite ==
  ASSUME NEW s, NEW k \in Nat
  PROVE  /\ IsFiniteSet(ChangesUpTo(s, k)) /\ Cardinality(ChangesUpTo(s, k)) \in Nat
         /\ k >= 1 => Cardinality(ChangesUpTo(s, k)) >= 1
         /\ \A j \in 0..k : Cardinality(ChangesUpTo(s, j)) <= Cardinality(ChangesUpTo(s, k))
<1>1. \A j \in 0..k : ChangesUpTo(s, j) \subseteq ChangesUpTo(s, k) /\ ChangesUpTo(s, k) \subseteq 1..k
  BY DEF ChangesUpTo
<1>2. IsFiniteSet(1..k)
  BY FS_Interval
<1>3. IsFiniteSet(ChangesUpTo(s, k))
  BY <1>1, <1>2, FS_Subset
<1>4. \A j \in 0..k : Cardinality(ChangesUpTo(s, j)) <= Cardinality(ChangesUpTo(s, k))
  BY <1>1, <1>3, FS_Subset
<1>5. Cardinality(ChangesUpTo(s, k)) \in Nat
  BY <1>3, FS_CardinalityType
<1>6. ASSUME k >= 1 PROVE Cardinality(ChangesUpTo(s, k)) >= 1
  <2>1. 1 \in ChangesUpTo(s, k)
    BY <1>6 DEF ChangesUpTo
  <2>2. Cardinality(ChangesUpTo(s, k)) # 0
    BY <2>1, <1>3, FS_EmptySet
  <2> QED BY <2>2, <1>5
<1> QED BY <1>3, <1>4, <1>5, <1>6

\* A visit keeps the path what the services visited so far are without repeats.
LEMMA VisitOneMore ==
  ASSUME NEW U, NEW p \in Seq(U), NEW s \in Seq(U), NEW x \in U, WithoutRepeats(p, s)
  PROVE  Visit(p, x) \in Seq(U) /\ WithoutRepeats(Visit(p, x), Append(s, x))
<1> DEFINE t == Append(s, x)
           l == Len(s)
           C(k) == Cardinality(ChangesUpTo(s, k))
<1>1. /\ l \in Nat /\ Len(p) \in Nat /\ Len(t) = l + 1 /\ t[l + 1] = x
      /\ \A k \in 1..l : t[k] = s[k]
  OBVIOUS
<1>2. \A k \in 0..l : ChangesUpTo(t, k) = ChangesUpTo(s, k)
  BY <1>1 DEF ChangesUpTo
<1>3. ChangesUpTo(t, l + 1) = ChangesUpTo(s, l) \cup (IF l = 0 \/ s[l] # x THEN {l + 1} ELSE {})
  <2>1. ASSUME NEW j \in 1..(l + 1)
        PROVE  j \in ChangesUpTo(t, l + 1) <=> j \in ChangesUpTo(s, l) \/ (j = l + 1 /\ (l = 0 \/ s[l] # x))
    <3>1. CASE j = l + 1
      BY <3>1, <1>1 DEF ChangesUpTo
    <3>2. CASE j # l + 1
      BY <3>2, <1>1 DEF ChangesUpTo
    <3> QED BY <3>1, <3>2
  <2>2. ChangesUpTo(t, l + 1) \subseteq 1..(l + 1) /\ ChangesUpTo(s, l) \subseteq 1..(l + 1)
    BY <1>1 DEF ChangesUpTo
  <2> HIDE DEF t
  <2> QED BY <2>1, <2>2, <1>1
<1>4. C(l) = Len(p)
  BY DEF WithoutRepeats
<1>5. l >= 1 => Len(p) >= 1 /\ p[Len(p)] = s[l]
  BY <1>1, <1>4, ChangesAreFinite DEF WithoutRepeats
<1>6. l = 0 => Len(p) = 0
  <2>1. ChangesUpTo(s, 0) = {}
    BY DEF ChangesUpTo
  <2> QED BY <2>1, <1>4, FS_EmptySet
<1>7. \A k \in 1..l : C(k) \in 1..Len(p) /\ p[C(k)] = s[k]
  <2> SUFFICES ASSUME NEW k \in 1..l PROVE C(k) \in 1..Len(p) /\ p[C(k)] = s[k]
    OBVIOUS
  <2>1. C(k) \in Nat /\ C(k) >= 1
    BY <1>1, ChangesAreFinite
  <2>2. C(k) <= C(l)
    BY <1>1, ChangesAreFinite
  <2> QED BY <2>1, <2>2, <1>1, <1>4 DEF WithoutRepeats
<1>8. CASE p # <<>> /\ p[Len(p)] = x
  <2>1. Visit(p, x) = p
    BY <1>8 DEF Visit
  <2>2. l # 0 /\ s[l] = x
    BY <1>8, <1>1, <1>5, <1>6
  <2>3. ChangesUpTo(t, l + 1) = ChangesUpTo(s, l)
    BY <1>3, <2>2
  <2> HIDE DEF t
  <2>4. \A k \in 1..(l + 1) : p[Cardinality(ChangesUpTo(t, k))] = t[k]
    BY <1>1, <1>2, <1>4, <1>5, <1>7, <2>2, <2>3
  <2>5. t \in Seq(U)
    BY DEF t
  <2> QED BY <2>1, <2>3, <2>4, <2>5, <1>1, <1>4 DEF WithoutRepeats, t
<1>9. CASE ~(p # <<>> /\ p[Len(p)] = x)
  <2>1. Visit(p, x) = Append(p, x)
    BY <1>9 DEF Visit
  <2>2. l = 0 \/ s[l] # x
    BY <1>9, <1>1, <1>5
  <2>3. ChangesUpTo(t, l + 1) = ChangesUpTo(s, l) \cup {l + 1} /\ l + 1 \notin ChangesUpTo(s, l)
    BY <1>3, <2>2, <1>1 DEF ChangesUpTo
  <2>4. Cardinality(ChangesUpTo(t, l + 1)) = Len(p) + 1
    <3> DEFINE C0 == ChangesUpTo(s, l)
    <3>1. IsFiniteSet(C0) /\ Cardinality(C0) = Len(p)
      BY <1>1, <1>4, ChangesAreFinite
    <3>2. ChangesUpTo(t, l + 1) = C0 \cup {l + 1} /\ l + 1 \notin C0
      BY <2>3
    <3> HIDE DEF C0, t, l
    <3>3. Cardinality(C0 \cup {l + 1}) = Cardinality(C0) + 1
      BY <3>1, <3>2, FS_AddElement
    <3> QED BY <3>1, <3>2, <3>3
  <2>5. \A k \in 1..(l + 1) : Append(p, x)[Cardinality(ChangesUpTo(t, k))] = t[k]
    <3> SUFFICES ASSUME NEW k \in 1..(l + 1) PROVE Append(p, x)[Cardinality(ChangesUpTo(t, k))] = t[k]
      OBVIOUS
    <3>1. CASE k = l + 1
      BY <3>1, <2>4, <1>1
    <3>2. CASE k # l + 1
      <4>1. k \in 1..l /\ Cardinality(ChangesUpTo(t, k)) = C(k)
        BY <3>2, <1>1, <1>2
      <4> HIDE DEF C, t
      <4> QED BY <4>1, <1>1, <1>7
    <3> QED BY <3>1, <3>2
  <2> HIDE DEF t
  <2>6. t \in Seq(U) /\ DOMAIN t = 1..(l + 1)
    BY <1>1 DEF t
  <2>7. Append(p, x) \in Seq(U) /\ Len(Append(p, x)) = Len(p) + 1
    OBVIOUS
  <2>8. WithoutRepeats(Append(p, x), t)
    BY <2>4, <2>5, <2>6, <2>7, <1>1 DEF WithoutRepeats
  <2> QED BY <2>1, <2>7, <2>8 DEF t
<1> QED BY <1>8, <1>9

\* What f makes of the first services is the path after one more visit.
Visits(f, path, more, U) ==
  /\ f \in [0..Len(more) -> Seq(U)]
  /\ f[0] = path /\ \A n \in 1..Len(more) : f[n] = Visit(f[n - 1], more[n])
  /\ ExtendPath(path, more) = f[Len(more)]

LEMMA ExtendedPath ==
  ASSUME NEW U, NEW path \in Seq(U), NEW more \in Seq(U)
  PROVE  \E f : Visits(f, path, more, U)
<1> DEFINE k == Len(more)
           F == [n \in 1..k |-> [p \in Seq(U) |-> Visit(p, more[n])]]
           body(h) == [n \in 0..k |-> IF n = 0 THEN path ELSE Visit(h[n - 1], more[n])]
           g == CHOOSE h : h = body(h)
<1>1. k \in Nat
  OBVIOUS
<1>2. \A p \in Seq(U), n \in 1..k : Visit(p, more[n]) \in Seq(U)
  BY DEF Visit
<1>3. F \in [1..k -> [Seq(U) -> Seq(U)]]
  BY <1>2
<1>4. \A n \in 1..k, p \in Seq(U) : F[n][p] = Visit(p, more[n])
  OBVIOUS
<1>5. PICK f : IsRun(f, Seq(U), k, path, F)
  <2>1. path \in Seq(U)
    OBVIOUS
  <2> HIDE DEF F, k
  <2> QED BY <2>1, <1>1, <1>3, Recursion
<1>6. \A n \in 1..k : f[n] = Visit(f[n - 1], more[n])
  <2> HIDE DEF F
  <2> QED BY <1>4, <1>5, <1>1 DEF IsRun
<1>7. f = body(f)
  BY <1>5, <1>6, <1>1 DEF IsRun
<1>8. g = body(g)
  <2> HIDE DEF body
  <2> QED BY <1>7
<1>9. g[0] = path /\ \A n \in 1..k : g[n] = Visit(g[n - 1], more[n])
  <2>1. \A h : h = body(h) => h[0] = path /\ \A n \in 1..k : h[n] = Visit(h[n - 1], more[n])
    BY <1>1
  <2> HIDE DEF g, body
  <2> QED BY <2>1, <1>8
<1>10. \A n \in 0..k : g[n] = f[n]
  <2> HIDE DEF g, body, F, k
  <2>1. Obeys(g, Seq(U), k, path, F)
    BY <1>4, <1>9 DEF Obeys
  <2> QED BY <2>1, <1>1, <1>5, OneRun
<1>11. ExtendPath(path, more) = g[k]
  BY DEF ExtendPath
<1>12. ExtendPath(path, more) = f[k]
  <2> HIDE DEF g, k
  <2> QED BY <1>10, <1>11, <1>1
<1>13. Visits(f, path, more, U)
  BY <1>5, <1>6, <1>12 DEF IsRun, Visits
<1> QED BY <1>13

\* Extending a path by another keeps it what both are without repeats.
LEMMA ExtendPathIs ==
  ASSUME NEW U, NEW p \in Seq(U), NEW s \in Seq(U), NEW more \in Seq(U), WithoutRepeats(p, s)
  PROVE  ExtendPath(p, more) \in Seq(U) /\ WithoutRepeats(ExtendPath(p, more), s \o more)
<1> DEFINE k == Len(more)
           upTo(n) == s \o SubSeq(more, 1, n)
<1>0. k \in Nat
  OBVIOUS
<1>9. PICK f : Visits(f, p, more, U)
  BY ExtendedPath
<1>1. /\ f \in [0..k -> Seq(U)]
      /\ f[0] = p /\ \A n \in 1..k : f[n] = Visit(f[n - 1], more[n])
      /\ ExtendPath(p, more) = f[k]
  BY <1>9 DEF Visits
<1>2. \A n \in 0..k : upTo(n) \in Seq(U)
  OBVIOUS
<1>3. upTo(0) = s /\ upTo(k) = s \o more
  <2>1. SubSeq(more, 1, 0) = <<>> /\ SubSeq(more, 1, k) = more
    BY SubSeqEmpty, SubSeqFull
  <2>2. s \o <<>> = s
    BY ConcatEmptySeq
  <2> QED BY <2>1, <2>2
<1>4. ASSUME NEW n \in 1..k PROVE upTo(n) = Append(upTo(n - 1), more[n]) /\ more[n] \in U
  <2> DEFINE before == SubSeq(more, 1, n - 1)
  <2>1. before \in Seq(U) /\ more[n] \in U
    OBVIOUS
  <2>2. SubSeq(more, 1, n) = before \o <<more[n]>>
    BY SubSeqRecursiveSecond
  <2> HIDE DEF before
  <2>3. s \o (before \o <<more[n]>>) = (s \o before) \o <<more[n]>>
    BY <2>1, ConcatAssociative, SMTT(30)
  <2>4. (s \o before) \o <<more[n]>> = Append(s \o before, more[n])
    BY <2>1
  <2> QED BY <2>1, <2>2, <2>3, <2>4 DEF before
<1> HIDE DEF k, upTo
<1> DEFINE S == {n \in 0..k : WithoutRepeats(f[n], upTo(n))}
<1>5. 0 \in S
  BY <1>0, <1>1, <1>3
<1>6. ASSUME NEW n \in 1..k, n - 1 \in S PROVE n \in S
  <2>1. f[n - 1] \in Seq(U) /\ upTo(n - 1) \in Seq(U) /\ n - 1 \in 0..k
    BY <1>0, <1>1, <1>2
  <2>2. WithoutRepeats(Visit(f[n - 1], more[n]), Append(upTo(n - 1), more[n]))
    BY <2>1, <1>6, <1>4, VisitOneMore
  <2>3. WithoutRepeats(f[n], upTo(n))
    BY <2>2, <1>1, <1>4
  <2> QED BY <2>3, <1>0
<1>7. \A n \in 0..k : n \in S
  <2>1. \A n \in 1..k : n - 1 \in S => n \in S
    BY <1>6
  <2> HIDE DEF S
  <2> QED BY <2>1, <1>0, <1>5, InductionUpTo
<1>8. k \in S /\ f[k] \in Seq(U)
  <2> HIDE DEF S
  <2> QED BY <1>7, <1>0, <1>1
<1> QED BY <1>1, <1>3, <1>8

\* A sequence without repeats is itself without repeats.
LEMMA WithoutRepeatsOfItself ==
  ASSUME NEW U, NEW p \in Seq(U), \A n \in 2..Len(p) : p[n] # p[n - 1]
  PROVE  WithoutRepeats(p, p)
<1>1. ASSUME NEW k \in 0..Len(p) PROVE Cardinality(ChangesUpTo(p, k)) = k
  <2>1. ChangesUpTo(p, k) = 1..k
    BY DEF ChangesUpTo
  <2> QED BY <2>1, FS_Interval
<1> QED BY <1>1 DEF WithoutRepeats

\* AddSteps adds one step after the other.
LEMMA AddedSteps ==
  ASSUME NEW U, NEW steps \in Seq(U), NEW more \in Seq(U)
  PROVE  \E f \in [0..Len(more) -> Seq(U)] :
           /\ f[0] = steps /\ \A n \in 1..Len(more) : f[n] = AddStep(f[n - 1], more[n])
           /\ AddSteps(steps, more) = f[Len(more)]
<1> DEFINE k == Len(more)
           F == [n \in 1..k |-> [p \in Seq(U) |-> AddStep(p, more[n])]]
           body(h) == [n \in 0..k |-> IF n = 0 THEN steps ELSE AddStep(h[n - 1], more[n])]
           g == CHOOSE h : h = body(h)
<1>1. k \in Nat
  OBVIOUS
<1>2. \A p \in Seq(U), n \in 1..k : AddStep(p, more[n]) \in Seq(U)
  BY DEF AddStep
<1>3. F \in [1..k -> [Seq(U) -> Seq(U)]]
  BY <1>2
<1>4. \A n \in 1..k, p \in Seq(U) : F[n][p] = AddStep(p, more[n])
  OBVIOUS
<1>5. PICK f : IsRun(f, Seq(U), k, steps, F)
  <2>1. steps \in Seq(U)
    OBVIOUS
  <2> HIDE DEF F, k
  <2> QED BY <2>1, <1>1, <1>3, Recursion
<1>6. \A n \in 1..k : f[n] = AddStep(f[n - 1], more[n])
  <2> HIDE DEF F
  <2> QED BY <1>4, <1>5, <1>1 DEF IsRun
<1>7. f = body(f)
  BY <1>5, <1>6, <1>1 DEF IsRun
<1>8. g = body(g)
  <2> HIDE DEF body
  <2> QED BY <1>7
<1>9. g[0] = steps /\ \A n \in 1..k : g[n] = AddStep(g[n - 1], more[n])
  <2>1. \A h : h = body(h) => h[0] = steps /\ \A n \in 1..k : h[n] = AddStep(h[n - 1], more[n])
    BY <1>1
  <2> HIDE DEF g, body
  <2> QED BY <2>1, <1>8
<1>10. \A n \in 0..k : g[n] = f[n]
  <2> HIDE DEF g, body, F, k
  <2>1. Obeys(g, Seq(U), k, steps, F)
    BY <1>4, <1>9 DEF Obeys
  <2> QED BY <2>1, <1>1, <1>5, OneRun
<1>11. AddSteps(steps, more) = g[k]
  BY DEF AddSteps
<1>12. AddSteps(steps, more) = f[k]
  <2> HIDE DEF g, k
  <2> QED BY <1>10, <1>11, <1>1
<1> QED BY <1>5, <1>6, <1>12 DEF IsRun

-----------------------------------------------------------------------------
(* Steps *)

SameOfEvent(U) == \A s, t \in U : s.event = t.event /\ s.event # None => s = t

Timed(U) == \A s \in U : s.time \in Nat

InTime(steps) == \A m, n \in DOMAIN steps : m < n => steps[m].time <= steps[n].time

Differ(s, t, first) == s.event = None \/ s.event # t.event \/ Repeats(first, s.event)

Once(steps, first) == \A m, n \in DOMAIN steps : m < n => Differ(steps[m], steps[n], first)

\* A step that is added is of no event that is there already.
LEMMA AddStepIs ==
  ASSUME NEW U, SameOfEvent(U), NEW steps \in Seq(U), NEW s \in U, NEW first, Once(steps, first)
  PROVE  /\ AddStep(steps, s) \in Seq(U) /\ ToSet(AddStep(steps, s)) = ToSet(steps) \cup {s}
         /\ Once(AddStep(steps, s), first)
<1>1. CASE s.event # None /\ \E n \in DOMAIN steps : steps[n].event = s.event
  <2>1. AddStep(steps, s) = steps
    BY <1>1 DEF AddStep
  <2>2. \E n \in DOMAIN steps : steps[n] = s
    BY <1>1 DEF SameOfEvent
  <2>3. s \in ToSet(steps)
    BY <2>2 DEF ToSet
  <2> QED BY <2>1, <2>3
<1>2. CASE ~(s.event # None /\ \E n \in DOMAIN steps : steps[n].event = s.event)
  <2> DEFINE t == Append(steps, s)
  <2>1. AddStep(steps, s) = t
    BY <1>2 DEF AddStep
  <2>2. /\ t \in Seq(U) /\ DOMAIN t = 1..(Len(steps) + 1) /\ DOMAIN steps = 1..Len(steps)
        /\ Len(steps) \in Nat /\ t[Len(steps) + 1] = s /\ \A n \in 1..Len(steps) : t[n] = steps[n]
    OBVIOUS
  <2> HIDE DEF t
  <2>3. ToSet(t) = ToSet(steps) \cup {s}
    BY <2>2 DEF ToSet
  <2>4. ASSUME NEW m \in DOMAIN t, NEW n \in DOMAIN t, m < n PROVE Differ(t[m], t[n], first)
    <3>1. CASE n = Len(steps) + 1
      <4>1. m \in DOMAIN steps /\ t[m] = steps[m] /\ t[n] = s
        BY <3>1, <2>2, <2>4
      <4> QED BY <4>1, <1>2 DEF Differ
    <3>2. CASE n # Len(steps) + 1
      <4>1. m \in DOMAIN steps /\ n \in DOMAIN steps /\ t[m] = steps[m] /\ t[n] = steps[n]
        BY <3>2, <2>2, <2>4
      <4> QED BY <4>1, <2>4 DEF Once
    <3> QED BY <3>1, <3>2
  <2> QED BY <2>1, <2>2, <2>3, <2>4 DEF Once
<1> QED BY <1>1, <1>2

\* Adding steps one after the other unites the two sequences, each event once.
LEMMA AddStepsIs ==
  ASSUME NEW U, SameOfEvent(U), NEW steps \in Seq(U), NEW more \in Seq(U), NEW first, Once(steps, first)
  PROVE  /\ AddSteps(steps, more) \in Seq(U)
         /\ ToSet(AddSteps(steps, more)) = ToSet(steps) \cup ToSet(more)
         /\ Once(AddSteps(steps, more), first)
<1> DEFINE k == Len(more)
           upTo(n) == {more[j] : j \in 1..n}
<1>1. PICK f \in [0..k -> Seq(U)] :
        /\ f[0] = steps /\ \A n \in 1..k : f[n] = AddStep(f[n - 1], more[n])
        /\ AddSteps(steps, more) = f[k]
  BY AddedSteps
<1>2. k \in Nat /\ \A n \in 1..k : more[n] \in U
  OBVIOUS
<1>3. upTo(0) = {} /\ upTo(k) = ToSet(more) /\ \A n \in 1..k : upTo(n) = upTo(n - 1) \cup {more[n]}
  <2>1. ASSUME NEW n \in 1..k PROVE upTo(n) = upTo(n - 1) \cup {more[n]}
    <3>1. 1..n = 1..(n - 1) \cup {n}
      OBVIOUS
    <3> QED BY <3>1
  <2>2. upTo(0) = {} /\ DOMAIN more = 1..k
    OBVIOUS
  <2> QED BY <2>1, <2>2 DEF ToSet
<1> HIDE DEF k, upTo
<1> DEFINE S == {n \in 0..k : ToSet(f[n]) = ToSet(steps) \cup upTo(n) /\ Once(f[n], first)}
<1>4. 0 \in S
  BY <1>1, <1>2, <1>3
<1>5. ASSUME NEW n \in 1..k, n - 1 \in S PROVE n \in S
  <2>1. f[n - 1] \in Seq(U) /\ more[n] \in U /\ f[n] = AddStep(f[n - 1], more[n])
    BY <1>1, <1>2
  <2>0. Once(f[n - 1], first)
    BY <1>5
  <2>2. /\ Once(AddStep(f[n - 1], more[n]), first)
        /\ ToSet(AddStep(f[n - 1], more[n])) = ToSet(f[n - 1]) \cup {more[n]}
    <3> HIDE DEF S
    <3>1. \A p \in Seq(U), x \in U : Once(p, first) =>
            Once(AddStep(p, x), first) /\ ToSet(AddStep(p, x)) = ToSet(p) \cup {x}
      BY AddStepIs
    <3> QED BY <2>0, <2>1, <3>1
  <2> QED BY <2>1, <2>2, <1>2, <1>3, <1>5
<1>6. \A n \in 0..k : n \in S
  <2>1. \A n \in 1..k : n - 1 \in S => n \in S
    BY <1>5
  <2> HIDE DEF S
  <2> QED BY <2>1, <1>2, <1>4, InductionUpTo
<1>7. k \in S /\ f[k] \in Seq(U)
  <2> HIDE DEF S
  <2> QED BY <1>1, <1>2, <1>6
<1> QED BY <1>1, <1>3, <1>7

\* The greatest of a set of numbers is what Max chooses.
LEMMA GreatestIs ==
  ASSUME NEW T, NEW m \in T, T \subseteq Nat, \A n \in T : n <= m
  PROVE  Max(T) = m
<1>1. \A n \in T : m >= n
  OBVIOUS
<1>2. Max(T) \in T /\ \A n \in T : Max(T) >= n
  <2>1. \E x \in T : \A y \in T : x >= y
    BY <1>1
  <2> QED BY <2>1 DEF Max
<1>3. Max(T) >= m /\ m >= Max(T) /\ Max(T) \in Nat /\ m \in Nat
  BY <1>1, <1>2
<1> QED BY <1>3

\* t is r, in time order, with s somewhere in it.
Inserted(t, r, s, U) ==
  /\ t \in Seq(U) /\ ToSet(t) = ToSet(r) \cup {s} /\ InTime(t)
  /\ \A first : /\ Once(r, first)
                /\ \A n \in DOMAIN r : Differ(r[n], s, first) /\ Differ(s, r[n], first)
                => Once(t, first)

\* A step is inserted in time order, and nothing else changes.
LEMMA InsertIs ==
  ASSUME NEW U, Timed(U), NEW r \in Seq(U), NEW s \in U, InTime(r)
  PROVE  Inserted(InsertByTime(r, s), r, s, U)
<1> DEFINE l == Len(r)
           T == {0} \cup NotLater(r, s)
           q == Max(T)
           t == InsertByTime(r, s)
<1>1. l \in Nat /\ DOMAIN r = 1..l /\ \A n \in 1..l : r[n] \in U /\ r[n].time \in Nat
  BY DEF Timed
<1>2. T \in SUBSET (0..l) /\ T # {}
  BY <1>1 DEF NotLater
<1>3. q \in T /\ \A n \in T : n <= q
  <2> HIDE DEF T, l
  <2>1. PICK m \in T : \A n \in T : n <= m
    BY <1>1, <1>2, Greatest
  <2>2. T \subseteq Nat
    BY <1>2
  <2> QED BY <2>1, <2>2, GreatestIs
<1>4. \A n \in 1..q : r[n].time <= s.time
  <2> SUFFICES ASSUME NEW n \in 1..q PROVE r[n].time <= s.time
    OBVIOUS
  <2>1. q \in 1..l /\ r[q].time <= s.time
    BY <1>1, <1>2, <1>3 DEF NotLater
  <2>2. r[n].time <= r[q].time
    BY <2>1, <1>1 DEF InTime
  <2>3. r[n].time \in Nat /\ r[q].time \in Nat /\ s.time \in Nat
    BY <2>1, <1>1 DEF Timed
  <2> QED BY <2>1, <2>2, <2>3
<1>5. \A n \in (q + 1)..l : s.time <= r[n].time
  <2> SUFFICES ASSUME NEW n \in (q + 1)..l PROVE s.time <= r[n].time
    OBVIOUS
  <2>0. q \in 0..l
    BY <1>2, <1>3
  <2>1. n \notin T /\ n \in 1..l
    <3> HIDE DEF T, q
    <3> QED BY <2>0, <1>3, <1>1
  <2>2. ~(r[n].time <= s.time)
    BY <2>1, <1>1 DEF NotLater
  <2>3. r[n].time \in Nat /\ s.time \in Nat
    BY <2>1, <1>1 DEF Timed
  <2> QED BY <2>2, <2>3
<1>6. q \in 0..l
  BY <1>2, <1>3
<1>14. l \in Nat /\ q \in Nat /\ q <= l
  <2> HIDE DEF q, T
  <2> QED BY <1>1, <1>6
<1>7. t = SubSeq(r, 1, q) \o <<s>> \o SubSeq(r, q + 1, l)
  <2>1. (q + 1) - 1 = q
    BY <1>6
  <2> QED BY <2>1 DEF InsertByTime, InsertAt
<1> HIDE DEF q, T
<1>8. /\ t \in Seq(U) /\ Len(t) = l + 1 /\ DOMAIN t = 1..(l + 1)
      /\ \A n \in 1..(l + 1) : t[n] = IF n <= q THEN r[n] ELSE IF n = q + 1 THEN s ELSE r[n - 1]
  <2> DEFINE a == SubSeq(r, 1, q)
             b == SubSeq(r, q + 1, l)
  <2>1. a \in Seq(U) /\ Len(a) = q /\ \A n \in 1..q : a[n] = r[n]
    BY <1>6, <1>1
  <2>2. b \in Seq(U) /\ Len(b) = l - q /\ \A n \in 1..(l - q) : b[n] = r[n + q]
    <3>1. q + 1 \in 1..(l + 1) /\ l \in 0..l /\ r \in Seq(U)
      BY <1>6, <1>1
    <3> HIDE DEF q
    <3>2. /\ b \in Seq(U) /\ Len(b) = IF q + 1 <= l THEN l - (q + 1) + 1 ELSE 0
          /\ \A n \in 1..(l - (q + 1) + 1) : b[n] = r[(q + 1) + n - 1]
      BY <3>1, SubSeqProperties
    <3> HIDE DEF b
    <3>3. /\ l - (q + 1) + 1 = l - q /\ (q + 1 <= l \/ l - q = 0)
          /\ \A n \in 1..(l - q) : (q + 1) + n - 1 = n + q
      <4> HIDE DEF l
      <4> QED BY <1>14
    <3> QED BY <3>2, <3>3
  <2> DEFINE c == a \o <<s>>
  <2>3. t = c \o b
    BY <1>7
  <2> HIDE DEF a, b, t, l
  <2>4. /\ c \in Seq(U) /\ Len(c) = q + 1
        /\ \A n \in 1..(q + 1) : c[n] = IF n <= q THEN r[n] ELSE s
    BY <2>1, <1>6
  <2> HIDE DEF c
  <2>5. t \in Seq(U) /\ Len(t) = l + 1
    BY <2>2, <2>3, <2>4, <1>1, <1>6
  <2>6. ASSUME NEW n \in 1..(l + 1)
        PROVE  t[n] = IF n <= q THEN r[n] ELSE IF n = q + 1 THEN s ELSE r[n - 1]
    <3>1. CASE n <= q + 1
      BY <3>1, <2>2, <2>3, <2>4, <1>1, <1>6
    <3>2. CASE n > q + 1
      <4>1. n - (q + 1) \in 1..(l - q) /\ n - (q + 1) + q = n - 1
        BY <3>2, <1>14
      <4>2. t[n] = b[n - (q + 1)]
        BY <3>2, <4>1, <2>2, <2>3, <2>4, <1>1, <1>6
      <4>3. b[n - (q + 1)] = r[n - 1]
        BY <4>1, <2>2
      <4> QED BY <3>2, <4>2, <4>3, <1>6
    <3> QED BY <3>1, <3>2, <1>6
  <2> QED BY <2>5, <2>6, <1>1
<1> HIDE DEF t, l
<1> DEFINE Old(n) == IF n <= q THEN n ELSE n - 1
<1>9. \A n \in 1..(l + 1) : \/ (n = q + 1 /\ t[n] = s)
                             \/ (n # q + 1 /\ Old(n) \in 1..l /\ t[n] = r[Old(n)])
  <2>0. \A n \in 1..(l + 1) : n = q + 1 => t[n] = s
    BY <1>1, <1>6, <1>8
  <2>1. ASSUME NEW n \in 1..(l + 1), n # q + 1 PROVE Old(n) \in 1..l /\ t[n] = r[Old(n)]
    <3>1. CASE n <= q
      BY <2>1, <3>1, <1>14, <1>8
    <3>2. CASE n > q
      BY <2>1, <3>2, <1>14, <1>8
    <3> QED BY <3>1, <3>2, <1>14
  <2> HIDE DEF Old
  <2> QED BY <2>0, <2>1
<1>10. ToSet(t) = ToSet(r) \cup {s}
  <2>1. ToSet(t) \subseteq ToSet(r) \cup {s}
    BY <1>1, <1>8, <1>9 DEF ToSet
  <2>2. s \in ToSet(t)
    <3>1. q + 1 \in 1..(l + 1) /\ t[q + 1] = s
      BY <1>1, <1>6, <1>8
    <3> QED BY <3>1, <1>8 DEF ToSet
  <2>3. ASSUME NEW n \in 1..l PROVE r[n] \in ToSet(t)
    <3>1. CASE n <= q
      <4>1. n \in 1..(l + 1) /\ t[n] = r[n]
        BY <3>1, <1>1, <1>6, <1>8
      <4> QED BY <4>1, <1>8 DEF ToSet
    <3>2. CASE n > q
      <4>1. n + 1 \in 1..(l + 1) /\ t[n + 1] = r[n]
        BY <3>2, <1>1, <1>6, <1>8
      <4> QED BY <4>1, <1>8 DEF ToSet
    <3> QED BY <3>1, <3>2, <1>1, <1>6
  <2> QED BY <2>1, <2>2, <2>3, <1>1 DEF ToSet
<1>11. ASSUME NEW m \in 1..(l + 1), NEW n \in 1..(l + 1), m < n
       PROVE  \/ (m # q + 1 /\ n # q + 1 /\ Old(m) < Old(n))
              \/ (m = q + 1 /\ n # q + 1 /\ Old(n) \in (q + 1)..l)
              \/ (n = q + 1 /\ m # q + 1 /\ Old(m) \in 1..q)
  BY <1>11, <1>1, <1>6
<1> HIDE DEF Old
<1>12. InTime(t)
  <2> SUFFICES ASSUME NEW m \in 1..(l + 1), NEW n \in 1..(l + 1), m < n
               PROVE  t[m].time <= t[n].time
    BY <1>8 DEF InTime
  <2> QED BY <1>1, <1>4, <1>5, <1>9, <1>11 DEF InTime
<1>13. ASSUME NEW first, Once(r, first),
              \A n \in DOMAIN r : Differ(r[n], s, first) /\ Differ(s, r[n], first)
       PROVE  Once(t, first)
  <2> SUFFICES ASSUME NEW m \in 1..(l + 1), NEW n \in 1..(l + 1), m < n
               PROVE  Differ(t[m], t[n], first)
    BY <1>8 DEF Once
  <2> QED BY <1>1, <1>9, <1>11, <1>13 DEF Once
<1>20. Inserted(t, r, s, U)
  BY <1>8, <1>10, <1>12, <1>13 DEF Inserted
<1> QED BY <1>20 DEF t

\* What f makes of the first steps is the same with the next of them inserted.
Inserts(f, steps, U) ==
  /\ \A n \in 0..Len(steps) : f[n] \in Seq(U) /\ InTime(f[n])
  /\ f[0] = <<>> /\ \A n \in 1..Len(steps) : f[n] = InsertByTime(f[n - 1], steps[n])
  /\ SortByTime(steps) = f[Len(steps)]

\* SortByTime inserts one step after the other.
LEMMA SortedSteps ==
  ASSUME NEW U, Timed(U), NEW steps \in Seq(U)
  PROVE  \E f : Inserts(f, steps, U)
<1> DEFINE k == Len(steps)
           T == {p \in Seq(U) : InTime(p)}
           F == [n \in 1..k |-> [p \in T |-> InsertByTime(p, steps[n])]]
           body(h) == [n \in 0..k |-> IF n = 0 THEN <<>> ELSE InsertByTime(h[n - 1], steps[n])]
           g == CHOOSE h : h = body(h)
<1>1. k \in Nat
  OBVIOUS
<1>2. \A p \in T, n \in 1..k : InsertByTime(p, steps[n]) \in T
  <2> SUFFICES ASSUME NEW p \in T, NEW n \in 1..k PROVE InsertByTime(p, steps[n]) \in T
    OBVIOUS
  <2>1. p \in Seq(U) /\ InTime(p) /\ steps[n] \in U
    OBVIOUS
  <2>2. Inserted(InsertByTime(p, steps[n]), p, steps[n], U)
    BY <2>1, InsertIs
  <2> QED BY <2>2 DEF Inserted
<1>3. F \in [1..k -> [T -> T]]
  <2> HIDE DEF T
  <2> QED BY <1>2
<1>4. \A n \in 1..k, p \in T : F[n][p] = InsertByTime(p, steps[n])
  <2> HIDE DEF T
  <2> QED OBVIOUS
<1>5. PICK f : IsRun(f, T, k, <<>>, F)
  <2>1. <<>> \in T
    BY DEF InTime
  <2> HIDE DEF F, k, T
  <2> QED BY <2>1, <1>1, <1>3, Recursion
<1>6. \A n \in 1..k : f[n] = InsertByTime(f[n - 1], steps[n])
  <2> HIDE DEF F, T
  <2> QED BY <1>4, <1>5, <1>1 DEF IsRun
<1>7. f = body(f)
  <2> HIDE DEF T
  <2> QED BY <1>5, <1>6, <1>1 DEF IsRun
<1>8. g = body(g)
  <2> HIDE DEF body
  <2> QED BY <1>7
<1>9. g[0] = <<>> /\ \A n \in 1..k : g[n] = InsertByTime(g[n - 1], steps[n])
  <2>1. \A h : h = body(h) => h[0] = <<>> /\ \A n \in 1..k : h[n] = InsertByTime(h[n - 1], steps[n])
    BY <1>1
  <2> HIDE DEF g, body
  <2> QED BY <2>1, <1>8
<1>10. \A n \in 0..k : g[n] = f[n]
  <2> HIDE DEF g, body, F, k, T
  <2>1. Obeys(g, T, k, <<>>, F)
    BY <1>4, <1>9 DEF Obeys
  <2> QED BY <2>1, <1>1, <1>5, OneRun
<1>11. SortByTime(steps) = g[k]
  BY DEF SortByTime
<1>12. SortByTime(steps) = f[k]
  <2> HIDE DEF g, k
  <2> QED BY <1>10, <1>11, <1>1
<1>13. \A n \in 0..k : f[n] \in T
  <2> HIDE DEF T, F
  <2> QED BY <1>5 DEF IsRun
<1> QED BY <1>5, <1>6, <1>12, <1>13 DEF IsRun, Inserts

\* A sorted sequence is in time order and has the steps it had, each once more.
LEMMA SortIs ==
  ASSUME NEW U, Timed(U), NEW steps \in Seq(U), NEW first, Once(steps, first)
  PROVE  LET t == SortByTime(steps)
         IN  t \in Seq(U) /\ ToSet(t) = ToSet(steps) /\ InTime(t) /\ Once(t, first)
<1> DEFINE k == Len(steps)
           upTo(n) == {steps[j] : j \in 1..n}
<1>0. PICK f : Inserts(f, steps, U)
  BY SortedSteps
<1>1. /\ \A n \in 0..k : f[n] \in Seq(U) /\ InTime(f[n])
      /\ f[0] = <<>> /\ \A n \in 1..k : f[n] = InsertByTime(f[n - 1], steps[n])
      /\ SortByTime(steps) = f[k]
  BY <1>0 DEF Inserts
<1>2. k \in Nat /\ DOMAIN steps = 1..k /\ \A n \in 1..k : steps[n] \in U
  OBVIOUS
<1>3. upTo(0) = {} /\ upTo(k) = ToSet(steps) /\ \A n \in 1..k : upTo(n) = upTo(n - 1) \cup {steps[n]}
  <2>1. ASSUME NEW n \in 1..k PROVE upTo(n) = upTo(n - 1) \cup {steps[n]}
    <3>1. 1..n = 1..(n - 1) \cup {n}
      OBVIOUS
    <3> QED BY <3>1
  <2>2. upTo(0) = {} /\ DOMAIN steps = 1..k
    OBVIOUS
  <2> QED BY <2>1, <2>2 DEF ToSet
<1>4. ASSUME NEW n \in 1..k, NEW s \in upTo(n - 1) PROVE Differ(s, steps[n], first) /\ Differ(steps[n], s, first)
  <2>1. PICK j \in 1..(n - 1) : s = steps[j]
    OBVIOUS
  <2>2. j \in DOMAIN steps /\ n \in DOMAIN steps /\ j < n
    BY <1>2
  <2>3. Differ(s, steps[n], first)
    BY <2>1, <2>2 DEF Once
  <2> QED BY <2>3 DEF Differ
<1> HIDE DEF k, upTo
<1> DEFINE S == {n \in 0..k : ToSet(f[n]) = upTo(n) /\ Once(f[n], first)}
<1>5. 0 \in S
  BY <1>1, <1>2, <1>3 DEF ToSet, Once
<1>6. ASSUME NEW n \in 1..k, n - 1 \in S PROVE n \in S
  <2> DEFINE r == f[n - 1]
             t == InsertByTime(r, steps[n])
  <2>1. r \in Seq(U) /\ InTime(r) /\ steps[n] \in U /\ f[n] = t
    BY <1>1, <1>2
  <2>2. ToSet(r) = upTo(n - 1) /\ Once(r, first)
    BY <1>6
  <2>3. \A j \in DOMAIN r : Differ(r[j], steps[n], first) /\ Differ(steps[n], r[j], first)
    <3>1. \A j \in DOMAIN r : r[j] \in upTo(n - 1)
      BY <2>2 DEF ToSet
    <3> HIDE DEF r
    <3> QED BY <3>1, <1>4
  <2> HIDE DEF r, S
  <2>4. ToSet(t) = ToSet(r) \cup {steps[n]} /\ Once(t, first)
    <3>1. Inserted(t, r, steps[n], U)
      BY <2>1, InsertIs DEF t
    <3> QED BY <2>2, <2>3, <3>1 DEF Inserted
  <2>5. ToSet(f[n]) = upTo(n) /\ Once(f[n], first) /\ n \in 0..k
    BY <2>1, <2>2, <2>4, <1>2, <1>3
  <2> QED BY <2>5 DEF S
<1>7. \A n \in 0..k : n \in S
  <2>1. \A n \in 1..k : n - 1 \in S => n \in S
    BY <1>6
  <2> HIDE DEF S
  <2> QED BY <2>1, <1>2, <1>5, InductionUpTo
<1>8. k \in S /\ f[k] \in Seq(U) /\ InTime(f[k])
  <2> HIDE DEF S
  <2> QED BY <1>1, <1>2, <1>7
<1> QED BY <1>1, <1>3, <1>8

\* What the merge of two sequences of steps is: both, in time order, each event once.
LEMMA MergeStepsIs ==
  ASSUME NEW U, SameOfEvent(U), Timed(U), NEW steps \in Seq(U), NEW more \in Seq(U),
         NEW first, Once(steps, first)
  PROVE  LET t == MergeSteps(steps, more)
         IN  t \in Seq(U) /\ ToSet(t) = ToSet(steps) \cup ToSet(more) /\ InTime(t) /\ Once(t, first)
<1>1. /\ AddSteps(steps, more) \in Seq(U) /\ ToSet(AddSteps(steps, more)) = ToSet(steps) \cup ToSet(more)
      /\ Once(AddSteps(steps, more), first)
  BY AddStepsIs
<1> QED BY <1>1, SortIs DEF MergeSteps

-----------------------------------------------------------------------------
(* The paths of the incidents, one after the other *)

Joins(f, seqs, U) ==
  /\ \A n \in 1..Len(seqs) : f[n] \in Seq(U)
  /\ f[1] = seqs[1] /\ \A n \in 2..Len(seqs) : f[n] = f[n - 1] \o seqs[n]
  /\ FlattenSeq(seqs) = f[Len(seqs)]

\* FlattenSeq joins one sequence after the other.
LEMMA Flattened ==
  ASSUME NEW U, NEW seqs \in Seq(Seq(U)), seqs # <<>>
  PROVE  \E f : Joins(f, seqs, U)
<1> DEFINE l == Len(seqs)
           k == l - 1
           F == [n \in 1..k |-> [p \in Seq(U) |-> p \o seqs[n + 1]]]
           body(h) == [i \in 1..l |-> IF i = 1 THEN seqs[i] ELSE h[i - 1] \o seqs[i]]
           g == CHOOSE h : h = body(h)
<1>1. l \in Nat /\ l >= 1 /\ \A n \in 1..l : seqs[n] \in Seq(U)
  OBVIOUS
<1>2. FlattenSeq(seqs) = g[l]
  <2>1. Len(seqs) # 0
    BY <1>1
  <2> QED BY <2>1 DEF FlattenSeq
<1> HIDE DEF l
<1>3. k \in Nat /\ \A n \in 1..k : n + 1 \in 1..l
  BY <1>1
<1>4. F \in [1..k -> [Seq(U) -> Seq(U)]]
  <2>1. \A p \in Seq(U), q \in Seq(U) : p \o q \in Seq(U)
    OBVIOUS
  <2> HIDE DEF k
  <2> QED BY <2>1, <1>1, <1>3
<1>5. \A n \in 1..k, p \in Seq(U) : F[n][p] = p \o seqs[n + 1]
  OBVIOUS
<1>6. PICK e : IsRun(e, Seq(U), k, seqs[1], F)
  <2>1. seqs[1] \in Seq(U)
    BY <1>1
  <2> HIDE DEF F, k
  <2> QED BY <2>1, <1>3, <1>4, Recursion
<1>7. e[0] = seqs[1] /\ \A n \in 1..k : e[n] = e[n - 1] \o seqs[n + 1]
  <2> HIDE DEF F, k
  <2>1. e[0] = seqs[1] /\ \A n \in 1..k : e[n - 1] \in Seq(U) /\ e[n] = F[n][e[n - 1]]
    BY <1>3, <1>6 DEF IsRun
  <2> QED BY <2>1, <1>5
<1> DEFINE f == [n \in 1..l |-> e[n - 1]]
<1>8. ASSUME NEW n \in 1..l PROVE f[n] = IF n = 1 THEN seqs[n] ELSE f[n - 1] \o seqs[n]
  <2>1. CASE n = 1
    BY <2>1, <1>1, <1>7
  <2>2. CASE n # 1
    <3>1. n - 1 \in 1..k /\ n - 1 \in 1..l /\ (n - 1) + 1 = n
      BY <2>2, <1>1
    <3>2. e[n - 1] = e[(n - 1) - 1] \o seqs[n]
      <4> HIDE DEF k
      <4> QED BY <3>1, <1>7
    <3> QED BY <2>2, <3>1, <3>2
  <2> QED BY <2>1, <2>2
<1>9. f = body(f)
  BY <1>8
<1>10. g = body(g)
  <2> HIDE DEF body, f
  <2> QED BY <1>9
<1>11. \A n \in 1..l : g[n] = IF n = 1 THEN seqs[n] ELSE g[n - 1] \o seqs[n]
  <2>1. \A h : h = body(h) => \A n \in 1..l : h[n] = IF n = 1 THEN seqs[n] ELSE h[n - 1] \o seqs[n]
    OBVIOUS
  <2> HIDE DEF g, body
  <2> QED BY <2>1, <1>10
<1> HIDE DEF g
<1>12. \A n \in 1..l : g[n] \in Seq(U)
  <2> DEFINE S == {n \in 0..l : n = 0 \/ g[n] \in Seq(U)}
  <2>1. 0 \in S
    BY <1>1
  <2>2. ASSUME NEW n \in 1..l, n - 1 \in S PROVE n \in S
    <3>1. CASE n = 1
      BY <3>1, <1>1, <1>11
    <3>2. CASE n # 1
      <4>1. g[n - 1] \in Seq(U)
        BY <2>2, <3>2, <1>1
      <4>2. g[n] = g[n - 1] \o seqs[n] /\ seqs[n] \in Seq(U)
        <5> HIDE DEF S
        <5> QED BY <3>2, <1>1, <1>11
      <4>3. g[n] \in Seq(U)
        BY <4>1, <4>2
      <4> QED BY <4>3, <1>1
    <3> QED BY <3>1, <3>2
  <2>3. \A n \in 1..l : n - 1 \in S => n \in S
    BY <2>2
  <2>4. \A n \in 0..l : n \in S
    <3> HIDE DEF S
    <3> QED BY <2>1, <2>3, <1>1, InductionUpTo
  <2> QED BY <2>4, <1>1
<1>13. g[1] = seqs[1] /\ \A n \in 2..l : g[n] = g[n - 1] \o seqs[n]
  <2>1. 1 \in 1..l /\ \A n \in 2..l : n \in 1..l /\ n # 1
    BY <1>1
  <2> QED BY <2>1, <1>11
<1> QED BY <1>2, <1>12, <1>13 DEF Joins, l

\* One more sequence is joined at the end.
LEMMA FlattenOneMore ==
  ASSUME NEW U, NEW seqs \in Seq(Seq(U)), seqs # <<>>, NEW s \in Seq(U)
  PROVE  FlattenSeq(seqs) \in Seq(U) /\ FlattenSeq(Append(seqs, s)) = FlattenSeq(seqs) \o s
<1> DEFINE k == Len(seqs)
           t == Append(seqs, s)
<1>1. k \in Nat /\ k >= 1 /\ t \in Seq(Seq(U)) /\ t # <<>> /\ Len(t) = k + 1 /\ t[k + 1] = s
      /\ \A n \in 1..k : t[n] = seqs[n]
  OBVIOUS
<1> HIDE DEF t
<1>2. PICK f : Joins(f, seqs, U)
  BY Flattened
<1>3. PICK g : Joins(g, t, U)
  BY <1>1, Flattened
<1>4. /\ f[1] = seqs[1] /\ \A n \in 2..k : f[n] = f[n - 1] \o seqs[n]
      /\ f[k] \in Seq(U) /\ FlattenSeq(seqs) = f[k]
  <2>1. k \in 1..k
    BY <1>1
  <2> QED BY <2>1, <1>2 DEF Joins
<1>5. /\ g[1] = t[1] /\ \A n \in 2..(k + 1) : g[n] = g[n - 1] \o t[n]
      /\ FlattenSeq(t) = g[k + 1]
  BY <1>1, <1>3 DEF Joins
<1> HIDE DEF k
<1> DEFINE S == {n \in 0..k : n = 0 \/ g[n] = f[n]}
<1>6. \A n \in 1..k : n - 1 \in S => n \in S
  <2> SUFFICES ASSUME NEW n \in 1..k, n - 1 \in S PROVE g[n] = f[n]
    BY <1>1
  <2>1. CASE n = 1
    BY <2>1, <1>1, <1>4, <1>5
  <2>2. CASE n # 1
    <3>1. n \in 2..k /\ n \in 2..(k + 1) /\ g[n - 1] = f[n - 1] /\ t[n] = seqs[n]
      BY <2>2, <1>1
    <3> QED BY <3>1, <1>4, <1>5
  <2> QED BY <2>1, <2>2
<1>7. \A n \in 0..k : n \in S
  <2>1. 0 \in S
    BY <1>1
  <2> HIDE DEF S
  <2> QED BY <2>1, <1>1, <1>6, InductionUpTo
<1>8. g[k] = f[k]
  BY <1>1, <1>7
<1>9. FlattenSeq(t) = g[k] \o s
  <2>1. k + 1 \in 2..(k + 1) /\ (k + 1) - 1 = k
    BY <1>1
  <2> QED BY <2>1, <1>1, <1>5
<1> QED BY <1>4, <1>8, <1>9 DEF t

\* One sequence alone is what it is.
LEMMA FlattenOne ==
  ASSUME NEW U, NEW s \in Seq(U)
  PROVE  FlattenSeq(<<s>>) = s
<1> DEFINE t == <<s>>
<1>1. t \in Seq(Seq(U)) /\ t # <<>> /\ Len(t) = 1 /\ t[1] = s
  OBVIOUS
<1> HIDE DEF t
<1>2. PICK f : Joins(f, t, U)
  BY <1>1, Flattened
<1> QED BY <1>1, <1>2 DEF Joins, t

USE CampaignAssumption, IncidentAssumption

-----------------------------------------------------------------------------
(* Campaigns *)

Services == UNION {ToSet(inc.path) : inc \in Incidents}

Fields == {"cid", "actor", "ids", "path", "steps", "techniques", "stages", "severity",
           "confidence", "last", "status", "message"}

AllSteps == StepsOf(Incidents)

Listed(ids) == ToSet(Members(ids))

IsGreatest(m, S) == m \in S /\ \A x \in S : x <= m

\* What MergesWhatItLists says, with the types that are needed to go on.
Merges(c) ==
  /\ c.ids \in Seq(IncidentIds) /\ c.ids # <<>>
  /\ \A inc \in Listed(c.ids) : ResolveActor(inc) = c.actor
  /\ IsGreatest(c.severity, {inc.severity : inc \in Listed(c.ids)})
  /\ IsGreatest(c.confidence, {inc.confidence : inc \in Listed(c.ids)})
  /\ c.stages = UNION {StagesOf(inc) : inc \in Listed(c.ids)}
  /\ c.techniques = UNION {inc.techniques : inc \in Listed(c.ids)}
  /\ c.path \in Seq(Services) /\ WithoutRepeats(c.path, PathsOf(c.ids))
  /\ c.steps \in Seq(AllSteps) /\ ToSet(c.steps) = StepsOf(Listed(c.ids))
  /\ InTime(c.steps) /\ Once(c.steps, Members(c.ids)[1].steps)

\* What an incident is, from the assumptions on incidents.
LEMMA IncidentTypes ==
  ASSUME NEW inc \in Incidents
  PROVE  /\ inc.id \in IncidentIds /\ IncidentOf(inc.id) = inc
         /\ inc.severity \in Nat /\ inc.confidence \in Nat
         /\ inc.path \in Seq(Services) /\ inc.steps \in Seq(AllSteps)
         /\ ToSet(inc.steps) \subseteq AllSteps /\ InTime(inc.steps) /\ WithoutRepeats(inc.path, inc.path)
<1>1. inc.id \in IncidentIds
  BY DEF IncidentIds
<1>2. IncidentOf(inc.id) = inc
  BY DEF IncidentOf
<1>3. ToSet(inc.path) \subseteq Services /\ ToSet(inc.steps) \subseteq AllSteps
  BY DEF Services, AllSteps, StepsOf
<1>4. inc.path \in Seq(ToSet(inc.path)) /\ inc.steps \in Seq(ToSet(inc.steps))
  BY DEF IsSequence
<1>5. inc.path \in Seq(Services) /\ inc.steps \in Seq(AllSteps)
  BY <1>3, <1>4
<1>6. InTime(inc.steps)
  BY DEF InTime
<1>7. WithoutRepeats(inc.path, inc.path)
  BY <1>5, WithoutRepeatsOfItself
<1> QED BY <1>1, <1>2, <1>3, <1>5, <1>6, <1>7

LEMMA StepTypes == SameOfEvent(AllSteps) /\ Timed(AllSteps)
<1>1. SameOfEvent(AllSteps)
  BY DEF SameOfEvent, AllSteps
<1>2. Timed(AllSteps)
  BY DEF Timed, AllSteps, StepsOf
<1> QED BY <1>1, <1>2

\* The incidents behind a list of ids.
LEMMA MembersAre ==
  ASSUME NEW ids \in Seq(IncidentIds)
  PROVE  /\ Members(ids) \in Seq(Incidents) /\ Len(Members(ids)) = Len(ids)
         /\ \A n \in 1..Len(ids) : Members(ids)[n] = IncidentOf(ids[n]) /\ Members(ids)[n] \in Incidents
<1>1. \A i \in IncidentIds : IncidentOf(i) \in Incidents
  BY DEF IncidentIds, IncidentOf
<1>2. DOMAIN ids = 1..Len(ids) /\ Len(ids) \in Nat /\ \A n \in 1..Len(ids) : ids[n] \in IncidentIds
  OBVIOUS
<1>3. Members(ids) = [n \in 1..Len(ids) |-> IncidentOf(ids[n])]
  BY <1>2 DEF Members
<1>4. \A n \in 1..Len(ids) : IncidentOf(ids[n]) \in Incidents
  BY <1>1, <1>2
<1> QED BY <1>2, <1>3, <1>4

\* What a campaign lists when it is opened.
LEMMA ListedOne ==
  ASSUME NEW inc \in Incidents
  PROVE  LET ids == <<inc.id>>
         IN  Listed(ids) = {inc} /\ Members(ids)[1] = inc /\ PathsOf(ids) = inc.path
<1> DEFINE ids == <<inc.id>>
<1>1. ids \in Seq(IncidentIds) /\ Len(ids) = 1 /\ DOMAIN ids = 1..1 /\ ids[1] = inc.id /\ 1..1 = {1}
  BY IncidentTypes
<1>2. Members(ids) = [n \in {1} |-> inc]
  <2> HIDE DEF ids
  <2> QED BY <1>1, IncidentTypes DEF Members
<1>3. Listed(ids) = {inc}
  <2> HIDE DEF ids
  <2> QED BY <1>2 DEF Listed, ToSet
<1>4. [n \in DOMAIN ids |-> Members(ids)[n].path] = <<inc.path>>
  <2>1. <<inc.path>> = [n \in 1..1 |-> inc.path]
    OBVIOUS
  <2> HIDE DEF ids
  <2> QED BY <2>1, <1>1, <1>2
<1>5. PathsOf(ids) = inc.path
  <2> HIDE DEF ids
  <2> QED BY <1>4, IncidentTypes, FlattenOne DEF PathsOf
<1> QED BY <1>2, <1>3, <1>5

\* What it lists after one more incident.
LEMMA ListedMore ==
  ASSUME NEW ids \in Seq(IncidentIds), ids # <<>>, NEW inc \in Incidents
  PROVE  LET more == Append(ids, inc.id)
         IN  /\ Listed(more) = Listed(ids) \cup {inc} /\ Members(more)[1] = Members(ids)[1]
             /\ PathsOf(ids) \in Seq(Services) /\ PathsOf(more) = PathsOf(ids) \o inc.path
             /\ more \in Seq(IncidentIds) /\ more # <<>>
<1> DEFINE more == Append(ids, inc.id)
           l == Len(ids)
<1>1. /\ more \in Seq(IncidentIds) /\ Len(more) = l + 1 /\ more[l + 1] = inc.id /\ l \in Nat /\ l >= 1
      /\ \A n \in 1..l : more[n] = ids[n]
      /\ DOMAIN ids = 1..l /\ DOMAIN more = 1..(l + 1)
  BY IncidentTypes
<1> HIDE DEF more
<1>2. /\ \A n \in 1..l : Members(more)[n] = Members(ids)[n] /\ Members(ids)[n] \in Incidents
      /\ Members(more)[l + 1] = inc
      /\ Members(ids) \in Seq(Incidents) /\ Members(more) \in Seq(Incidents)
      /\ DOMAIN Members(ids) = 1..l /\ DOMAIN Members(more) = 1..(l + 1)
  <2>1. \A n \in 1..l : n \in 1..(l + 1)
    BY <1>1
  <2>2. l + 1 \in 1..(l + 1)
    BY <1>1
  <2>3. \A n \in 1..l : Members(more)[n] = Members(ids)[n] /\ Members(ids)[n] \in Incidents
    BY <2>1, <1>1, MembersAre
  <2>4. Members(more)[l + 1] = inc
    BY <2>2, <1>1, MembersAre, IncidentTypes
  <2>5. /\ Members(ids) \in Seq(Incidents) /\ Members(more) \in Seq(Incidents)
        /\ Len(Members(ids)) = l /\ Len(Members(more)) = l + 1
    BY <1>1, MembersAre
  <2> QED BY <2>3, <2>4, <2>5
<1> HIDE DEF l
<1>3. Listed(more) = Listed(ids) \cup {inc}
  <2>1. 1..(l + 1) = 1..l \cup {l + 1}
    BY <1>1
  <2> QED BY <2>1, <1>2 DEF Listed, ToSet
<1> DEFINE ps == [n \in DOMAIN ids |-> Members(ids)[n].path]
           qs == [n \in DOMAIN more |-> Members(more)[n].path]
<1>4. ps \in Seq(Seq(Services)) /\ ps # <<>> /\ Len(ps) = l
  <2>1. \A n \in 1..l : Members(ids)[n].path \in Seq(Services)
    BY <1>2, IncidentTypes
  <2>2. ps = [n \in 1..l |-> Members(ids)[n].path]
    BY <1>1
  <2>3. ps \in Seq(Seq(Services)) /\ Len(ps) = l
    BY <2>1, <2>2, <1>1
  <2> HIDE DEF ps
  <2>4. ps # <<>>
    BY <2>3, <1>1
  <2> QED BY <2>3, <2>4
<1>5. qs = Append(ps, inc.path)
  <2>1. DOMAIN Append(ps, inc.path) = 1..(l + 1) /\ Append(ps, inc.path)[l + 1] = inc.path
        /\ \A n \in 1..l : Append(ps, inc.path)[n] = ps[n]
    <3> HIDE DEF ps
    <3> QED BY <1>4, <1>1, IncidentTypes
  <2>2. \A n \in 1..l : qs[n] = ps[n]
    BY <1>1, <1>2
  <2>3. qs[l + 1] = inc.path /\ DOMAIN qs = 1..(l + 1)
    BY <1>1, <1>2
  <2>4. Append(ps, inc.path) = [n \in 1..(l + 1) |-> Append(ps, inc.path)[n]] /\ qs = [n \in 1..(l + 1) |-> qs[n]]
    <3> HIDE DEF ps
    <3>1. Append(ps, inc.path) = [n \in DOMAIN Append(ps, inc.path) |-> Append(ps, inc.path)[n]]
      BY <1>4, IncidentTypes
    <3> QED BY <3>1, <2>1, <1>1
  <2> HIDE DEF ps, qs
  <2>5. \A n \in 1..(l + 1) : n \in 1..l \/ n = l + 1
    BY <1>1
  <2>6. \A n \in 1..(l + 1) : qs[n] = Append(ps, inc.path)[n]
    BY <2>1, <2>2, <2>3, <2>5
  <2> QED BY <2>4, <2>6
<1>6. PathsOf(ids) = FlattenSeq(ps) /\ PathsOf(more) = FlattenSeq(qs)
  BY DEF PathsOf
<1>7. PathsOf(ids) \in Seq(Services) /\ PathsOf(more) = PathsOf(ids) \o inc.path
  <2> HIDE DEF ps, qs
  <2>1. inc.path \in Seq(Services)
    BY IncidentTypes
  <2>2. FlattenSeq(ps) \in Seq(Services) /\ FlattenSeq(Append(ps, inc.path)) = FlattenSeq(ps) \o inc.path
    BY <2>1, <1>4, FlattenOneMore
  <2> QED BY <2>2, <1>5, <1>6
<1>8. more # <<>> /\ Members(more)[1] = Members(ids)[1]
  BY <1>1, <1>2
<1> QED BY <1>1, <1>3, <1>7, <1>8 DEF more

\* A campaign that an incident opens is the merge of that incident.
LEMMA NewMerges ==
  ASSUME NEW cid, NEW inc \in Incidents, NEW now
  PROVE  Merges(NewCampaign(cid, inc, now))
<1> DEFINE c == NewCampaign(cid, inc, now)
<1>1. /\ c.ids = <<inc.id>> /\ c.actor = ResolveActor(inc) /\ c.path = inc.path /\ c.steps = inc.steps
      /\ c.techniques = inc.techniques /\ c.stages = StagesOf(inc) /\ c.severity = inc.severity
      /\ c.confidence = inc.confidence
  BY DEF NewCampaign
<1> HIDE DEF c
<1>2. c.ids \in Seq(IncidentIds) /\ c.ids # <<>>
  BY <1>1, IncidentTypes
<1>3. Listed(c.ids) = {inc} /\ Members(c.ids)[1] = inc /\ PathsOf(c.ids) = inc.path
  BY <1>1, ListedOne
<1>4. /\ inc.severity \in Nat /\ inc.confidence \in Nat
      /\ inc.path \in Seq(Services) /\ inc.steps \in Seq(AllSteps) /\ InTime(inc.steps)
      /\ WithoutRepeats(inc.path, inc.path)
  BY IncidentTypes
<1>5. /\ IsGreatest(c.severity, {i.severity : i \in {inc}})
      /\ IsGreatest(c.confidence, {i.confidence : i \in {inc}})
  BY <1>1, <1>4 DEF IsGreatest
<1>6. /\ c.stages = UNION {StagesOf(i) : i \in {inc}}
      /\ c.techniques = UNION {i.techniques : i \in {inc}}
  BY <1>1
<1>7. ToSet(c.steps) = StepsOf({inc})
  BY <1>1 DEF StepsOf
<1>8. Once(c.steps, inc.steps)
  BY <1>1, <1>4 DEF Once, Differ, Repeats
<1> QED BY <1>1, <1>2, <1>3, <1>4, <1>5, <1>6, <1>7, <1>8 DEF Merges, c

LEMMA GreaterOf ==
  ASSUME NEW m, NEW S, S \subseteq Nat, IsGreatest(m, S), NEW x \in Nat
  PROVE  IsGreatest(MaxSeverity(m, x), S \cup {x})
<1>1. m \in Nat
  BY DEF IsGreatest
<1>2. CASE m >= x
  BY <1>1, <1>2 DEF IsGreatest, MaxSeverity
<1>3. CASE ~(m >= x)
  <2>1. m < x
    BY <1>1, <1>3
  <2>2. \A y \in S : y <= x
    <3> SUFFICES ASSUME NEW y \in S PROVE y <= x
      OBVIOUS
    <3>1. y <= m /\ y \in Nat
      BY DEF IsGreatest
    <3> QED BY <3>1, <2>1, <1>1
  <2> QED BY <2>2, <1>3 DEF IsGreatest, MaxSeverity
<1> QED BY <1>2, <1>3

\* A merge of incidents into which one more of that actor is merged is a merge of them all.
LEMMA MergedMerges ==
  ASSUME NEW c, Fields \subseteq DOMAIN c, Merges(c), NEW inc \in Incidents, ResolveActor(inc) = c.actor, NEW now
  PROVE  Merges(Merged(c, inc, now))
<1> DEFINE m == Merged(c, inc, now)
           L == Listed(c.ids)
<1>1. /\ m.ids = Append(c.ids, inc.id) /\ m.actor = c.actor /\ m.path = ExtendPath(c.path, inc.path)
      /\ m.steps = MergeSteps(c.steps, inc.steps) /\ m.techniques = c.techniques \cup inc.techniques
      /\ m.stages = c.stages \cup StagesOf(inc) /\ m.severity = MaxSeverity(c.severity, inc.severity)
      /\ m.confidence = MaxSeverity(c.confidence, inc.confidence)
  BY DEF Merged, Fields
<1> HIDE DEF m
<1>2. c.ids \in Seq(IncidentIds) /\ c.ids # <<>>
  BY DEF Merges
<1>3. /\ Listed(m.ids) = L \cup {inc} /\ Members(m.ids)[1] = Members(c.ids)[1]
      /\ PathsOf(c.ids) \in Seq(Services) /\ PathsOf(m.ids) = PathsOf(c.ids) \o inc.path
      /\ m.ids \in Seq(IncidentIds) /\ m.ids # <<>>
  <2> DEFINE ids == c.ids
             more == Append(ids, inc.id)
  <2>1. /\ Listed(more) = Listed(ids) \cup {inc} /\ Members(more)[1] = Members(ids)[1]
        /\ PathsOf(ids) \in Seq(Services) /\ PathsOf(more) = PathsOf(ids) \o inc.path
        /\ more \in Seq(IncidentIds) /\ more # <<>>
    <3> HIDE DEF ids
    <3> QED BY <1>2, ListedMore DEF ids
  <2> QED BY <2>1, <1>1
<1>4. L \subseteq Incidents
  BY <1>2, MembersAre DEF Listed, ToSet
<1>5. IsGreatest(m.severity, {i.severity : i \in L \cup {inc}})
  <2> DEFINE S == {i.severity : i \in L}
  <2>1. S \subseteq Nat /\ inc.severity \in Nat
    BY <1>4, IncidentTypes
  <2>2. {i.severity : i \in L \cup {inc}} = S \cup {inc.severity}
    OBVIOUS
  <2>3. IsGreatest(c.severity, S)
    BY DEF Merges
  <2> HIDE DEF S, L
  <2>4. IsGreatest(MaxSeverity(c.severity, inc.severity), S \cup {inc.severity})
    BY <2>1, <2>3, GreaterOf
  <2> QED BY <2>2, <2>4, <1>1
<1>6. IsGreatest(m.confidence, {i.confidence : i \in L \cup {inc}})
  <2> DEFINE S == {i.confidence : i \in L}
  <2>1. S \subseteq Nat /\ inc.confidence \in Nat
    BY <1>4, IncidentTypes
  <2>2. {i.confidence : i \in L \cup {inc}} = S \cup {inc.confidence}
    OBVIOUS
  <2>3. IsGreatest(c.confidence, S)
    BY DEF Merges
  <2> HIDE DEF S, L
  <2>4. IsGreatest(MaxSeverity(c.confidence, inc.confidence), S \cup {inc.confidence})
    BY <2>1, <2>3, GreaterOf
  <2> QED BY <2>2, <2>4, <1>1
<1>7. /\ m.stages = UNION {StagesOf(i) : i \in L \cup {inc}}
      /\ m.techniques = UNION {i.techniques : i \in L \cup {inc}}
  <2>1. /\ c.stages = UNION {StagesOf(i) : i \in L}
        /\ c.techniques = UNION {i.techniques : i \in L}
    BY DEF Merges
  <2> HIDE DEF L
  <2> QED BY <2>1, <1>1
<1>8. m.path \in Seq(Services) /\ WithoutRepeats(m.path, PathsOf(m.ids))
  <2>1. c.path \in Seq(Services) /\ WithoutRepeats(c.path, PathsOf(c.ids)) /\ inc.path \in Seq(Services)
    BY IncidentTypes DEF Merges
  <2>2. /\ ExtendPath(c.path, inc.path) \in Seq(Services)
        /\ WithoutRepeats(ExtendPath(c.path, inc.path), PathsOf(c.ids) \o inc.path)
    BY <2>1, <1>3, ExtendPathIs
  <2> QED BY <2>2, <1>1, <1>3
<1>9. /\ m.steps \in Seq(AllSteps) /\ ToSet(m.steps) = StepsOf(L \cup {inc})
      /\ InTime(m.steps) /\ Once(m.steps, Members(m.ids)[1].steps)
  <2> DEFINE first == Members(c.ids)[1].steps
  <2>1. c.steps \in Seq(AllSteps) /\ ToSet(c.steps) = StepsOf(L) /\ Once(c.steps, first)
    BY DEF Merges
  <2>2. inc.steps \in Seq(AllSteps)
    BY IncidentTypes
  <2> HIDE DEF first
  <2>3. /\ m.steps \in Seq(AllSteps) /\ ToSet(m.steps) = ToSet(c.steps) \cup ToSet(inc.steps)
        /\ InTime(m.steps) /\ Once(m.steps, first)
    BY <2>1, <2>2, <1>1, StepTypes, MergeStepsIs
  <2>4. StepsOf(L \cup {inc}) = StepsOf(L) \cup ToSet(inc.steps)
    BY DEF StepsOf
  <2> QED BY <2>1, <2>3, <2>4, <1>3 DEF first
<1>10. \A i \in L \cup {inc} : ResolveActor(i) = m.actor
  BY <1>1 DEF Merges
<1> HIDE DEF L
<1> QED BY <1>3, <1>5, <1>6, <1>7, <1>8, <1>9, <1>10 DEF Merges, m

\* A merge is what the invariant asks for.
LEMMA MergesIs ==
  ASSUME NEW c, Merges(c)
  PROVE  MergesWhatItLists(c)
<1> DEFINE L == Listed(c.ids)
<1>1. L \subseteq Incidents /\ L = ToSet(Members(c.ids))
  BY MembersAre DEF Listed, ToSet, Merges
<1>2. c.severity = Max({inc.severity : inc \in L})
  <2> DEFINE S == {inc.severity : inc \in L}
  <2>1. S \subseteq Nat
    BY <1>1, IncidentTypes
  <2>2. c.severity \in S /\ \A x \in S : x <= c.severity
    BY DEF Merges, IsGreatest
  <2> HIDE DEF S
  <2>3. Max(S) = c.severity
    BY <2>1, <2>2, GreatestIs
  <2> QED BY <2>3 DEF S
<1>3. c.confidence = Max({inc.confidence : inc \in L})
  <2> DEFINE S == {inc.confidence : inc \in L}
  <2>1. S \subseteq Nat
    BY <1>1, IncidentTypes
  <2>2. c.confidence \in S /\ \A x \in S : x <= c.confidence
    BY DEF Merges, IsGreatest
  <2> HIDE DEF S
  <2>3. Max(S) = c.confidence
    BY <2>1, <2>2, GreatestIs
  <2> QED BY <2>3 DEF S
<1>4. InTimeOnce(c.steps, Members(c.ids)[1].steps)
  BY DEF Merges, InTime, Once, Differ, InTimeOnce
<1>5. /\ \A inc \in L : ResolveActor(inc) = c.actor
      /\ c.stages = UNION {StagesOf(inc) : inc \in L}
      /\ c.techniques = UNION {inc.techniques : inc \in L}
      /\ WithoutRepeats(c.path, PathsOf(c.ids)) /\ ToSet(c.steps) = StepsOf(L)
  BY DEF Merges
<1> HIDE DEF L
<1> QED BY <1>1, <1>2, <1>3, <1>4, <1>5 DEF MergesWhatItLists

\* What a campaign merges does not depend on the rest of its record.
SameMerge(c, d) ==
  /\ d.ids = c.ids /\ d.actor = c.actor /\ d.path = c.path /\ d.steps = c.steps
  /\ d.techniques = c.techniques /\ d.stages = c.stages /\ d.severity = c.severity
  /\ d.confidence = c.confidence

LEMMA SameMerges ==
  ASSUME NEW c, NEW d, Merges(c), SameMerge(c, d)
  PROVE  Merges(d)
  BY DEF Merges, SameMerge

-----------------------------------------------------------------------------
(* Rows and their actors *)

IsRow(r) == "actor" \in DOMAIN r /\ "status" \in DOMAIN r

RowsOK ==
  /\ DOMAIN rows = Cids
  /\ \A c \in Cids : rows[c] # NoCampaign => IsRow(rows[c])
  /\ OneActiveRowPerActor

\* Row r becomes s: its actor stays, its status stays or becomes closed.
Keeps(r, s) == IsRow(s) /\ s.actor = r.actor /\ (s.status = r.status \/ s.status = "closed")

LEMMA KeepingRows ==
  ASSUME RowsOK, DOMAIN rows' = Cids,
         \A c \in Cids : rows'[c] = rows[c] \/ (rows[c] # NoCampaign /\ Keeps(rows[c], rows'[c]))
  PROVE  RowsOK'
<1>1. \A c \in Cids : rows'[c] # NoCampaign => IsRow(rows'[c])
  BY DEF RowsOK, Keeps
<1>2. ASSUME NEW c \in Cids, IsActive(rows'[c])
      PROVE  IsActive(rows[c]) /\ rows'[c].actor = rows[c].actor
  BY <1>2 DEF IsActive, Keeps
<1>3. OneActiveRowPerActor'
  BY <1>2 DEF RowsOK, OneActiveRowPerActor, IsActive
<1> QED BY <1>1, <1>3 DEF RowsOK

LEMMA ClosingKeeps ==
  ASSUME RowsOK, NEW copy, rows' = ClosedRows(copy)
  PROVE  RowsOK'
<1>1. DOMAIN rows' = Cids
  BY DEF RowsOK, ClosedRows
<1>2. ASSUME NEW c \in Cids
      PROVE  rows'[c] = rows[c] \/ (rows[c] # NoCampaign /\ Keeps(rows[c], rows'[c]))
  BY DEF RowsOK, ClosedRows, Keeps, IsRow
<1> QED BY <1>1, <1>2, KeepingRows

LEMMA UpdatingKeeps ==
  ASSUME RowsOK, NEW copy, rows' = UpdatedRows(copy)
  PROVE  RowsOK'
<1>1. DOMAIN rows' = Cids
  BY DEF RowsOK, UpdatedRows
<1>2. ASSUME NEW c \in Cids
      PROVE  rows'[c] = rows[c] \/ (rows[c] # NoCampaign /\ Keeps(rows[c], rows'[c]))
  BY DEF RowsOK, UpdatedRows, Keeps, IsRow
<1> QED BY <1>1, <1>2, KeepingRows

LEMMA InsertingKeeps ==
  ASSUME RowsOK, NEW inc, NEW copy, copy = NewCampaign(created + 1, inc, clock),
         ActiveOf(copy.actor) = {}, rows' = [rows EXCEPT ![copy.cid] = copy]
  PROVE  RowsOK'
<1>1. DOMAIN rows' = Cids
  BY DEF RowsOK
<1>2. IsRow(copy)
  BY DEF IsRow, NewCampaign
<1>3. \A c \in Cids : rows'[c] = IF c = copy.cid THEN copy ELSE rows[c]
  BY DEF RowsOK
<1>4. \A c \in Cids : rows'[c] # NoCampaign => IsRow(rows'[c])
  BY <1>2, <1>3 DEF RowsOK
<1>5. \A c \in Cids : ~(IsActive(rows[c]) /\ rows[c].actor = copy.actor)
  BY DEF ActiveOf
<1>6. OneActiveRowPerActor'
  BY <1>3, <1>5 DEF RowsOK, OneActiveRowPerActor, IsActive
<1> QED BY <1>1, <1>4, <1>6 DEF RowsOK

LEMMA SameRows ==
  ASSUME RowsOK, rows' = rows
  PROVE  RowsOK'
  BY DEF RowsOK, OneActiveRowPerActor, IsActive

LEMMA InitRows == Init => RowsOK
  BY DEF Init, RowsOK, OneActiveRowPerActor, IsActive

LEMMA IngestStepRows ==
  ASSUME RowsOK, IngestStep
  PROVE  RowsOK'
<1>1. CASE IngestLoad
  BY <1>1, SameRows DEF IngestLoad, tableVars
<1>2. CASE IngestClose
  BY <1>2, ClosingKeeps, SameRows DEF IngestClose
<1>3. CASE IngestUncache
  BY <1>3, SameRows DEF IngestUncache, tableVars
<1>4. CASE IngestInsert
  <2> DEFINE c == NewCampaign(created + 1, ing.inc, clock)
  <2>1. (ActiveOf(c.actor) = {} /\ rows' = [rows EXCEPT ![c.cid] = c]) \/ rows' = rows
    BY <1>4 DEF IngestInsert, InsertRow, tableVars
  <2> QED BY <2>1, InsertingKeeps, SameRows
<1>5. CASE IngestReload
  BY <1>5, SameRows DEF IngestReload, tableVars
<1>6. CASE IngestUpdate
  BY <1>6, UpdatingKeeps, SameRows DEF IngestUpdate
<1>7. CASE IngestCache
  BY <1>7, SameRows DEF IngestCache, tableVars
<1> QED BY <1>1, <1>2, <1>3, <1>4, <1>5, <1>6, <1>7 DEF IngestStep

LEMMA SweepStepRows ==
  ASSUME RowsOK, SweepStep
  PROVE  RowsOK'
<1>1. ASSUME NEW pgFails, SweepStart(pgFails) PROVE RowsOK'
  BY <1>1, SameRows DEF SweepStart, tableVars
<1>2. ASSUME NEW a \in Actors, SweepLoad(a) PROVE RowsOK'
  BY <1>2, SameRows DEF SweepLoad, tableVars
<1>3. ASSUME NEW pgFails, SweepClose(pgFails) PROVE RowsOK'
  BY <1>3, ClosingKeeps, SameRows DEF SweepClose
<1>4. CASE SweepUncache
  BY <1>4, SameRows DEF SweepUncache, tableVars
<1>5. CASE SweepEnd
  BY <1>5, SameRows DEF SweepEnd, tableVars
<1> QED BY <1>1, <1>2, <1>3, <1>4, <1>5 DEF SweepStep

LEMMA AttachStepRows ==
  ASSUME RowsOK, NEW t \in Attachers, AttachStep(t)
  PROVE  RowsOK'
<1>1. CASE AttachRow(t)
  <2>1. CASE rows' = rows
    BY <2>1, SameRows
  <2>2. CASE /\ rows[att[t].cid] # NoCampaign
             /\ rows' = [rows EXCEPT ![att[t].cid].message = att[t].message]
    <3>1. DOMAIN rows' = Cids
      BY <2>2 DEF RowsOK
    <3>2. ASSUME NEW c \in Cids
          PROVE  rows'[c] = rows[c] \/ (rows[c] # NoCampaign /\ Keeps(rows[c], rows'[c]))
      BY <2>2 DEF RowsOK, Keeps, IsRow
    <3> QED BY <3>1, <3>2, KeepingRows
  <2> QED BY <1>1, <2>1, <2>2 DEF AttachRow
<1>2. CASE AttachLoad(t)
  BY <1>2, SameRows DEF AttachLoad
<1>3. CASE AttachCache(t)
  BY <1>3, SameRows DEF AttachCache
<1> QED BY <1>1, <1>2, <1>3 DEF AttachStep

\* The aggregator on its own never has two active rows of one actor, whichever
\* of its threads' steps interleave and whichever store calls fail.
THEOREM OneActiveRow == Spec => []OneActiveRowPerActor
<1>1. Init => RowsOK
  BY InitRows
<1>2. RowsOK /\ [Next]_aggVars => RowsOK'
  <2> SUFFICES ASSUME RowsOK, [Next]_aggVars PROVE RowsOK'
    OBVIOUS
  <2>1. CASE IngestStep
    BY <2>1, IngestStepRows
  <2>2. CASE SweepStep
    BY <2>2, SweepStepRows
  <2>3. CASE Tick \/ Crash \/ (\E a \in Actors : Evict(a))
    BY <2>3, SameRows DEF Tick, Crash, Evict, tableVars
  <2>4. CASE IngestReturn \/ (\E inc \in Incidents : IngestStart(inc))
    BY <2>4, SameRows DEF IngestReturn, IngestStart, tableVars
  <2>5. CASE UNCHANGED aggVars
    BY <2>5, SameRows DEF aggVars, tableVars
  <2> QED BY <2>1, <2>2, <2>3, <2>4, <2>5 DEF Next
<1>3. RowsOK => OneActiveRowPerActor
  BY DEF RowsOK
<1> QED BY <1>1, <1>2, <1>3, PTL DEF Spec

\* Nor does it when notification threads write message ids to the table.
THEOREM OneActiveRowWithAlerts == AlertSpec => []OneActiveRowPerActor
<1>1. AlertInit => RowsOK
  BY InitRows DEF AlertInit
<1>2. RowsOK /\ [AlertNext]_allVars => RowsOK'
  <2> SUFFICES ASSUME RowsOK, [AlertNext]_allVars PROVE RowsOK'
    OBVIOUS
  <2>1. CASE IngestStep
    BY <2>1, IngestStepRows
  <2>2. CASE SweepStep
    BY <2>2, SweepStepRows
  <2>3. CASE Tick \/ AlertCrash \/ (\E a \in Actors : Evict(a))
    BY <2>3, SameRows DEF Tick, AlertCrash, Crash, Evict, tableVars
  <2>4. CASE Notify \/ (\E inc \in Incidents : IngestStart(inc))
    BY <2>4, SameRows DEF Notify, IngestReturn, IngestStart, tableVars
  <2>5. ASSUME NEW t \in Attachers, AttachStep(t) PROVE RowsOK'
    BY <2>5, AttachStepRows
  <2>6. ASSUME NEW t \in Attachers,
               Gate(t) \/ PostFails(t) \/ PatchOk(t) \/ PatchFails(t) \/ Recorded(t)
        PROVE  RowsOK'
    BY <2>6, SameRows DEF Gate, PostFails, PatchOk, PatchFails, Recorded, aggVars, tableVars
  <2>7. ASSUME NEW t \in Attachers, PostOk(t) \/ PatchGone(t) PROVE RowsOK'
    BY <2>7, SameRows DEF PostOk, PatchGone, aggButAtt, tableVars
  <2>8. ASSUME NEW m \in DOMAIN posts, Delete(m) PROVE RowsOK'
    BY <2>8, SameRows DEF Delete, aggVars, tableVars
  <2>9. CASE UNCHANGED allVars
    BY <2>9, SameRows DEF allVars, aggVars, tableVars
  <2> QED BY <2>1, <2>2, <2>3, <2>4, <2>5, <2>6, <2>7, <2>8, <2>9 DEF AlertNext, Alert
<1>3. RowsOK => OneActiveRowPerActor
  BY DEF RowsOK
<1> QED BY <1>1, <1>2, <1>3, PTL DEF AlertSpec

-----------------------------------------------------------------------------
(* The copies of a campaign: its row, its cached entry, and what the incident *)
(* thread, the sweeper and the notification threads hold of it in memory.     *)

Confidences == {inc.confidence : inc \in Incidents}

Kinds == {"none", "created", "extended", "escalated", "duplicate"}

IsCopy(c) ==
  /\ Fields \subseteq DOMAIN c /\ IsCampaign(c)
  /\ c.ids \in Seq(IncidentIds) /\ c.confidence \in Confidences

\* A copy of a campaign that was created.
Made(c) == IsCopy(c) /\ c.cid <= created

USE CampaignAssumption, IncidentAssumption

-----------------------------------------------------------------------------
(* What the operations on a copy leave of it *)

LEMMA NewFields ==
  ASSUME NEW cid \in Cids, NEW inc \in Incidents, NEW now \in 0..MaxTime
  PROVE  LET c == NewCampaign(cid, inc, now)
         IN  /\ IsCopy(c) /\ c.cid = cid /\ c.actor = ResolveActor(inc)
             /\ c.message = None /\ c.ids = <<inc.id>> /\ c.severity = inc.severity
<1> DEFINE c == NewCampaign(cid, inc, now)
<1>1. /\ c.cid = cid /\ c.actor = ResolveActor(inc) /\ c.ids = <<inc.id>>
      /\ c.severity = inc.severity /\ c.last = now /\ c.status = "active" /\ c.message = None
      /\ c.confidence = inc.confidence
  BY DEF NewCampaign
<1>2. Fields \subseteq DOMAIN c
  BY DEF NewCampaign, Fields
<1>3. inc.id \in IncidentIds /\ ResolveActor(inc) \in Actors /\ inc.confidence \in Confidences
  BY DEF IncidentIds, Actors, Confidences
<1> HIDE DEF c
<1>4. c.ids \in Seq(IncidentIds)
  BY <1>1, <1>3
<1>5. IsCampaign(c)
  BY <1>1, <1>3 DEF IsCampaign, Severities
<1> QED BY <1>1, <1>2, <1>3, <1>4, <1>5 DEF IsCopy, c

LEMMA MergedFields ==
  ASSUME NEW c, IsCopy(c), NEW inc \in Incidents, NEW now \in 0..MaxTime
  PROVE  LET m == Merged(c, inc, now)
         IN  /\ IsCopy(m) /\ m.cid = c.cid /\ m.actor = c.actor /\ m.message = c.message
             /\ m.ids = Append(c.ids, inc.id) /\ c.severity <= m.severity
<1> DEFINE m == Merged(c, inc, now)
<1>1. /\ m.cid = c.cid /\ m.actor = c.actor /\ m.message = c.message /\ m.status = c.status
      /\ m.ids = Append(c.ids, inc.id) /\ m.severity = MaxSeverity(c.severity, inc.severity)
      /\ m.confidence = MaxSeverity(c.confidence, inc.confidence)
      /\ m.last = now /\ Fields \subseteq DOMAIN m
  BY DEF IsCopy, Merged, Fields
<1> HIDE DEF m
<1>2. m.severity \in Severities /\ c.severity <= m.severity
  BY <1>1 DEF IsCopy, IsCampaign, Severities, MaxSeverity
<1>3. m.ids \in Seq(IncidentIds)
  <2>1. inc.id \in IncidentIds
    BY DEF IncidentIds
  <2> QED BY <1>1, <2>1, AppendProperties DEF IsCopy
<1>4. m.confidence \in Confidences
  BY <1>1 DEF IsCopy, Confidences, MaxSeverity
<1>5. IsCopy(m)
  BY <1>1, <1>2, <1>3, <1>4 DEF IsCopy, IsCampaign
<1> QED BY <1>1, <1>2, <1>5 DEF m

LEMMA UpdatedFields ==
  ASSUME NEW r, IsCopy(r), NEW c, IsCopy(c), NEW k \in Cids, r = rows[k], k = c.cid, DOMAIN rows = Cids,
         r # NoCampaign
  PROVE  LET u == UpdatedRows(c)[k]
         IN  /\ IsCopy(u) /\ u.cid = r.cid /\ u.actor = r.actor /\ u.message = r.message
             /\ u.ids = c.ids /\ u.severity = c.severity
<1> DEFINE u == UpdatedRows(c)[k]
<1>1. /\ u.cid = r.cid /\ u.actor = r.actor /\ u.message = r.message /\ u.status = r.status
      /\ u.ids = c.ids /\ u.severity = c.severity
      /\ u.confidence = c.confidence /\ u.last = c.last /\ Fields \subseteq DOMAIN u
  BY DEF IsCopy, UpdatedRows, Fields
<1> HIDE DEF u
<1>2. IsCopy(u)
  BY <1>1 DEF IsCopy, IsCampaign
<1> QED BY <1>1, <1>2 DEF u

LEMMA ClosedFields ==
  ASSUME NEW r, IsCopy(r)
  PROVE  LET u == [r EXCEPT !.status = "closed"]
         IN  /\ IsCopy(u) /\ u.cid = r.cid /\ u.actor = r.actor /\ u.message = r.message
             /\ u.ids = r.ids /\ u.severity = r.severity
<1> DEFINE u == [r EXCEPT !.status = "closed"]
<1>1. /\ u.cid = r.cid /\ u.actor = r.actor /\ u.message = r.message /\ u.status = "closed"
      /\ u.ids = r.ids /\ u.severity = r.severity
      /\ u.confidence = r.confidence /\ u.last = r.last /\ Fields \subseteq DOMAIN u
  BY DEF IsCopy, Fields
<1> HIDE DEF u
<1>2. IsCopy(u)
  BY <1>1 DEF IsCopy, IsCampaign
<1> QED BY <1>1, <1>2 DEF u

LEMMA MessageFields ==
  ASSUME NEW r, IsCopy(r), NEW message
  PROVE  LET u == [r EXCEPT !.message = message]
         IN  /\ IsCopy(u) /\ u.cid = r.cid /\ u.actor = r.actor /\ u.message = message
<1> DEFINE u == [r EXCEPT !.message = message]
<1>1. /\ u.cid = r.cid /\ u.actor = r.actor /\ u.message = message /\ u.status = r.status
      /\ u.ids = r.ids /\ u.severity = r.severity
      /\ u.confidence = r.confidence /\ u.last = r.last /\ Fields \subseteq DOMAIN u
  BY DEF IsCopy, Fields
<1> HIDE DEF u
<1>2. IsCopy(u)
  BY <1>1 DEF IsCopy, IsCampaign
<1> QED BY <1>1, <1>2 DEF u

-----------------------------------------------------------------------------
(* Where copies are *)

NumOK ==
  /\ clock \in 0..MaxTime /\ arrivals \in 0..MaxArrivals /\ mishaps \in 0..MaxMishaps
  /\ created \in 0..arrivals

RowsMade == \A k \in Cids : rows[k] # NoCampaign => Made(rows[k]) /\ rows[k].cid = k

LinksMade == linked \in [IncidentIds -> 0..created]

CacheMade ==
  /\ DOMAIN cache = Actors /\ index \subseteq Actors
  /\ \A a \in Actors : cache[a] # NoCampaign => Made(cache[a]) /\ cache[a].actor = a

\* An incident that has not opened a campaign yet still may: no id is left out.
IngMade ==
  /\ DOMAIN ing = {"pc", "inc", "copy", "kind"}
  /\ ing.pc \in {"idle", "load", "close", "uncache", "insert", "reload", "update", "cache", "return"}
  /\ ing.kind \in Kinds /\ (ing.pc # "idle" => ing.inc \in Incidents)
  /\ ing.pc \in {"close", "uncache", "update", "cache", "return"} => Made(ing.copy)
  /\ ing.pc \in {"load", "close", "uncache", "insert"} => created < arrivals

SwpMade ==
  /\ DOMAIN swp = {"pc", "left", "copy"}
  /\ swp.pc \in {"idle", "scan", "close", "uncache"} /\ swp.left \subseteq Actors
  /\ swp.pc \in {"close", "uncache"} => Made(swp.copy)

AttMade ==
  /\ DOMAIN att = Attachers
  /\ \A t \in Attachers :
       /\ DOMAIN att[t] = {"pc", "cid", "message", "copy"}
       /\ att[t].pc \in {"idle", "row", "load", "cache"}
       /\ att[t].pc # "idle" => att[t].cid \in Cids
       /\ att[t].pc = "cache" => Made(att[t].copy)

CopiesOK ==
  NumOK /\ RowsOK /\ RowsMade /\ LinksMade /\ CacheMade /\ IngMade /\ SwpMade /\ AttMade

LEMMA CopiesAreTyped == CopiesOK => TypeOK
  BY DEF CopiesOK, NumOK, RowsOK, RowsMade, LinksMade, CacheMade, IngMade, SwpMade, Made, IsCopy,
         TypeOK, IsCampaignOrNone, Cids

\* What a step leaves alone stays as it was.
LEMMA Kept ==
  ASSUME CopiesOK, created' = created
  PROVE  /\ rows' = rows => RowsMade' /\ RowsOK'
         /\ linked' = linked => LinksMade'
         /\ UNCHANGED <<cache, index>> => CacheMade'
         /\ UNCHANGED <<ing, arrivals>> => IngMade'
         /\ swp' = swp => SwpMade'
         /\ att' = att => AttMade'
         /\ UNCHANGED <<clock, arrivals, mishaps>> => NumOK'
<1>1. rows' = rows => RowsOK'
  BY SameRows DEF CopiesOK
<1> QED BY <1>1 DEF CopiesOK, RowsMade, LinksMade, CacheMade, IngMade, SwpMade, AttMade, NumOK, Made

LEMMA NoneAreTyped ==
  /\ DOMAIN NoIngest = {"pc", "inc", "copy", "kind"} /\ NoIngest.pc = "idle" /\ NoIngest.kind \in Kinds
  /\ DOMAIN NoSweep = {"pc", "left", "copy"} /\ NoSweep.pc = "idle" /\ NoSweep.left = {}
  /\ DOMAIN NoAttach = {"pc", "cid", "message", "copy"} /\ NoAttach.pc = "idle"
  BY DEF NoIngest, NoSweep, NoAttach, Kinds

LEMMA ActiveRowIs ==
  ASSUME RowsOK, RowsMade, NEW a, ActiveRow(a) # NoCampaign
  PROVE  \E k \in Cids : ActiveRow(a) = rows[k] /\ rows[k] # NoCampaign /\ rows[k].actor = a
<1> DEFINE newest(c) == \A d \in ActiveOf(a) : rows[d].last <= rows[c].last
<1>1. PICK k \in Cids : k \in ActiveOf(a)
  BY DEF ActiveRow, ActiveOf
<1>2. ActiveOf(a) = {k}
  BY <1>1 DEF ActiveOf, RowsOK, OneActiveRowPerActor
<1>3. rows[k].last \in Int /\ rows[k] # NoCampaign /\ rows[k].actor = a
  BY <1>1 DEF ActiveOf, IsActive, RowsMade, Made, IsCopy, IsCampaign
<1>4. newest(k)
  BY <1>2, <1>3
<1>5. (CHOOSE c \in ActiveOf(a) : newest(c)) = k
  <2> HIDE DEF newest
  <2> QED BY <1>2, <1>4
<1>6. ActiveRow(a) = rows[k]
  BY <1>1, <1>5 DEF ActiveRow
<1> QED BY <1>3, <1>6

\* A lookup returns what is cached or a row.
LEMMA LoadsMade ==
  ASSUME CopiesOK, NEW a \in Actors, NEW c \in Loads(a), c # NoCampaign
  PROVE  /\ Made(c) /\ c.actor = a
         /\ c = cache[a] \/ \E k \in Cids : c = rows[k] /\ rows[k] # NoCampaign
  BY ActiveRowIs DEF Loads, RowReplies, CopiesOK, RowsMade, CacheMade

-----------------------------------------------------------------------------
(* The calls to the stores *)

LEMMA CacheCallsKeep ==
  ASSUME CopiesOK, created' = created, NEW entry, NEW idx, CacheCalls(entry, idx),
         DOMAIN entry = Actors, idx \subseteq Actors,
         \A a \in Actors : entry[a] # NoCampaign => Made(entry[a]) /\ entry[a].actor = a
  PROVE  CacheMade' /\ mishaps' \in 0..MaxMishaps
<1>1. cache' \in {cache, entry} /\ index' \in {index, idx}
  BY DEF CacheCalls
<1>2. mishaps' \in 0..MaxMishaps
  BY DEF CacheCalls, CopiesOK, NumOK
<1>3. CacheMade'
  BY <1>1 DEF CopiesOK, CacheMade, Made
<1> QED BY <1>2, <1>3

LEMMA CacheSetKeeps ==
  ASSUME CopiesOK, created' = created, NEW c, Made(c), CacheSet(c)
  PROVE  CacheMade' /\ mishaps' \in 0..MaxMishaps
<1> DEFINE entry == [cache EXCEPT ![c.actor] = c]
<1>1. c.actor \in Actors
  BY DEF Made, IsCopy, IsCampaign
<1>2. DOMAIN entry = Actors /\ index \cup {c.actor} \subseteq Actors
  BY <1>1 DEF CopiesOK, CacheMade
<1>3. \A a \in Actors : entry[a] # NoCampaign => Made(entry[a]) /\ entry[a].actor = a
  BY DEF CopiesOK, CacheMade
<1>4. CacheCalls(entry, index \cup {c.actor})
  BY DEF CacheSet
<1> HIDE DEF entry
<1> QED BY <1>2, <1>3, <1>4, CacheCallsKeep

LEMMA CacheDeleteKeeps ==
  ASSUME CopiesOK, created' = created, NEW b, CacheDelete(b)
  PROVE  CacheMade' /\ mishaps' \in 0..MaxMishaps
<1> DEFINE entry == [cache EXCEPT ![b] = NoCampaign]
<1>2. DOMAIN entry = Actors /\ index \ {b} \subseteq Actors
  BY DEF CopiesOK, CacheMade
<1>3. \A a \in Actors : entry[a] # NoCampaign => Made(entry[a]) /\ entry[a].actor = a
  BY DEF CopiesOK, CacheMade
<1>4. CacheCalls(entry, index \ {b})
  BY DEF CacheDelete
<1> HIDE DEF entry
<1> QED BY <1>2, <1>3, <1>4, CacheCallsKeep

LEMMA ClosingMade ==
  ASSUME CopiesOK, created' = created, NEW c, rows' = ClosedRows(c)
  PROVE  RowsMade' /\ RowsOK'
<1>1. RowsOK'
  BY ClosingKeeps DEF CopiesOK
<1>2. \A k \in Cids : rows'[k] = rows[k] \/ (rows[k] # NoCampaign /\ rows'[k] = [rows[k] EXCEPT !.status = "closed"])
  BY DEF ClosedRows, CopiesOK, RowsOK
<1>3. RowsMade'
  <2> SUFFICES ASSUME NEW k \in Cids, rows'[k] # NoCampaign
               PROVE  IsCopy(rows'[k]) /\ rows'[k].cid = k /\ k <= created
    BY DEF RowsMade, Made
  <2>1. rows[k] # NoCampaign
    BY <1>2
  <2>2. IsCopy(rows[k]) /\ rows[k].cid = k /\ k <= created
    BY <2>1 DEF CopiesOK, RowsMade, Made
  <2>3. IsCopy([rows[k] EXCEPT !.status = "closed"]) /\ [rows[k] EXCEPT !.status = "closed"].cid = k
    BY <2>2, ClosedFields
  <2> QED BY <1>2, <2>2, <2>3
<1> QED BY <1>1, <1>3

LEMMA UpdatingMade ==
  ASSUME CopiesOK, created' = created, NEW c, Made(c), rows' = UpdatedRows(c)
  PROVE  RowsMade' /\ RowsOK'
<1>1. RowsOK'
  BY UpdatingKeeps DEF CopiesOK
<1>2. \A k \in Cids : k # c.cid => rows'[k] = rows[k]
  BY DEF UpdatedRows, CopiesOK, RowsOK
<1>3. rows[c.cid] # NoCampaign =>
        /\ IsCopy(rows'[c.cid]) /\ rows'[c.cid].cid = c.cid /\ c.cid <= created
  <2>1. c.cid \in Cids /\ IsCopy(c) /\ c.cid <= created
    BY DEF Made, IsCopy, IsCampaign
  <2>2. rows[c.cid] # NoCampaign => IsCopy(rows[c.cid]) /\ rows[c.cid].cid = c.cid
    BY <2>1 DEF CopiesOK, RowsMade, Made
  <2> QED BY <2>1, <2>2, UpdatedFields DEF CopiesOK, RowsOK
<1>4. rows[c.cid] = NoCampaign => rows' = rows
  BY DEF UpdatedRows
<1>5. RowsMade'
  BY <1>2, <1>3, <1>4 DEF CopiesOK, RowsMade, Made
<1> QED BY <1>1, <1>5

LEMMA BacklinkMade ==
  ASSUME CopiesOK, created' = created, NEW c, Made(c), linked' = Backlinked(c)
  PROVE  LinksMade'
<1>1. c.cid \in 0..created
  BY DEF Made, IsCopy, IsCampaign, CopiesOK, NumOK, Cids
<1> QED BY <1>1 DEF CopiesOK, LinksMade, Backlinked

-----------------------------------------------------------------------------
(* The incident thread *)

LEMMA StartMade ==
  ASSUME CopiesOK, NEW inc \in Incidents, IngestStart(inc)
  PROVE  CopiesOK'
<1>1. /\ created' = created /\ UNCHANGED <<rows, linked, cache, index, mishaps, clock, swp, att>>
      /\ arrivals' = arrivals + 1 /\ arrivals < MaxArrivals
      /\ ing' = [NoIngest EXCEPT !.pc = "load", !.inc = inc]
  BY DEF IngestStart, tableVars, cacheVars
<1>2. NumOK' /\ created < arrivals'
  BY <1>1 DEF CopiesOK, NumOK
<1>3. /\ ing'.pc = "load" /\ ing'.inc = inc /\ DOMAIN ing' = {"pc", "inc", "copy", "kind"}
      /\ ing'.kind \in Kinds
  BY <1>1, NoneAreTyped
<1>4. IngMade'
  BY <1>1, <1>2, <1>3 DEF IngMade
<1> QED BY <1>1, <1>2, <1>4, Kept DEF CopiesOK

\* A merge into a copy that was found.
LEMMA MergeMade ==
  ASSUME CopiesOK, created' = created, ing.pc # "idle", NEW c, Made(c), MergeInto(c)
  PROVE  /\ IngMade' /\ ing'.pc = "update" /\ ing'.inc = ing.inc
         /\ ing'.copy = Merged(c, ing.inc, clock)
<1>1. /\ ing'.pc = "update" /\ ing'.inc = ing.inc /\ DOMAIN ing' = {"pc", "inc", "copy", "kind"}
      /\ ing'.copy = Merged(c, ing.inc, clock) /\ ing'.kind \in Kinds
  BY DEF MergeInto, ChangeKind, Kinds, CopiesOK, IngMade
<1>2. ing.inc \in Incidents /\ clock \in 0..MaxTime
  BY DEF CopiesOK, IngMade, NumOK
<1>3. IsCopy(ing'.copy) /\ ing'.copy.cid <= created
  BY <1>1, <1>2, MergedFields DEF Made
<1> QED BY <1>1, <1>2, <1>3 DEF IngMade, Made

LEMMA LoadMade ==
  ASSUME CopiesOK, IngestLoad
  PROVE  CopiesOK'
<1>1. /\ created' = created /\ ing.pc = "load" /\ ing.inc \in Incidents
      /\ UNCHANGED <<rows, linked, cache, index, mishaps, clock, arrivals, swp, att>>
  BY DEF IngestLoad, tableVars, cacheVars, ingUnchanged, CopiesOK, IngMade
<1>2. PICK c \in Loads(ResolveActor(ing.inc)) :
        \/ c = NoCampaign /\ ing' = [ing EXCEPT !.pc = "insert"]
        \/ IsIdle(c) /\ ing' = [ing EXCEPT !.pc = "close", !.copy = c]
        \/ c # NoCampaign /\ ing' = [ing EXCEPT !.pc = "return", !.copy = c, !.kind = "duplicate"]
        \/ c # NoCampaign /\ MergeInto(c)
  BY DEF IngestLoad
<1>3. c # NoCampaign => Made(c)
  BY <1>1, LoadsMade DEF Actors
<1>4. IngMade'
  <2>1. CASE c = NoCampaign /\ ing' = [ing EXCEPT !.pc = "insert"]
    BY <1>1, <2>1 DEF CopiesOK, IngMade
  <2>2. CASE c # NoCampaign /\ ing' = [ing EXCEPT !.pc = "close", !.copy = c]
    BY <1>1, <1>3, <2>2 DEF CopiesOK, IngMade, Made
  <2>3. CASE c # NoCampaign /\ ing' = [ing EXCEPT !.pc = "return", !.copy = c, !.kind = "duplicate"]
    BY <1>1, <1>3, <2>3 DEF CopiesOK, IngMade, Made, Kinds
  <2>4. CASE c # NoCampaign /\ MergeInto(c)
    BY <1>1, <1>3, <2>4, MergeMade
  <2> QED BY <1>2, <2>1, <2>2, <2>3, <2>4 DEF IsIdle
<1> QED BY <1>1, <1>4, Kept DEF CopiesOK

LEMMA CloseMade ==
  ASSUME CopiesOK, IngestClose
  PROVE  CopiesOK'
<1>1. /\ created' = created /\ ing.pc = "close"
      /\ UNCHANGED <<linked, cache, index, mishaps, clock, arrivals, swp, att>>
      /\ rows' = ClosedRows(ing.copy) \/ rows' = rows
      /\ ing' = [ing EXCEPT !.pc = "uncache"] \/ ing' = [ing EXCEPT !.pc = "insert"]
  BY DEF IngestClose, cacheVars, ingUnchanged
<1>2. RowsMade' /\ RowsOK'
  BY <1>1, ClosingMade, Kept
<1>3. IngMade'
  BY <1>1 DEF CopiesOK, IngMade, Made
<1> QED BY <1>1, <1>2, <1>3, Kept DEF CopiesOK

LEMMA UncacheMade ==
  ASSUME CopiesOK, IngestUncache
  PROVE  CopiesOK'
<1>1. /\ created' = created /\ ing.pc = "uncache" /\ CacheDelete(ing.copy.actor)
      /\ UNCHANGED <<rows, linked, clock, arrivals, swp, att>>
      /\ ing' = [ing EXCEPT !.pc = "insert"]
  BY DEF IngestUncache, tableVars, ingUnchanged
<1>2. CacheMade' /\ mishaps' \in 0..MaxMishaps
  BY <1>1, CacheDeleteKeeps
<1>3. IngMade'
  BY <1>1 DEF CopiesOK, IngMade
<1>4. NumOK'
  BY <1>1, <1>2 DEF CopiesOK, NumOK
<1> QED BY <1>1, <1>2, <1>3, <1>4, Kept DEF CopiesOK

\* A new campaign, in its row or only in memory.
LEMMA OpenMade ==
  ASSUME CopiesOK, ing.pc = "insert", created' = created + 1,
         NEW c, c = NewCampaign(created + 1, ing.inc, clock),
         ing' = [ing EXCEPT !.pc = "cache", !.copy = c, !.kind = "created"],
         \/ rows' = [rows EXCEPT ![c.cid] = c] /\ ActiveOf(c.actor) = {} /\ linked' = Backlinked(c)
         \/ rows' = rows /\ linked' = linked,
         UNCHANGED <<cache, index, mishaps, clock, arrivals, swp, att>>
  PROVE  CopiesOK'
<1>1. /\ created + 1 \in Cids /\ created \in Nat /\ created < arrivals /\ ing.inc \in Incidents
      /\ clock \in 0..MaxTime
  BY DEF CopiesOK, NumOK, IngMade, Cids
<1>2. IsCopy(c) /\ c.cid = created'
  BY <1>1, NewFields
<1>3. \A x : Made(x) => IsCopy(x) /\ x.cid <= created'
  BY <1>1 DEF Made, IsCopy, IsCampaign, Cids
<1>4. NumOK'
  BY <1>1 DEF CopiesOK, NumOK
<1>5. RowsOK'
  BY InsertingKeeps, SameRows DEF CopiesOK
<1>6. RowsMade'
  BY <1>1, <1>2, <1>3 DEF CopiesOK, RowsOK, RowsMade, Made
<1>7. LinksMade'
  <2>1. linked \in [IncidentIds -> 0..created']
    BY <1>1 DEF CopiesOK, LinksMade
  <2>2. c.cid \in 0..created'
    BY <1>1, <1>2
  <2> QED BY <2>1, <2>2 DEF Backlinked, LinksMade
<1>8. CacheMade'
  BY <1>3 DEF CopiesOK, CacheMade, Made
<1>9. IngMade'
  BY <1>1, <1>2 DEF CopiesOK, IngMade, Made, Kinds
<1>10. SwpMade' /\ AttMade'
  BY <1>3 DEF CopiesOK, SwpMade, AttMade, Made
<1> QED BY <1>4, <1>5, <1>6, <1>7, <1>8, <1>9, <1>10 DEF CopiesOK

LEMMA InsertMade ==
  ASSUME CopiesOK, IngestInsert
  PROVE  CopiesOK'
<1> DEFINE c == NewCampaign(created + 1, ing.inc, clock)
           opened == ing' = [ing EXCEPT !.pc = "cache", !.copy = c, !.kind = "created"]
<1>1. ing.pc = "insert" /\ UNCHANGED <<cache, index, mishaps, clock, arrivals, swp, att>>
  BY DEF IngestInsert, cacheVars, ingUnchanged
<1>2. \/ ActiveOf(c.actor) = {} /\ InsertRow(c) /\ opened /\ created' = created + 1
      \/ ing' = [ing EXCEPT !.pc = "reload"] /\ UNCHANGED tableVars
      \/ opened /\ created' = created + 1 /\ UNCHANGED <<rows, linked>>
      \/ ing' = NoIngest /\ UNCHANGED tableVars
  BY DEF IngestInsert
<1>3. CASE opened /\ created' = created + 1
  BY <1>1, <1>2, <1>3, OpenMade DEF InsertRow, tableVars
<1>4. CASE ing' \in {[ing EXCEPT !.pc = "reload"], NoIngest} /\ UNCHANGED tableVars
  <2>1. IngMade'
    BY <1>1, <1>4, NoneAreTyped DEF CopiesOK, IngMade
  <2> QED BY <1>1, <1>4, <2>1, Kept DEF CopiesOK, tableVars
<1> QED BY <1>2, <1>3, <1>4

LEMMA ReloadMade ==
  ASSUME CopiesOK, IngestReload
  PROVE  CopiesOK'
<1>1. /\ created' = created /\ ing.pc = "reload" /\ ing.inc \in Incidents
      /\ UNCHANGED <<rows, linked, cache, index, mishaps, clock, arrivals, swp, att>>
  BY DEF IngestReload, tableVars, cacheVars, ingUnchanged, CopiesOK, IngMade
<1>2. PICK c \in Loads(ResolveActor(ing.inc)) : ing' = NoIngest \/ (c # NoCampaign /\ MergeInto(c))
  BY DEF IngestReload
<1>3. c # NoCampaign => Made(c)
  BY <1>1, LoadsMade DEF Actors
<1>4. IngMade'
  <2>1. CASE ing' = NoIngest
    BY <2>1, NoneAreTyped DEF IngMade
  <2>2. CASE c # NoCampaign /\ MergeInto(c)
    BY <1>1, <1>3, <2>2, MergeMade
  <2> QED BY <1>2, <2>1, <2>2
<1> QED BY <1>1, <1>4, Kept DEF CopiesOK

LEMMA UpdateMade ==
  ASSUME CopiesOK, IngestUpdate
  PROVE  CopiesOK'
<1>1. /\ created' = created /\ ing.pc = "update" /\ Made(ing.copy)
      /\ UNCHANGED <<cache, index, mishaps, clock, arrivals, swp, att>>
      /\ \/ rows' = UpdatedRows(ing.copy) /\ linked' = Backlinked(ing.copy)
         \/ UNCHANGED <<rows, linked>>
      /\ ing' = [ing EXCEPT !.pc = "cache"]
  BY DEF IngestUpdate, cacheVars, ingUnchanged, CopiesOK, IngMade
<1>2. RowsMade' /\ RowsOK' /\ LinksMade'
  BY <1>1, UpdatingMade, BacklinkMade, Kept
<1>3. IngMade'
  BY <1>1 DEF CopiesOK, IngMade, Made
<1> QED BY <1>1, <1>2, <1>3, Kept DEF CopiesOK

LEMMA CachingMade ==
  ASSUME CopiesOK, IngestCache
  PROVE  CopiesOK'
<1>1. /\ created' = created /\ ing.pc = "cache" /\ Made(ing.copy) /\ CacheSet(ing.copy)
      /\ UNCHANGED <<rows, linked, clock, arrivals, swp, att>>
      /\ ing' = [ing EXCEPT !.pc = "return"]
  BY DEF IngestCache, tableVars, ingUnchanged, CopiesOK, IngMade
<1>2. CacheMade' /\ mishaps' \in 0..MaxMishaps
  BY <1>1, CacheSetKeeps
<1>3. IngMade'
  BY <1>1 DEF CopiesOK, IngMade, Made
<1>4. NumOK'
  BY <1>1, <1>2 DEF CopiesOK, NumOK
<1> QED BY <1>1, <1>2, <1>3, <1>4, Kept DEF CopiesOK

LEMMA ReturnMade ==
  ASSUME CopiesOK, IngestReturn
  PROVE  CopiesOK'
<1>1. /\ created' = created /\ ing' = NoIngest
      /\ UNCHANGED <<rows, linked, cache, index, mishaps, clock, arrivals, swp, att>>
  BY DEF IngestReturn, tableVars, cacheVars, ingUnchanged
<1>2. IngMade'
  BY <1>1, NoneAreTyped DEF IngMade
<1> QED BY <1>1, <1>2, Kept DEF CopiesOK

-----------------------------------------------------------------------------
(* The sweeper, the notification threads, and the rest *)

LEMMA SweepMade ==
  ASSUME CopiesOK, SweepStep
  PROVE  CopiesOK'
<1>1. ASSUME NEW pgFails, SweepStart(pgFails) PROVE CopiesOK'
  <2>1. /\ created' = created /\ UNCHANGED <<rows, linked, cache, index, mishaps, clock, arrivals, ing, att>>
    BY <1>1 DEF SweepStart, tableVars, cacheVars, swpUnchanged
  <2>2. PICK left \in SUBSET Actors : swp' = [NoSweep EXCEPT !.pc = "scan", !.left = left]
    <3> DEFINE stale == IF pgFails THEN {} ELSE {a \in Actors : \E c \in ActiveOf(a) : IsIdle(rows[c])}
    <3>1. stale \subseteq Actors
      OBVIOUS
    <3>2. \E listed \in {index, {}} : swp' = [NoSweep EXCEPT !.pc = "scan", !.left = listed \cup stale]
      BY <1>1 DEF SweepStart
    <3>3. index \subseteq Actors
      BY DEF CopiesOK, CacheMade
    <3> HIDE DEF stale
    <3>4. \A listed \in {index, {}} : listed \cup stale \in SUBSET Actors
      BY <3>1, <3>3
    <3> QED BY <3>2, <3>4
  <2>3. SwpMade'
    BY <2>2, NoneAreTyped DEF SwpMade
  <2> QED BY <2>1, <2>3, Kept DEF CopiesOK
<1>2. ASSUME NEW a \in Actors, SweepLoad(a) PROVE CopiesOK'
  <2>1. /\ created' = created /\ UNCHANGED <<rows, linked, cache, index, mishaps, clock, arrivals, ing, att>>
        /\ swp.pc = "scan"
    BY <1>2 DEF SweepLoad, tableVars, cacheVars, swpUnchanged
  <2>2. PICK c \in Loads(a) : \/ /\ c # NoCampaign
                                 /\ swp' = [pc |-> "close", left |-> swp.left \ {a}, copy |-> c]
                              \/ swp' = [swp EXCEPT !.left = @ \ {a}]
    BY <1>2 DEF SweepLoad, IsIdle
  <2>3. c # NoCampaign => Made(c)
    BY LoadsMade
  <2>4. SwpMade'
    BY <2>1, <2>2, <2>3 DEF CopiesOK, SwpMade, Made
  <2> QED BY <2>1, <2>4, Kept DEF CopiesOK
<1>3. ASSUME NEW pgFails, SweepClose(pgFails) PROVE CopiesOK'
  <2>1. /\ created' = created /\ UNCHANGED <<linked, cache, index, mishaps, clock, arrivals, ing, att>>
        /\ rows' = rows \/ rows' = ClosedRows(swp.copy)
        /\ swp.pc = "close"
        /\ \/ swp' = [swp EXCEPT !.pc = "scan", !.copy = NoCampaign]
           \/ swp' = [swp EXCEPT !.pc = "uncache"]
    BY <1>3 DEF SweepClose, cacheVars, swpUnchanged
  <2>2. RowsMade' /\ RowsOK'
    BY <2>1, ClosingMade, Kept
  <2>3. SwpMade'
    BY <2>1 DEF CopiesOK, SwpMade, Made
  <2> QED BY <2>1, <2>2, <2>3, Kept DEF CopiesOK
<1>4. CASE SweepUncache
  <2>1. /\ created' = created /\ UNCHANGED <<rows, linked, clock, arrivals, ing, att>>
        /\ CacheDelete(swp.copy.actor)
        /\ swp' = [swp EXCEPT !.pc = "scan", !.copy = NoCampaign]
    BY <1>4 DEF SweepUncache, tableVars, swpUnchanged
  <2>2. CacheMade' /\ mishaps' \in 0..MaxMishaps
    BY <2>1, CacheDeleteKeeps
  <2>3. SwpMade'
    BY <2>1 DEF CopiesOK, SwpMade
  <2>4. NumOK'
    BY <2>1, <2>2 DEF CopiesOK, NumOK
  <2> QED BY <2>1, <2>2, <2>3, <2>4, Kept DEF CopiesOK
<1>5. CASE SweepEnd
  <2>1. /\ created' = created /\ UNCHANGED <<rows, linked, cache, index, mishaps, clock, arrivals, ing, att>>
        /\ swp' = NoSweep
    BY <1>5 DEF SweepEnd, tableVars, cacheVars, swpUnchanged
  <2>2. SwpMade'
    BY <2>1, NoneAreTyped DEF SwpMade
  <2> QED BY <2>1, <2>2, Kept DEF CopiesOK
<1> QED BY <1>1, <1>2, <1>3, <1>4, <1>5 DEF SweepStep

LEMMA AttMadeBut ==
  ASSUME CopiesOK, created' = created, NEW t \in Attachers, NEW v, att' = [att EXCEPT ![t] = v],
         v = NoAttach \/ (/\ DOMAIN v = {"pc", "cid", "message", "copy"} /\ v.cid \in Cids
                          /\ v.pc = "row" \/ v.pc = "load" \/ (v.pc = "cache" /\ Made(v.copy)))
  PROVE  AttMade'
<1>1. /\ DOMAIN v = {"pc", "cid", "message", "copy"} /\ v.pc \in {"idle", "row", "load", "cache"}
      /\ v.pc # "idle" => v.cid \in Cids
      /\ v.pc = "cache" => Made(v.copy)
  BY NoneAreTyped
<1>2. DOMAIN att' = Attachers /\ att'[t] = v /\ \A s \in Attachers : s # t => att'[s] = att[s]
  BY DEF CopiesOK, AttMade
<1> SUFFICES ASSUME NEW s \in Attachers
             PROVE  /\ DOMAIN att'[s] = {"pc", "cid", "message", "copy"}
                    /\ att'[s].pc \in {"idle", "row", "load", "cache"}
                    /\ att'[s].pc # "idle" => att'[s].cid \in Cids
                    /\ att'[s].pc = "cache" => IsCopy(att'[s].copy) /\ att'[s].copy.cid <= created
  BY <1>2 DEF AttMade, Made
<1>3. CASE s = t
  BY <1>1, <1>2, <1>3 DEF Made
<1>4. CASE s # t
  BY <1>2, <1>4 DEF CopiesOK, AttMade, Made
<1> QED BY <1>3, <1>4

LEMMA AttachMade ==
  ASSUME CopiesOK, NEW t \in Attachers, AttachStep(t)
  PROVE  CopiesOK'
<1>0. CASE AttachRow(t)
  <2>1. /\ created' = created /\ UNCHANGED <<linked, cache, index, mishaps, clock, arrivals, ing, swp>>
        /\ att[t].pc = "row" /\ att[t].cid \in Cids
        /\ \/ att' = [att EXCEPT ![t].pc = "load"]
           \/ att' = [att EXCEPT ![t] = NoAttach]
        /\ \/ rows' = rows
           \/ /\ rows[att[t].cid] # NoCampaign
              /\ rows' = [rows EXCEPT ![att[t].cid].message = att[t].message]
    BY <1>0 DEF AttachRow, cacheVars, attUnchanged, AttachEnd, CopiesOK, AttMade
  <2>2. RowsOK'
    BY <1>0, AttachStepRows DEF AttachStep, CopiesOK
  <2>3. RowsMade'
    <3>1. \A k \in Cids : \/ rows'[k] = rows[k]
                          \/ /\ rows[k] # NoCampaign
                             /\ rows'[k] = [rows[k] EXCEPT !.message = att[t].message]
      BY <2>1 DEF CopiesOK, RowsOK
    <3> SUFFICES ASSUME NEW k \in Cids, rows'[k] # NoCampaign
                 PROVE  IsCopy(rows'[k]) /\ rows'[k].cid = k /\ k <= created
      BY <2>1 DEF RowsMade, Made
    <3>2. IsCopy(rows[k]) /\ rows[k].cid = k /\ k <= created
      BY <3>1 DEF CopiesOK, RowsMade, Made
    <3>3. LET u == [rows[k] EXCEPT !.message = att[t].message] IN IsCopy(u) /\ u.cid = k
      BY <3>2, MessageFields
    <3> QED BY <3>1, <3>2, <3>3
  <2>4. AttMade'
    <3>1. PICK v : v \in {NoAttach, [att[t] EXCEPT !.pc = "load"]} /\ att' = [att EXCEPT ![t] = v]
      BY <2>1
    <3>2. LET w == [att[t] EXCEPT !.pc = "load"]
          IN  DOMAIN w = {"pc", "cid", "message", "copy"} /\ w.pc = "load" /\ w.cid = att[t].cid
      BY DEF CopiesOK, AttMade
    <3> QED BY <2>1, <3>1, <3>2, AttMadeBut
  <2> QED BY <2>1, <2>2, <2>3, <2>4, Kept DEF CopiesOK
<1>1. CASE AttachLoad(t)
  <2>1. /\ created' = created
        /\ UNCHANGED <<rows, linked, cache, index, mishaps, clock, arrivals, ing, swp>>
        /\ att[t].pc = "load" /\ att[t].cid \in Cids
    BY <1>1 DEF AttachLoad, cacheVars, attUnchanged, CopiesOK, AttMade
  <2>2. \/ att' = [att EXCEPT ![t] = NoAttach]
        \/ \E c : Made(c) /\ att' = [att EXCEPT ![t].pc = "cache", ![t].copy = c]
    <3>1. rows[att[t].cid] # NoCampaign => rows[att[t].cid].actor \in Actors
      BY <2>1 DEF CopiesOK, RowsMade, Made, IsCopy, IsCampaign
    <3> QED BY <1>1, <3>1, LoadsMade DEF AttachLoad, AttachEnd
  <2>3. AttMade'
    BY <2>1, <2>2, NoneAreTyped DEF CopiesOK, AttMade, Made
  <2> QED BY <2>1, <2>3, Kept DEF CopiesOK
<1>2. CASE AttachCache(t)
  <2> DEFINE c == [att[t].copy EXCEPT !.message = att[t].message]
  <2>1. /\ created' = created /\ UNCHANGED <<rows, linked, clock, arrivals, ing, swp>>
        /\ att' = [att EXCEPT ![t] = NoAttach] /\ CacheSet(c) /\ Made(att[t].copy)
    BY <1>2 DEF AttachCache, attUnchanged, AttachEnd, CopiesOK, AttMade
  <2>2. Made(c)
    BY <2>1, MessageFields DEF Made
  <2> HIDE DEF c
  <2>3. CacheMade' /\ mishaps' \in 0..MaxMishaps
    BY <2>1, <2>2, CacheSetKeeps
  <2>4. AttMade'
    BY <2>1, AttMadeBut
  <2>5. NumOK'
    BY <2>1, <2>3 DEF CopiesOK, NumOK
  <2> QED BY <2>1, <2>3, <2>4, <2>5, Kept DEF CopiesOK
<1> QED BY <1>0, <1>1, <1>2 DEF AttachStep

LEMMA RestMade ==
  ASSUME CopiesOK, Tick \/ Crash \/ (\E a \in Actors : Evict(a)) \/ UNCHANGED aggVars
  PROVE  CopiesOK'
<1>1. created' = created /\ UNCHANGED <<rows, linked, index, arrivals>>
  BY DEF Tick, Crash, Evict, aggVars, tableVars, cacheVars
<1>2. NumOK'
  BY DEF Tick, Crash, Evict, aggVars, tableVars, cacheVars, CopiesOK, NumOK
<1>3. CacheMade'
  <2>1. \A a \in Actors : cache'[a] \in {cache[a], NoCampaign}
    BY DEF Tick, Crash, Evict, aggVars, cacheVars, CopiesOK, CacheMade
  <2>2. DOMAIN cache' = Actors
    BY DEF Tick, Crash, Evict, aggVars, cacheVars, CopiesOK, CacheMade
  <2> QED BY <1>1, <2>1, <2>2 DEF CopiesOK, CacheMade, Made
<1>4. IngMade' /\ SwpMade' /\ AttMade'
  <2>1. CASE Crash
    <3>1. ing' = NoIngest /\ swp' = NoSweep /\ att' = [t \in Attachers |-> NoAttach]
      BY <2>1 DEF Crash
    <3> QED BY <3>1, NoneAreTyped DEF IngMade, SwpMade, AttMade
  <2>2. CASE UNCHANGED <<ing, swp, att>>
    BY <1>1, <2>2, Kept
  <2> QED BY <2>1, <2>2 DEF Tick, Evict, aggVars, threadVars
<1> QED BY <1>1, <1>2, <1>3, <1>4, Kept DEF CopiesOK

LEMMA InitMade == Init => CopiesOK
<1> SUFFICES ASSUME Init PROVE CopiesOK
  OBVIOUS
<1>1. NumOK /\ RowsOK
  BY InitRows DEF Init, NumOK
<1>2. RowsMade /\ LinksMade /\ CacheMade
  BY DEF Init, RowsMade, LinksMade, CacheMade
<1>3. IngMade /\ SwpMade /\ AttMade
  BY NoneAreTyped DEF Init, IngMade, SwpMade, AttMade
<1> QED BY <1>1, <1>2, <1>3 DEF CopiesOK

LEMMA IngestMade ==
  ASSUME CopiesOK, IngestStep
  PROVE  CopiesOK'
  BY LoadMade, CloseMade, UncacheMade, InsertMade, ReloadMade, UpdateMade, CachingMade DEF IngestStep

LEMMA NextMade == CopiesOK /\ [Next]_aggVars => CopiesOK'
<1> SUFFICES ASSUME CopiesOK, [Next]_aggVars PROVE CopiesOK'
  OBVIOUS
<1> QED BY StartMade, IngestMade, ReturnMade, SweepMade, RestMade DEF Next

\* The aggregator keeps its types, whatever fails: an id is only given to a
\* campaign while there is one left, a row keeps its id, an entry of the cache is
\* its actor's, and what the threads hold is a campaign that was made.
THEOREM TypesOfCampaigns == Spec => []TypeOK
  BY InitMade, NextMade, CopiesAreTyped, PTL DEF Spec

-----------------------------------------------------------------------------
(* Prefixes of incident lists *)

LEMMA PrefixIs ==
  ASSUME NEW s \in Seq(IncidentIds), NEW t \in Seq(IncidentIds)
  PROVE  IsPrefix(s, t) <=> Len(s) <= Len(t) /\ \A n \in 1..Len(s) : s[n] = t[n]
<1>1. Len(s) \in Nat /\ Len(t) \in Nat
  BY LenProperties
<1> DEFINE a == SubSeq(s, 1, Len(s))
           b == SubSeq(t, 1, Len(s))
<1>2. CASE Len(s) > Len(t)
  BY <1>1, <1>2 DEF IsPrefix
<1>3. CASE Len(s) <= Len(t)
  <2>1. (\A n \in 1..Len(s) : s[n] \in IncidentIds) /\ (\A n \in 1..Len(s) : t[n] \in IncidentIds)
    BY <1>1, <1>3, ElementOfSeq
  <2>2. /\ a \in Seq(IncidentIds) /\ Len(a) = Len(s) /\ \A n \in 1..Len(s) : a[n] = s[n]
        /\ b \in Seq(IncidentIds) /\ Len(b) = Len(s) /\ \A n \in 1..Len(s) : b[n] = t[n]
    <3>1. /\ a \in Seq(IncidentIds) /\ Len(a) = IF 1 <= Len(s) THEN Len(s) - 1 + 1 ELSE 0
          /\ \A n \in 1..Len(s) - 1 + 1 : a[n] = s[1 + n - 1]
      BY <1>1, <2>1, SubSeqProperties
    <3>2. /\ b \in Seq(IncidentIds) /\ Len(b) = IF 1 <= Len(s) THEN Len(s) - 1 + 1 ELSE 0
          /\ \A n \in 1..Len(s) - 1 + 1 : b[n] = t[1 + n - 1]
      BY <1>1, <2>1, SubSeqProperties
    <3> HIDE DEF a, b
    <3> QED BY <1>1, <3>1, <3>2
  <2> HIDE DEF a, b
  <2>3. a = b <=> \A n \in 1..Len(s) : s[n] = t[n]
    <3>1. ASSUME \A n \in 1..Len(s) : s[n] = t[n] PROVE a = b
      BY <2>2, <3>1, SeqEqual
    <3> QED BY <2>2, <3>1
  <2> QED BY <1>3, <2>3 DEF IsPrefix, a, b
<1> QED BY <1>1, <1>2, <1>3

LEMMA PrefixOfItself ==
  ASSUME NEW s \in Seq(IncidentIds)
  PROVE  IsPrefix(s, s)
  BY PrefixIs, LenProperties

LEMMA PrefixOfAppend ==
  ASSUME NEW s \in Seq(IncidentIds), NEW t \in Seq(IncidentIds), IsPrefix(s, t), NEW i \in IncidentIds
  PROVE  IsPrefix(s, Append(t, i))
<1>1. Len(s) \in Nat /\ Len(t) \in Nat /\ Len(s) <= Len(t) /\ \A n \in 1..Len(s) : s[n] = t[n]
  BY PrefixIs, LenProperties
<1>2. /\ Append(t, i) \in Seq(IncidentIds) /\ Len(Append(t, i)) = Len(t) + 1
      /\ \A n \in 1..Len(t) : Append(t, i)[n] = t[n]
  BY AppendProperties
<1> DEFINE u == Append(t, i)
<1> HIDE DEF u
<1>3. u \in Seq(IncidentIds) /\ Len(s) <= Len(u) /\ \A n \in 1..Len(s) : s[n] = u[n]
  BY <1>1, <1>2 DEF u
<1>4. IsPrefix(s, u)
  BY <1>3, PrefixIs
<1> QED BY <1>4 DEF u

\* What a copy lists, one that continues it lists too.
LEMMA PrefixLists ==
  ASSUME NEW c, c.ids \in Seq(IncidentIds), NEW d, d.ids \in Seq(IncidentIds),
         IsPrefix(c.ids, d.ids), NEW i, Lists(c, i)
  PROVE  Lists(d, i)
<1>1. Len(c.ids) \in Nat /\ Len(d.ids) \in Nat /\ Len(c.ids) <= Len(d.ids)
      /\ \A n \in 1..Len(c.ids) : c.ids[n] = d.ids[n]
  BY PrefixIs, LenProperties
<1>2. DOMAIN c.ids = 1..Len(c.ids) /\ DOMAIN d.ids = 1..Len(d.ids)
  BY LenProperties
<1> QED BY <1>1, <1>2 DEF Lists

-----------------------------------------------------------------------------
(* No copy falls behind its row.  The incident thread merges into what it    *)
(* finds, and what it finds is the row or continues it; between its UPDATE   *)
(* and its write to the cache only the entry of that same campaign is older  *)
(* than the row, and the write goes to that entry, for all copies of a       *)
(* campaign name one actor.                                                  *)

\* Copy c continues its row in the table rs.
Continues(rs, c) ==
  rs[c.cid] = NoCampaign
  \/ (IsPrefix(rs[c.cid].ids, c.ids) /\ rs[c.cid].severity <= c.severity)

Owns(owner) ==
  /\ \A k \in Cids : rows[k] # NoCampaign => rows[k].actor = owner[k]
  /\ \A a \in Actors : cache[a] # NoCampaign => owner[cache[a].cid] = a
  /\ ing.pc \in {"update", "cache"} => ing.copy.actor = owner[ing.copy.cid]

Owners == Actors \cup {NoActor}

\* All copies of a campaign name the same actor.
OneOwner == \E owner \in [Cids -> Owners] : Owns(owner)

MergedContinues == ing.pc \in {"update", "cache"} => Continues(rows, ing.copy)

CachedContinues ==
  \A a \in Actors :
    cache[a] # NoCampaign =>
      \/ Continues(rows, cache[a])
      \/ /\ ing.pc = "cache" /\ ing.copy.cid = cache[a].cid
         /\ ing.copy.ids = rows[cache[a].cid].ids

LinksListed ==
  \A i \in IncidentIds :
    linked[i] # 0 /\ rows[linked[i]] # NoCampaign => Lists(rows[linked[i]], i)

NoneBehind == mishaps = 0 => MergedContinues /\ CachedContinues /\ LinksListed

\* The rows of rs merge what they did.
Alike(rs) ==
  \A k \in Cids : \/ rs[k] = rows[k]
                  \/ rows[k] # NoCampaign /\ SameMerge(rows[k], rs[k])

LEMMA ClosingIsAlike ==
  ASSUME CopiesOK, NEW c, rows' = ClosedRows(c)
  PROVE  Alike(rows')
<1>1. \A k \in Cids : rows'[k] = rows[k] \/ (rows[k] # NoCampaign /\ rows'[k] = [rows[k] EXCEPT !.status = "closed"])
  BY DEF ClosedRows, CopiesOK, RowsOK
<1> SUFFICES ASSUME NEW k \in Cids, rows'[k] # rows[k]
             PROVE  rows[k] # NoCampaign /\ SameMerge(rows[k], rows'[k])
  BY DEF Alike
<1>2. rows[k] # NoCampaign /\ IsCopy(rows[k])
  BY <1>1 DEF CopiesOK, RowsMade, Made
<1>3. rows'[k] = [rows[k] EXCEPT !.status = "closed"]
  BY <1>1
<1> QED BY <1>2, <1>3 DEF IsCopy, Fields, SameMerge

\* A step that merges nothing.
LEMMA NothingMerged ==
  ASSUME CopiesOK, OneOwner, NoneBehind, Alike(rows'), linked' = linked,
         \A a \in Actors : cache'[a] \in {cache[a], NoCampaign},
         mishaps' = 0 => mishaps = 0,
         ing' = ing \/ (ing'.pc \notin {"update", "cache"} /\ (ing.pc = "cache" => mishaps' # 0))
  PROVE  OneOwner' /\ NoneBehind'
<1>1. OneOwner'
  <2>1. PICK owner \in [Cids -> Owners] : Owns(owner)
    BY DEF OneOwner
  <2>2. Owns(owner)'
    BY <2>1 DEF Owns, Alike, SameMerge
  <2> QED BY <2>2 DEF OneOwner
<1>2. ASSUME mishaps' = 0 PROVE MergedContinues' /\ CachedContinues' /\ LinksListed'
  <2>1. MergedContinues /\ CachedContinues /\ LinksListed
    BY <1>2 DEF NoneBehind
  <2>2. ASSUME NEW c, c.cid \in Cids, Continues(rows, c) PROVE Continues(rows', c)
    BY <2>2 DEF Continues, Alike, SameMerge
  <2>3. MergedContinues'
    <3> SUFFICES ASSUME ing'.pc \in {"update", "cache"} PROVE Continues(rows', ing.copy) /\ ing' = ing
      BY DEF MergedContinues
    <3>1. ing.copy.cid \in Cids /\ ing' = ing
      BY DEF CopiesOK, IngMade, Made, IsCopy, IsCampaign
    <3> QED BY <2>1, <2>2, <3>1 DEF MergedContinues
  <2>4. CachedContinues'
    <3> SUFFICES ASSUME NEW a \in Actors, cache'[a] # NoCampaign
                 PROVE  \/ Continues(rows', cache'[a])
                        \/ /\ ing'.pc = "cache" /\ ing'.copy.cid = cache'[a].cid
                           /\ ing'.copy.ids = rows'[cache'[a].cid].ids
      BY DEF CachedContinues
    <3>1. cache'[a] = cache[a] /\ cache[a].cid \in Cids
      BY DEF CopiesOK, CacheMade, Made, IsCopy, IsCampaign
    <3>2. CASE Continues(rows, cache[a])
      BY <2>2, <3>1, <3>2
    <3>3. CASE /\ ing.pc = "cache" /\ ing.copy.cid = cache[a].cid
               /\ ing.copy.ids = rows[cache[a].cid].ids
      BY <1>2, <3>1, <3>3 DEF Alike, SameMerge
    <3> QED BY <2>1, <3>1, <3>2, <3>3 DEF CachedContinues
  <2>5. LinksListed'
    <3> SUFFICES ASSUME NEW i \in IncidentIds, linked[i] # 0, rows'[linked[i]] # NoCampaign
                 PROVE  Lists(rows'[linked[i]], i)
      BY DEF LinksListed
    <3>1. linked[i] \in Cids
      BY DEF CopiesOK, LinksMade, NumOK, Cids
    <3> QED BY <2>1, <3>1 DEF LinksListed, Alike, Lists, SameMerge
  <2> QED BY <2>3, <2>4, <2>5
<1> QED BY <1>1, <1>2 DEF NoneBehind

\* What a lookup finds continues its row, and so does what is merged into it.
LEMMA MergingContinues ==
  ASSUME CopiesOK, OneOwner, NoneBehind, ing.pc \in {"load", "reload"},
         NEW c \in Loads(ResolveActor(ing.inc)), c # NoCampaign, MergeInto(c),
         UNCHANGED <<rows, linked, cache, mishaps>>
  PROVE  OneOwner' /\ NoneBehind'
<1> DEFINE m == Merged(c, ing.inc, clock)
<1>1. ing.inc \in Incidents /\ ResolveActor(ing.inc) \in Actors /\ clock \in 0..MaxTime
  BY DEF CopiesOK, IngMade, NumOK, Actors
<1>2. /\ Made(c) /\ c.cid \in Cids /\ IsCopy(c)
      /\ (\E a \in Actors : c = cache[a]) \/ \E k \in Cids : c = rows[k] /\ rows[k] # NoCampaign
  BY <1>1, LoadsMade DEF Made, IsCopy, IsCampaign
<1>3. /\ IsCopy(m) /\ m.cid = c.cid /\ m.actor = c.actor
      /\ m.ids = Append(c.ids, ing.inc.id) /\ c.severity <= m.severity
  BY <1>1, <1>2, MergedFields, SMTT(30)
<1>4. ing'.pc = "update" /\ ing'.copy = m
  BY DEF MergeInto, CopiesOK, IngMade
<1> HIDE DEF m
<1>5. OneOwner'
  <2>1. PICK owner \in [Cids -> Owners] : Owns(owner)
    BY DEF OneOwner
  <2>2. c.actor = owner[c.cid]
    BY <1>2, <2>1 DEF Owns, CopiesOK, RowsMade, CacheMade
  <2>3. Owns(owner)'
    BY <1>3, <1>4, <2>1, <2>2 DEF Owns
  <2> QED BY <2>3 DEF OneOwner
<1>6. ASSUME mishaps = 0 PROVE MergedContinues' /\ CachedContinues' /\ LinksListed'
  <2>1. CachedContinues /\ LinksListed
    BY <1>6 DEF NoneBehind
  <2>2. Continues(rows, c)
    <3>1. ASSUME NEW k \in Cids, c = rows[k] PROVE Continues(rows, c)
      <4>1. rows[c.cid] = c
        BY <1>2, <3>1 DEF CopiesOK, RowsMade
      <4>2. IsPrefix(c.ids, c.ids) /\ c.severity <= c.severity
        BY <1>2, PrefixOfItself DEF IsCopy, IsCampaign, Severities
      <4> QED BY <4>1, <4>2 DEF Continues
    <3>2. ASSUME NEW a \in Actors, c = cache[a] PROVE Continues(rows, c)
      BY <2>1, <3>2 DEF CachedContinues
    <3> QED BY <1>2, <3>1, <3>2
  <2>3. Continues(rows, m)
    <3> SUFFICES ASSUME rows[c.cid] # NoCampaign
                 PROVE  IsPrefix(rows[c.cid].ids, m.ids) /\ rows[c.cid].severity <= m.severity
      BY <1>3 DEF Continues
    <3>1. /\ rows[c.cid].ids \in Seq(IncidentIds) /\ c.ids \in Seq(IncidentIds)
          /\ rows[c.cid].severity \in 0..3 /\ c.severity \in 0..3 /\ m.severity \in 0..3
      BY <1>2, <1>3 DEF CopiesOK, RowsMade, Made, IsCopy, IsCampaign, Severities
    <3>2. IsPrefix(rows[c.cid].ids, c.ids) /\ rows[c.cid].severity <= c.severity
      BY <2>2 DEF Continues
    <3>3. ing.inc.id \in IncidentIds
      BY <1>1 DEF IncidentIds
    <3>4. IsPrefix(rows[c.cid].ids, m.ids)
      BY <1>3, <3>1, <3>2, <3>3, PrefixOfAppend
    <3> QED BY <1>3, <3>1, <3>2, <3>4
  <2>4. MergedContinues'
    BY <1>4, <2>3 DEF MergedContinues
  <2>5. CachedContinues' /\ LinksListed'
    BY <2>1 DEF CachedContinues, LinksListed
  <2> QED BY <2>4, <2>5
<1> QED BY <1>5, <1>6 DEF NoneBehind

\* A new campaign has an id that no row, entry or back link has.
LEMMA OpeningContinues ==
  ASSUME CopiesOK, OneOwner, NoneBehind, ing.pc = "insert", created' = created + 1,
         NEW c, c = NewCampaign(created + 1, ing.inc, clock),
         ing' = [ing EXCEPT !.pc = "cache", !.copy = c, !.kind = "created"],
         \/ rows' = [rows EXCEPT ![c.cid] = c] /\ linked' = Backlinked(c)
         \/ rows' = rows /\ linked' = linked,
         UNCHANGED <<cache, mishaps>>
  PROVE  OneOwner' /\ NoneBehind'
<1>1. created + 1 \in Cids /\ created \in Nat /\ ing.inc \in Incidents /\ clock \in 0..MaxTime
  BY DEF CopiesOK, NumOK, IngMade, Cids
<1>2. IsCopy(c) /\ c.cid = created + 1 /\ c.actor \in Actors
  BY <1>1, NewFields DEF IsCopy, IsCampaign
<1>3. /\ \A a \in Actors : cache[a] # NoCampaign => cache[a].cid \in Cids \ {c.cid}
      /\ rows[c.cid] = NoCampaign
      /\ \A i \in IncidentIds : linked[i] # c.cid /\ linked[i] \in {0} \cup Cids
  <2>1. \A x : Made(x) => x.cid \in Cids \ {c.cid}
    BY <1>1, <1>2 DEF Made, IsCopy, IsCampaign, Cids
  <2>2. \A i \in IncidentIds : linked[i] # c.cid /\ linked[i] \in {0} \cup Cids
    BY <1>1, <1>2 DEF CopiesOK, LinksMade, NumOK, Cids
  <2> QED BY <1>1, <1>2, <2>1, <2>2 DEF CopiesOK, CacheMade, RowsMade
<1>4. ing'.pc = "cache" /\ ing'.copy = c
  BY DEF CopiesOK, IngMade
<1>5. \A k \in Cids : k # c.cid => rows'[k] = rows[k]
  BY DEF CopiesOK, RowsOK
<1>6. rows'[c.cid] = c \/ rows'[c.cid] = NoCampaign
  BY <1>1, <1>2, <1>3 DEF CopiesOK, RowsOK
<1>7. OneOwner'
  <2>1. PICK owner \in [Cids -> Owners] : Owns(owner)
    BY DEF OneOwner
  <2> DEFINE owner2 == [owner EXCEPT ![c.cid] = c.actor]
  <2>2. owner2 \in [Cids -> Owners] /\ owner2[c.cid] = c.actor /\ \A k \in Cids \ {c.cid} : owner2[k] = owner[k]
    BY <1>1, <1>2 DEF Owners
  <2> HIDE DEF owner2
  <2>3. Owns(owner2)'
    <3>1. \A k \in Cids : rows'[k] # NoCampaign => rows'[k].actor = owner2[k]
      BY <1>5, <1>6, <2>1, <2>2 DEF Owns
    <3>2. \A a \in Actors : cache'[a] # NoCampaign => owner2[cache'[a].cid] = a
      BY <1>3, <2>1, <2>2 DEF Owns
    <3>3. ing'.copy.actor = owner2[ing'.copy.cid]
      BY <1>4, <2>2
    <3> QED BY <3>1, <3>2, <3>3 DEF Owns
  <2> QED BY <2>2, <2>3 DEF OneOwner
<1>8. ASSUME mishaps = 0 PROVE MergedContinues' /\ CachedContinues' /\ LinksListed'
  <2>1. CachedContinues /\ LinksListed
    BY <1>8 DEF NoneBehind
  <2>2. Continues(rows', c)
    <3>1. IsPrefix(c.ids, c.ids) /\ c.severity <= c.severity
      BY <1>2, PrefixOfItself DEF IsCopy, IsCampaign, Severities
    <3> QED BY <1>6, <3>1 DEF Continues
  <2>3. MergedContinues'
    BY <1>4, <2>2 DEF MergedContinues
  <2>4. CachedContinues'
    BY <1>3, <1>5, <2>1 DEF CachedContinues, Continues
  <2>5. LinksListed'
    <3> SUFFICES ASSUME NEW i \in IncidentIds, linked'[i] # 0, rows'[linked'[i]] # NoCampaign
                 PROVE  Lists(rows'[linked'[i]], i)
      BY DEF LinksListed
    <3>1. CASE linked'[i] = linked[i]
      BY <1>3, <1>5, <2>1, <3>1 DEF LinksListed
    <3>2. CASE linked' = Backlinked(c) /\ Lists(c, i)
      BY <1>6, <3>2 DEF Backlinked
    <3> QED BY <3>1, <3>2 DEF Backlinked
  <2> QED BY <2>3, <2>4, <2>5
<1> QED BY <1>7, <1>8 DEF NoneBehind

LEMMA InsertingContinues ==
  ASSUME CopiesOK, OneOwner, NoneBehind, IngestInsert
  PROVE  OneOwner' /\ NoneBehind'
<1> DEFINE c == NewCampaign(created + 1, ing.inc, clock)
           opened == ing' = [ing EXCEPT !.pc = "cache", !.copy = c, !.kind = "created"]
<1>1. ing.pc = "insert" /\ UNCHANGED <<cache, mishaps>>
  BY DEF IngestInsert, cacheVars
<1>2. \/ InsertRow(c) /\ opened /\ created' = created + 1
      \/ ing' = [ing EXCEPT !.pc = "reload"] /\ UNCHANGED tableVars
      \/ opened /\ created' = created + 1 /\ UNCHANGED <<rows, linked>>
      \/ ing' = NoIngest /\ UNCHANGED tableVars
  BY DEF IngestInsert
<1>3. CASE opened /\ created' = created + 1
  BY <1>1, <1>2, <1>3, OpeningContinues DEF InsertRow, tableVars
<1>4. CASE ing' \in {[ing EXCEPT !.pc = "reload"], NoIngest} /\ UNCHANGED tableVars
  <2>1. ing'.pc \in {"reload", "idle"} /\ Alike(rows')
    BY <1>4, NoneAreTyped DEF CopiesOK, IngMade, Alike, tableVars
  <2> QED BY <1>1, <1>4, <2>1, NothingMerged DEF tableVars
<1> QED BY <1>2, <1>3, <1>4

\* The UPDATE of the merged copy: the row gets its incidents and its severity.
LEMMA UpdatingIs ==
  ASSUME CopiesOK, NEW c, Made(c), rows' = UpdatedRows(c)
  PROVE  /\ \A k \in Cids : k # c.cid => rows'[k] = rows[k]
         /\ rows[c.cid] = NoCampaign => rows' = rows
         /\ rows[c.cid] # NoCampaign =>
              /\ rows'[c.cid].actor = rows[c.cid].actor
              /\ rows'[c.cid].ids = c.ids /\ rows'[c.cid].severity = c.severity
              /\ rows[c.cid].actor = c.actor => SameMerge(c, rows'[c.cid])
<1>1. \A k \in Cids : k # c.cid => rows'[k] = rows[k]
  BY DEF UpdatedRows, CopiesOK, RowsOK
<1>2. rows[c.cid] = NoCampaign => rows' = rows
  BY DEF UpdatedRows
<1>3. c.cid \in Cids /\ IsCopy(c)
  BY DEF Made, IsCopy, IsCampaign
<1>4. ASSUME rows[c.cid] # NoCampaign
      PROVE  /\ rows'[c.cid].actor = rows[c.cid].actor
             /\ rows'[c.cid].ids = c.ids /\ rows'[c.cid].severity = c.severity
             /\ rows'[c.cid].path = c.path /\ rows'[c.cid].steps = c.steps
             /\ rows'[c.cid].techniques = c.techniques /\ rows'[c.cid].stages = c.stages
             /\ rows'[c.cid].confidence = c.confidence
  <2>1. Fields \subseteq DOMAIN rows[c.cid] /\ DOMAIN rows = Cids
    BY <1>3, <1>4 DEF CopiesOK, RowsMade, RowsOK, Made, IsCopy
  <2> QED BY <1>3, <1>4, <2>1 DEF UpdatedRows, Fields
<1> QED BY <1>1, <1>2, <1>4 DEF SameMerge

LEMMA UpdatingContinues ==
  ASSUME CopiesOK, OneOwner, NoneBehind, IngestUpdate
  PROVE  OneOwner' /\ NoneBehind'
<1> DEFINE c == ing.copy
<1>1. /\ ing.pc = "update" /\ UNCHANGED <<cache, mishaps>>
      /\ \/ rows' = UpdatedRows(c) /\ linked' = Backlinked(c)
         \/ UNCHANGED <<rows, linked>>
      /\ ing' = [ing EXCEPT !.pc = "cache"]
  BY DEF IngestUpdate, cacheVars
<1>2. Made(c) /\ c.cid \in Cids /\ c.ids \in Seq(IncidentIds) /\ c.severity \in 0..3
  BY <1>1 DEF CopiesOK, IngMade, Made, IsCopy, IsCampaign, Severities
<1>3. ing'.pc = "cache" /\ ing'.copy = c
  BY <1>1 DEF CopiesOK, IngMade
<1> HIDE DEF c
<1>4. OneOwner'
  <2>1. PICK owner \in [Cids -> Owners] : Owns(owner)
    BY DEF OneOwner
  <2>2. \A k \in Cids : rows'[k] # NoCampaign => rows[k] # NoCampaign /\ rows'[k].actor = rows[k].actor
    BY <1>1, <1>2, UpdatingIs
  <2>3. Owns(owner)'
    BY <1>1, <1>3, <2>1, <2>2 DEF Owns, c
  <2> QED BY <2>3 DEF OneOwner
<1>5. ASSUME mishaps = 0 PROVE MergedContinues' /\ CachedContinues' /\ LinksListed'
  <2>1. CachedContinues /\ LinksListed /\ Continues(rows, c)
    BY <1>1, <1>5 DEF NoneBehind, MergedContinues, c
  <2>2. CASE rows' = UpdatedRows(c) /\ linked' = Backlinked(c) /\ rows[c.cid] # NoCampaign
    <3>1. /\ \A k \in Cids : k # c.cid => rows'[k] = rows[k]
          /\ rows'[c.cid].ids = c.ids /\ rows'[c.cid].severity = c.severity
      BY <1>2, <2>2, UpdatingIs
    <3>2. MergedContinues'
      <4>1. IsPrefix(c.ids, c.ids) /\ c.severity <= c.severity
        BY <1>2, PrefixOfItself
      <4> QED BY <1>3, <3>1, <4>1 DEF MergedContinues, Continues
    <3>3. CachedContinues'
      <4> SUFFICES ASSUME NEW a \in Actors, cache[a] # NoCampaign
                   PROVE  \/ Continues(rows', cache[a])
                          \/ c.cid = cache[a].cid /\ c.ids = rows'[cache[a].cid].ids
        BY <1>1, <1>3 DEF CachedContinues
      <4>1. cache[a].cid \in Cids
        BY DEF CopiesOK, CacheMade, Made, IsCopy, IsCampaign
      <4>2. Continues(rows, cache[a])
        BY <1>1, <2>1 DEF CachedContinues
      <4> QED BY <3>1, <4>1, <4>2 DEF Continues
    <3>4. LinksListed'
      <4> SUFFICES ASSUME NEW i \in IncidentIds, linked'[i] # 0, rows'[linked'[i]] # NoCampaign
                   PROVE  Lists(rows'[linked'[i]], i)
        BY DEF LinksListed
      <4>1. CASE Lists(c, i)
        <5>1. linked'[i] = c.cid
          BY <2>2, <4>1 DEF Backlinked
        <5> QED BY <3>1, <4>1, <5>1 DEF Lists
      <4>2. CASE ~Lists(c, i)
        <5>1. linked'[i] = linked[i] /\ linked[i] \in Cids
          BY <2>2, <4>2 DEF Backlinked, CopiesOK, LinksMade, NumOK, Cids
        <5>2. ASSUME linked[i] = c.cid PROVE FALSE
          <6>1. Lists(rows[c.cid], i) /\ IsPrefix(rows[c.cid].ids, c.ids)
            BY <2>1, <2>2, <5>1, <5>2 DEF LinksListed, Continues
          <6>2. rows[c.cid].ids \in Seq(IncidentIds)
            BY <1>2, <2>2 DEF CopiesOK, RowsMade, Made, IsCopy
          <6> QED BY <1>2, <4>2, <6>1, <6>2, PrefixLists
        <5> QED BY <2>1, <3>1, <5>1, <5>2 DEF LinksListed
      <4> QED BY <4>1, <4>2
    <3> QED BY <3>2, <3>3, <3>4
  <2>3. CASE rows' = rows
    <3>1. MergedContinues' /\ CachedContinues'
      BY <1>1, <1>3, <2>1, <2>3 DEF MergedContinues, CachedContinues
    <3>2. LinksListed'
      <4>1. CASE linked' = linked
        BY <2>1, <2>3, <4>1 DEF LinksListed
      <4>2. CASE linked' = Backlinked(c) /\ rows[c.cid] = NoCampaign
        BY <2>1, <2>3, <4>2 DEF LinksListed, Backlinked
      <4>3. CASE linked' = Backlinked(c) /\ rows[c.cid] # NoCampaign /\ rows' = UpdatedRows(c)
        BY <2>2, <4>3
      <4> QED BY <1>1, <4>1, <4>2, <4>3
    <3> QED BY <3>1, <3>2
  <2>4. rows[c.cid] = NoCampaign /\ rows' = UpdatedRows(c) => rows' = rows
    BY <1>2, UpdatingIs
  <2> QED BY <1>1, <2>2, <2>3, <2>4
<1> QED BY <1>1, <1>4, <1>5 DEF NoneBehind

\* The write to the cache: no other entry is of that campaign.
LEMMA CachingContinues ==
  ASSUME CopiesOK, OneOwner, NoneBehind, IngestCache
  PROVE  OneOwner' /\ NoneBehind'
<1> DEFINE c == ing.copy
<1>1. /\ ing.pc = "cache" /\ UNCHANGED <<rows, linked>> /\ CacheSet(c)
      /\ ing' = [ing EXCEPT !.pc = "return"]
  BY DEF IngestCache, tableVars
<1>2. c.actor \in Actors /\ c.cid \in Cids
  BY <1>1 DEF CopiesOK, IngMade, Made, IsCopy, IsCampaign
<1>3. ing'.pc = "return"
  BY <1>1 DEF CopiesOK, IngMade
<1> HIDE DEF c
<1>4. /\ cache' \in {cache, [cache EXCEPT ![c.actor] = c]}
      /\ mishaps' = 0 => mishaps = 0 /\ cache' = [cache EXCEPT ![c.actor] = c]
  BY <1>1 DEF CacheSet, CacheCalls, CopiesOK, NumOK
<1>5. /\ \A a \in Actors : cache'[a] = cache[a] \/ (a = c.actor /\ cache'[a] = c)
      /\ mishaps' = 0 => cache'[c.actor] = c
  BY <1>2, <1>4 DEF CopiesOK, CacheMade
<1>6. PICK owner \in [Cids -> Owners] : Owns(owner)
  BY DEF OneOwner
<1>7. owner[c.cid] = c.actor
  BY <1>1, <1>6 DEF Owns, c
<1>8. OneOwner'
  <2>1. Owns(owner)'
    BY <1>1, <1>3, <1>5, <1>6, <1>7 DEF Owns
  <2> QED BY <2>1 DEF OneOwner
<1>9. ASSUME mishaps' = 0 PROVE MergedContinues' /\ CachedContinues' /\ LinksListed'
  <2>1. CachedContinues /\ LinksListed /\ Continues(rows, c)
    BY <1>1, <1>4, <1>9 DEF NoneBehind, MergedContinues, c
  <2>2. CachedContinues'
    <3> SUFFICES ASSUME NEW a \in Actors, cache'[a] # NoCampaign
                 PROVE  Continues(rows, cache'[a])
      BY <1>1 DEF CachedContinues
    <3>1. CASE a = c.actor
      BY <1>5, <1>9, <2>1, <3>1
    <3>2. CASE a # c.actor
      <4>1. cache'[a] = cache[a] /\ cache[a].cid # c.cid
        BY <1>5, <1>6, <1>7, <3>2 DEF Owns
      <4> QED BY <2>1, <4>1 DEF CachedContinues, c
    <3> QED BY <3>1, <3>2
  <2>3. MergedContinues' /\ LinksListed'
    BY <1>1, <1>3, <2>1 DEF MergedContinues, LinksListed
  <2> QED BY <2>2, <2>3
<1> QED BY <1>8, <1>9 DEF NoneBehind

LEMMA LoadingContinues ==
  ASSUME CopiesOK, OneOwner, NoneBehind, IngestLoad \/ IngestReload
  PROVE  OneOwner' /\ NoneBehind'
<1>1. ing.pc \in {"load", "reload"} /\ UNCHANGED <<rows, linked, cache, mishaps>>
  BY DEF IngestLoad, IngestReload, tableVars, cacheVars
<1>2. PICK c \in Loads(ResolveActor(ing.inc)) :
        \/ c # NoCampaign /\ MergeInto(c)
        \/ ing'.pc \in {"insert", "close", "return", "idle"}
  BY NoneAreTyped DEF IngestLoad, IngestReload, CopiesOK, IngMade
<1>3. CASE c # NoCampaign /\ MergeInto(c)
  BY <1>1, <1>3, MergingContinues
<1>4. CASE ing'.pc \in {"insert", "close", "return", "idle"}
  BY <1>1, <1>4, NothingMerged DEF Alike
<1> QED BY <1>2, <1>3, <1>4

LEMMA DeletingRemoves ==
  ASSUME CopiesOK, NEW a, CacheDelete(a)
  PROVE  /\ \A b \in Actors : cache'[b] \in {cache[b], NoCampaign}
         /\ mishaps' = 0 => mishaps = 0
<1>1. cache' \in {cache, [cache EXCEPT ![a] = NoCampaign]} /\ (mishaps' = 0 => mishaps = 0)
  BY DEF CacheDelete, CacheCalls, CopiesOK, NumOK
<1> QED BY <1>1 DEF CopiesOK, CacheMade

RestStep ==
  \/ IngestClose \/ IngestUncache \/ IngestReturn \/ SweepStep \/ Tick \/ Crash
  \/ (\E a \in Actors : Evict(a)) \/ (\E inc \in Incidents : IngestStart(inc))
  \/ UNCHANGED aggVars

\* Everything else merges nothing.
LEMMA RestLeaves ==
  ASSUME CopiesOK, RestStep
  PROVE  /\ linked' = linked /\ Alike(rows')
         /\ \A b \in Actors : cache'[b] \in {cache[b], NoCampaign}
         /\ mishaps' = 0 => mishaps = 0
         /\ ing' = ing \/ (ing'.pc \notin {"update", "cache"} /\ (ing.pc = "cache" => mishaps' # 0))
<1> USE DEF RestStep
<1>1. linked' = linked
  BY DEF IngestClose, IngestUncache, IngestReturn, SweepStep, SweepStart, SweepLoad, SweepClose,
         SweepUncache, SweepEnd, Tick, Crash, Evict, IngestStart, aggVars, tableVars
<1>2. Alike(rows')
  <2>1. rows' = rows \/ \E c : rows' = ClosedRows(c)
    BY DEF IngestClose, IngestUncache, IngestReturn, SweepStep, SweepStart, SweepLoad, SweepClose,
           SweepUncache, SweepEnd, Tick, Crash, Evict, IngestStart, aggVars, tableVars
  <2> QED BY <2>1, ClosingIsAlike DEF Alike
<1>3. /\ \A b \in Actors : cache'[b] \in {cache[b], NoCampaign}
      /\ mishaps' = 0 => mishaps = 0
  <2>1. CASE \E a : CacheDelete(a)
    BY <2>1, DeletingRemoves
  <2>2. CASE \E a \in Actors : Evict(a)
    BY <2>2 DEF Evict, CopiesOK, CacheMade
  <2>3. CASE Crash
    BY <2>3 DEF Crash, CopiesOK, NumOK
  <2>4. CASE UNCHANGED <<cache, mishaps>>
    BY <2>4
  <2> QED BY <2>1, <2>2, <2>3, <2>4
          DEF IngestClose, IngestUncache, IngestReturn, SweepStep, SweepStart, SweepLoad, SweepClose,
              SweepUncache, SweepEnd, Tick, IngestStart, aggVars, cacheVars
<1>4. ing' = ing \/ (ing'.pc \notin {"update", "cache"} /\ (ing.pc = "cache" => mishaps' # 0))
  <2>1. CASE IngestClose \/ IngestUncache \/ IngestReturn \/ (\E inc \in Incidents : IngestStart(inc))
    <3>1. ing.pc # "cache" /\ ing'.pc \in {"uncache", "insert", "idle", "load"}
      BY <2>1, NoneAreTyped DEF IngestClose, IngestUncache, IngestReturn, IngestStart, CopiesOK, IngMade
    <3> QED BY <3>1
  <2>2. CASE Crash
    BY <2>2, NoneAreTyped DEF Crash, CopiesOK, NumOK
  <2>3. CASE ing' = ing
    BY <2>3
  <2> QED BY <2>1, <2>2, <2>3
          DEF SweepStep, SweepStart, SweepLoad, SweepClose, SweepUncache, SweepEnd, swpUnchanged,
              Tick, Evict, aggVars, threadVars
<1> QED BY <1>1, <1>2, <1>3, <1>4

LEMMA RestContinues ==
  ASSUME CopiesOK, OneOwner, NoneBehind, RestStep
  PROVE  OneOwner' /\ NoneBehind'
  BY RestLeaves, NothingMerged

GrowthOK == CopiesOK /\ OneOwner /\ NoneBehind

LEMMA InitGrowth == Init => GrowthOK
<1> SUFFICES ASSUME Init PROVE GrowthOK
  OBVIOUS
<1>1. CopiesOK
  BY InitMade
<1>2. OneOwner
  <2> DEFINE owner == [k \in Cids |-> NoActor]
  <2>1. owner \in [Cids -> Owners]
    BY DEF Owners
  <2>2. Owns(owner)
    BY NoneAreTyped DEF Init, Owns
  <2> QED BY <2>1, <2>2 DEF OneOwner
<1>3. NoneBehind
  BY NoneAreTyped DEF Init, NoneBehind, MergedContinues, CachedContinues, LinksListed
<1> QED BY <1>1, <1>2, <1>3 DEF GrowthOK

LEMMA NextGrowth == GrowthOK /\ [Next]_aggVars => GrowthOK'
<1> SUFFICES ASSUME CopiesOK, OneOwner, NoneBehind, [Next]_aggVars PROVE OneOwner' /\ NoneBehind'
  BY NextMade DEF GrowthOK
<1>1. CASE IngestStep
  BY <1>1, LoadingContinues, InsertingContinues, UpdatingContinues, CachingContinues, RestContinues
     DEF IngestStep, RestStep
<1>2. CASE ~IngestStep
  BY <1>2, RestContinues DEF Next, RestStep
<1> QED BY <1>1, <1>2

\* A cached entry is not behind its row: the lookups of the incident thread only
\* ever find what continues the row, and what it writes to the cache continues it.
THEOREM CacheFollowsRows == Spec => []CacheNotBehind
<1>1. GrowthOK => CacheNotBehind
  BY DEF GrowthOK, NoneBehind, CachedContinues, Continues, CacheNotBehind
<1> QED BY <1>1, InitGrowth, NextGrowth, PTL DEF Spec

\* A row lists the incidents that are stamped with its campaign: its updates only
\* ever add to its list.
THEOREM LinksAreListed == Spec => []LinkedIsListed
<1>1. GrowthOK => LinkedIsListed
  BY DEF GrowthOK, NoneBehind, LinksListed, LinkedIsListed
<1> QED BY <1>1, InitGrowth, NextGrowth, PTL DEF Spec

\* No step takes an incident off a row or lowers its severity: only the UPDATE of
\* a merged copy writes either, and that copy continues the row.
THEOREM RowsGrow == Spec => RowsOnlyGrow
<1> DEFINE Grow == \A c \in Cids : mishaps = 0 /\ rows[c] # NoCampaign =>
                     /\ IsPrefix(rows[c].ids, rows'[c].ids)
                     /\ rows[c].severity <= rows'[c].severity
<1>1. GrowthOK /\ [Next]_aggVars => [Grow]_rows
  <2> SUFFICES ASSUME GrowthOK, [Next]_aggVars, NEW k \in Cids, mishaps = 0, rows[k] # NoCampaign
               PROVE  /\ IsPrefix(rows[k].ids, rows'[k].ids)
                      /\ rows[k].severity <= rows'[k].severity
    OBVIOUS
  <2>1. CopiesOK /\ IsCopy(rows[k]) /\ k <= created
    BY DEF GrowthOK, CopiesOK, RowsMade, Made
  <2>2. IsPrefix(rows[k].ids, rows[k].ids) /\ rows[k].severity <= rows[k].severity
    BY <2>1, PrefixOfItself DEF IsCopy, IsCampaign, Severities
  <2>3. CASE Alike(rows')
    BY <2>2, <2>3 DEF Alike, SameMerge
  <2>4. CASE IngestInsert
    <3>1. created \in Nat /\ NewCampaign(created + 1, ing.inc, clock).cid = created + 1
      BY <2>1 DEF CopiesOK, NumOK, NewCampaign
    <3>2. rows'[k] = rows[k]
      BY <2>1, <2>4, <3>1 DEF IngestInsert, InsertRow, tableVars, CopiesOK, RowsOK, Cids
    <3> QED BY <2>2, <3>2
  <2>5. CASE IngestUpdate
    <3>1. Made(ing.copy) /\ Continues(rows, ing.copy)
      BY <2>5 DEF IngestUpdate, GrowthOK, CopiesOK, IngMade, NoneBehind, MergedContinues
    <3>2. CASE rows' = UpdatedRows(ing.copy)
      BY <2>1, <2>2, <3>1, <3>2, UpdatingIs DEF Continues
    <3> QED BY <2>2, <2>5, <3>2 DEF IngestUpdate
  <2>6. CASE ~(IngestInsert \/ IngestUpdate)
    <3>1. rows' = rows \/ \E c : rows' = ClosedRows(c)
      BY <2>6 DEF Next, IngestStep, IngestLoad, IngestReload, IngestCache, IngestClose, IngestUncache,
                  IngestReturn, SweepStep, SweepStart, SweepLoad, SweepClose,
                  SweepUncache, SweepEnd, Tick, Crash, Evict, IngestStart, aggVars, tableVars
    <3> QED BY <2>1, <2>3, <3>1, ClosingIsAlike DEF Alike
  <2> QED BY <2>3, <2>4, <2>5, <2>6
<1> QED BY <1>1, InitGrowth, NextGrowth, PTL DEF Spec, RowsOnlyGrow

-----------------------------------------------------------------------------
(* A row is the merge of what it lists.  Every copy that is on its way to a   *)
(* row is: what a lookup returns is, and is of the actor the incident names,  *)
(* so that one more merge keeps it; the UPDATE writes all that was merged.    *)

RowsMerge == \A k \in Cids : rows[k] # NoCampaign => Merges(rows[k])

CacheMerges == \A a \in Actors : cache[a] # NoCampaign => Merges(cache[a])

CopyMerges == ing.pc \in {"update", "cache"} => Merges(ing.copy)

MergeOK == RowsMerge /\ CacheMerges /\ CopyMerges

LEMMA MergingMerges ==
  ASSUME CopiesOK, MergeOK, ing.pc \in {"load", "reload"},
         NEW c \in Loads(ResolveActor(ing.inc)), c # NoCampaign, MergeInto(c)
  PROVE  CopyMerges'
<1> DEFINE a == ResolveActor(ing.inc)
<1>1. ing.inc \in Incidents /\ a \in Actors
  BY DEF CopiesOK, IngMade, Actors
<1>2. /\ Made(c) /\ c.actor = a
      /\ c = cache[a] \/ \E k \in Cids : c = rows[k] /\ rows[k] # NoCampaign
  BY <1>1, LoadsMade
<1>3. Merges(c) /\ Fields \subseteq DOMAIN c
  BY <1>1, <1>2 DEF MergeOK, RowsMerge, CacheMerges, Made, IsCopy
<1>4. Merges(Merged(c, ing.inc, clock))
  BY <1>1, <1>2, <1>3, MergedMerges
<1>5. ing'.copy = Merged(c, ing.inc, clock)
  BY DEF MergeInto, CopiesOK, IngMade
<1> QED BY <1>4, <1>5 DEF CopyMerges

LEMMA LoadingMerges ==
  ASSUME CopiesOK, MergeOK, IngestLoad \/ IngestReload
  PROVE  MergeOK'
<1>1. ing.pc \in {"load", "reload"} /\ UNCHANGED <<rows, cache>>
  BY DEF IngestLoad, IngestReload, tableVars, cacheVars
<1>2. PICK c \in Loads(ResolveActor(ing.inc)) :
        \/ c # NoCampaign /\ MergeInto(c)
        \/ ing'.pc \in {"insert", "close", "return", "idle"}
  BY NoneAreTyped DEF IngestLoad, IngestReload, CopiesOK, IngMade
<1>3. CopyMerges'
  BY <1>1, <1>2, MergingMerges DEF CopyMerges
<1> QED BY <1>1, <1>3 DEF MergeOK, RowsMerge, CacheMerges

LEMMA InsertingMerges ==
  ASSUME CopiesOK, MergeOK, IngestInsert
  PROVE  MergeOK'
<1> DEFINE c == NewCampaign(created + 1, ing.inc, clock)
           opened == ing' = [ing EXCEPT !.pc = "cache", !.copy = c, !.kind = "created"]
<1>1. ing.inc \in Incidents /\ UNCHANGED cache
  BY DEF IngestInsert, cacheVars, CopiesOK, IngMade
<1>2. Merges(c)
  BY <1>1, NewMerges
<1>3. /\ rows' = rows \/ rows' = [rows EXCEPT ![c.cid] = c]
      /\ opened \/ ing' \in {[ing EXCEPT !.pc = "reload"], NoIngest}
  BY DEF IngestInsert, InsertRow, tableVars
<1> HIDE DEF c
<1>4. RowsMerge'
  BY <1>2, <1>3 DEF MergeOK, RowsMerge, CopiesOK, RowsOK
<1>5. CopyMerges'
  BY <1>2, <1>3, NoneAreTyped DEF CopyMerges, CopiesOK, IngMade
<1> QED BY <1>1, <1>4, <1>5 DEF MergeOK, CacheMerges

\* The row and the copy name one actor.
LEMMA UpdatingMerges ==
  ASSUME CopiesOK, OneOwner, MergeOK, IngestUpdate
  PROVE  MergeOK'
<1> DEFINE c == ing.copy
<1>1. /\ ing.pc = "update" /\ UNCHANGED cache /\ Merges(c) /\ Made(c)
      /\ rows' = UpdatedRows(c) \/ rows' = rows
      /\ ing' = [ing EXCEPT !.pc = "cache"]
  BY DEF IngestUpdate, cacheVars, MergeOK, CopyMerges, CopiesOK, IngMade
<1>2. c.cid \in Cids /\ ing'.copy = c
  BY <1>1 DEF CopiesOK, IngMade, Made, IsCopy, IsCampaign
<1>3. rows[c.cid] # NoCampaign => rows[c.cid].actor = c.actor
  BY <1>1, <1>2 DEF OneOwner, Owns
<1> HIDE DEF c
<1>4. ASSUME rows' = UpdatedRows(c), NEW k \in Cids, rows'[k] # NoCampaign
      PROVE  Merges(rows'[k])
  <2>1. CASE rows[c.cid] # NoCampaign /\ k = c.cid
    BY <1>1, <1>3, <1>4, <2>1, UpdatingIs, SameMerges
  <2>2. CASE rows[c.cid] = NoCampaign \/ k # c.cid
    <3>1. rows'[k] = rows[k]
      BY <1>1, <1>4, <2>2, UpdatingIs
    <3> QED BY <1>4, <3>1 DEF MergeOK, RowsMerge
  <2> QED BY <2>1, <2>2
<1>5. RowsMerge'
  BY <1>1, <1>4 DEF MergeOK, RowsMerge
<1> QED BY <1>1, <1>2, <1>5 DEF MergeOK, CacheMerges, CopyMerges

LEMMA CachingMerges ==
  ASSUME CopiesOK, MergeOK, IngestCache
  PROVE  MergeOK'
<1> DEFINE c == ing.copy
<1>1. /\ ing.pc = "cache" /\ UNCHANGED rows /\ CacheSet(c) /\ Merges(c)
      /\ ing' = [ing EXCEPT !.pc = "return"]
  BY DEF IngestCache, tableVars, MergeOK, CopyMerges
<1>2. ing'.pc = "return"
  BY <1>1 DEF CopiesOK, IngMade
<1> HIDE DEF c
<1>3. cache' \in {cache, [cache EXCEPT ![c.actor] = c]}
  BY <1>1 DEF CacheSet, CacheCalls
<1>4. CacheMerges'
  BY <1>1, <1>3 DEF MergeOK, CacheMerges, CopiesOK, CacheMade
<1> QED BY <1>1, <1>2, <1>4 DEF MergeOK, RowsMerge, CopyMerges

LEMMA RestMerges ==
  ASSUME CopiesOK, MergeOK, RestStep
  PROVE  MergeOK'
<1>1. RowsMerge'
  BY RestLeaves, SameMerges DEF MergeOK, RowsMerge, Alike
<1>2. CacheMerges' /\ CopyMerges'
  BY RestLeaves DEF MergeOK, CacheMerges, CopyMerges
<1> QED BY <1>1, <1>2 DEF MergeOK

\* A campaign row is the merge of exactly the incidents it lists, whatever store
\* fails, expires or dies: for incidents of any severities, paths and steps, and
\* any number of them.
THEOREM RowsAreMerges == Spec => []RowIsMergeOfItsIncidents
<1>1. Init => MergeOK
  BY NoneAreTyped DEF Init, MergeOK, RowsMerge, CacheMerges, CopyMerges
<1>2. GrowthOK /\ MergeOK /\ [Next]_aggVars => MergeOK'
  <2> SUFFICES ASSUME CopiesOK, OneOwner, MergeOK, [Next]_aggVars PROVE MergeOK'
    BY DEF GrowthOK
  <2>1. CASE IngestStep
    BY <2>1, LoadingMerges, InsertingMerges, UpdatingMerges, CachingMerges, RestMerges
       DEF IngestStep, RestStep
  <2>2. CASE ~IngestStep
    BY <2>2, RestMerges DEF Next, RestStep
  <2> QED BY <2>1, <2>2
<1>3. MergeOK => RowIsMergeOfItsIncidents
  BY MergesIs DEF MergeOK, RowsMerge, RowIsMergeOfItsIncidents
<1> QED BY <1>1, <1>2, <1>3, InitGrowth, NextGrowth, PTL DEF Spec
=============================================================================
