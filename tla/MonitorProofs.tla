---------------------------- MODULE MonitorProofs ----------------------------
(***************************************************************************)
(* Proofs about the monitors: whatever comes in whatever order, and        *)
(* whatever a reset interrupts, a burst of almost twice the threshold is   *)
(* reported, or comes while a report rests.                                *)
(*                                                                         *)
(* A burst within the span of a window meets two windows at most, and one  *)
(* of them sees half of it, which is a threshold.  The invariant says so   *)
(* of the windows: of the one that is open, of the one before it as far as *)
(* a burst may still reach back, and of all bursts so far.                 *)
(***************************************************************************)
EXTENDS Monitors, FiniteSetTheorems, TLAPS

-----------------------------------------------------------------------------
(* Things at places of a history, in the order of time *)

\* What is heard at the places of F.
Between(F, m, n) == {F[k] : k \in DOMAIN F \cap (m..n)}
From(F, m) == {F[k] : k \in {j \in DOMAIN F : j >= m}}

IsTimeline(F, h) ==
  /\ IsFiniteSet(DOMAIN F) /\ DOMAIN F \subseteq Nat
  /\ \A k \in DOMAIN F : h[k].at \in Int
  /\ \A j, k \in DOMAIN F : j <= k => h[j].at <= h[k].at

LEMMA ImageIsFinite ==
  ASSUME NEW F, NEW S, IsFiniteSet(S)
  PROVE  IsFiniteSet({F[k] : k \in S}) /\ Cardinality({F[k] : k \in S}) \in Nat
         /\ Cardinality({F[k] : k \in S}) <= Cardinality(S)
<1> DEFINE f == [k \in S |-> F[k]]
           T == {F[k] : k \in S}
<1>1. f \in Surjection(S, T)
  BY DEF Surjection
<1> HIDE DEF f, T
<1>2. IsFiniteSet(T) /\ Cardinality(T) <= Cardinality(S)
  BY <1>1, FS_Surjection
<1>3. Cardinality(T) \in Nat
  BY <1>2, FS_CardinalityType
<1> QED BY <1>2, <1>3 DEF T

\* Fewer places show fewer things, and what two parts show together is no more than
\* what they show.
PartsFit(F) ==
  /\ \A m : m \in Int => Cardinality(From(F, m)) \in Nat
  /\ \A m, n : m \in Int /\ n \in Int => /\ Cardinality(Between(F, m, n)) \in Nat
                                        /\ Cardinality(Between(F, m, n)) <= Cardinality(From(F, m))
  /\ \A m, b : m \in Int /\ b \in Int /\ b <= m => Cardinality(From(F, m)) <= Cardinality(From(F, b))
  /\ \A m, n, b : m \in Int /\ n \in Int /\ b \in Int =>
       Cardinality(Between(F, m, n)) <= Cardinality(Between(F, m, b - 1)) + Cardinality(From(F, b))

LEMMA Parts ==
  ASSUME NEW F, IsFiniteSet(DOMAIN F), DOMAIN F \subseteq Nat
  PROVE  PartsFit(F)
<1> SUFFICES ASSUME NEW m \in Int, NEW n \in Int, NEW b \in Int
             PROVE  /\ Cardinality(Between(F, m, n)) \in Nat /\ Cardinality(From(F, m)) \in Nat
                    /\ Cardinality(Between(F, m, n)) <= Cardinality(From(F, m))
                    /\ b <= m => Cardinality(From(F, m)) <= Cardinality(From(F, b))
                    /\ Cardinality(Between(F, m, n)) <= Cardinality(Between(F, m, b - 1)) + Cardinality(From(F, b))
  BY Zenon DEF PartsFit
<1>1. \A j \in Int, k \in Int : IsFiniteSet(Between(F, j, k)) /\ Cardinality(Between(F, j, k)) \in Nat
  <2> TAKE j \in Int, k \in Int
  <2> DEFINE S == DOMAIN F \cap (j..k)
  <2>1. IsFiniteSet(S)
    BY FS_Subset
  <2> HIDE DEF S
  <2>2. IsFiniteSet({F[i] : i \in S}) /\ Cardinality({F[i] : i \in S}) \in Nat
    BY <2>1, ImageIsFinite
  <2> QED BY <2>2 DEF S, Between
<1>2. \A j \in Int : IsFiniteSet(From(F, j)) /\ Cardinality(From(F, j)) \in Nat
  <2> TAKE j \in Int
  <2> DEFINE S == {i \in DOMAIN F : i >= j}
  <2>1. IsFiniteSet(S)
    BY FS_Subset
  <2> HIDE DEF S
  <2>2. IsFiniteSet({F[i] : i \in S}) /\ Cardinality({F[i] : i \in S}) \in Nat
    BY <2>1, ImageIsFinite
  <2> QED BY <2>2 DEF S, From
<1>3. Between(F, m, n) \in SUBSET From(F, m)
  BY DEF Between, From
<1>4. Cardinality(Between(F, m, n)) <= Cardinality(From(F, m))
  BY <1>2, <1>3, FS_Subset
<1>5. b <= m => From(F, m) \in SUBSET From(F, b)
  BY DEF From
<1>6. b <= m => Cardinality(From(F, m)) <= Cardinality(From(F, b))
  BY <1>2, <1>5, FS_Subset
<1>7. Cardinality(Between(F, m, n)) <= Cardinality(Between(F, m, b - 1)) + Cardinality(From(F, b))
  <2> DEFINE A == Between(F, m, b - 1)
             B == From(F, b)
             C == Between(F, m, n)
  <2>1. C \in SUBSET (A \cup B)
    BY DEF Between, From
  <2>2. IsFiniteSet(A) /\ Cardinality(A) \in Nat /\ IsFiniteSet(B) /\ Cardinality(B) \in Nat /\ Cardinality(C) \in Nat
    BY <1>1, <1>2
  <2> HIDE DEF A, B, C
  <2>3. IsFiniteSet(A \cup B) /\ Cardinality(A \cup B) = Cardinality(A) + Cardinality(B) - Cardinality(A \cap B)
    BY <2>2, FS_Union
  <2>4. Cardinality(A \cap B) \in Nat
    BY <2>2, FS_Intersection, FS_CardinalityType
  <2>5. Cardinality(C) <= Cardinality(A \cup B)
    BY <2>1, <2>3, FS_Subset
  <2>6. Cardinality(C) <= Cardinality(A) + Cardinality(B)
    BY <2>2, <2>3, <2>4, <2>5
  <2> QED BY <2>6 DEF A, B, C
<1> QED BY <1>1, <1>2, <1>4, <1>6, <1>7

\* G at the places of g is F at those of h, and at a place after them something more.
Extends(G, g, F, h, x, t) ==
  /\ x \in Nat /\ (\A k \in DOMAIN F : k < x) /\ DOMAIN G = DOMAIN F \cup {x}
  /\ \A k \in DOMAIN F : G[k] = F[k] /\ g[k].at = h[k].at /\ h[k].at <= t
  /\ t \in Int /\ g[x].at = t

LEMMA ExtendedTimeline ==
  ASSUME NEW F, NEW h, NEW G, NEW g, NEW x, NEW t, IsTimeline(F, h), Extends(G, g, F, h, x, t)
  PROVE  IsTimeline(G, g)
<1>1. IsFiniteSet(DOMAIN G)
  BY FS_AddElement DEF IsTimeline, Extends
<1> QED BY <1>1 DEF IsTimeline, Extends

LEMMA EarlierPlaces ==
  ASSUME NEW F, NEW h, NEW G, NEW g, NEW x, NEW t, IsTimeline(F, h), Extends(G, g, F, h, x, t),
         NEW m \in Nat, NEW n \in Int, n < x
  PROVE  Between(G, m, n) = Between(F, m, n)
<1>1. DOMAIN G \cap (m..n) = DOMAIN F \cap (m..n)
  BY DEF IsTimeline, Extends
<1>2. \A k \in DOMAIN F \cap (m..n) : G[k] = F[k]
  BY DEF Extends
<1> QED BY <1>1, <1>2 DEF Between

-----------------------------------------------------------------------------
(* What a window that is judged as it fills up keeps *)

\* D: the times that are before the end of a rest.
IsDown(D) == D \subseteq Int /\ \A t \in D, u \in Int : u <= t => u \in D

\* b is the place from which the window counts.
Kept(F, h, N, span, b, first, D) ==
  /\ \A m, n \in DOMAIN F :
       m <= n /\ h[n].at - h[m].at <= span /\ Cardinality(Between(F, m, n)) >= 2 * N - 1 => h[m].at \in D
  /\ \A m \in DOMAIN F :
       m < b /\ h[m].at >= first - span /\ Cardinality(Between(F, m, b - 1)) >= N => h[m].at \in D
  /\ \A m \in DOMAIN F : m >= b /\ Cardinality(From(F, m)) >= N => h[m].at \in D
  /\ \A k \in DOMAIN F : k < b => h[k].at <= first \/ h[k].at \in D

LEMMA AllAreDue ==
  ASSUME NEW F, NEW h, NEW N, NEW span, NEW b, NEW first, NEW D, \A k \in DOMAIN F : h[k].at \in D
  PROVE  Kept(F, h, N, span, b, first, D)
BY DEF Kept

LEMMA KeptSame ==
  ASSUME NEW F, NEW h, NEW g, NEW N, NEW span, NEW b, NEW first, NEW D, NEW E,
         Kept(F, h, N, span, b, first, D), \A k \in DOMAIN F : g[k].at = h[k].at, D \subseteq E
  PROVE  Kept(F, g, N, span, b, first, E)
BY DEF Kept

\* One thing more, in the window or in a new one: if the window is full, it is due.
LEMMA KeptMore ==
  ASSUME NEW F, NEW h, NEW G, NEW g, NEW x, NEW t, IsTimeline(F, h), Extends(G, g, F, h, x, t),
         NEW N \in Nat \ {0}, NEW span \in Nat, NEW b \in Nat, NEW first \in Int, NEW D, NEW E,
         IsDown(E), D \subseteq E, Kept(F, h, N, span, b, first, D), NEW c \in Nat, NEW since \in Int,
         \/ (c = b /\ since = first /\ t >= first /\ b <= x)
         \/ (c = x /\ since = t /\ (DOMAIN F = {} \/ t - first > span)),
         Cardinality(From(G, c)) >= N => t \in E
  PROVE  Kept(G, g, N, span, c, since, E)
<1>1. IsTimeline(G, g) /\ x \in DOMAIN G /\ x \in Nat /\ t \in Int /\ c \in Nat /\ c - 1 \in Int
  <2>1. IsTimeline(G, g)
    BY ExtendedTimeline
  <2>2. x \in DOMAIN G /\ x \in Nat /\ t \in Int
    BY DEF Extends
  <2>3. c \in Nat
    BY <2>2
  <2> QED BY <2>1, <2>2, <2>3
<1>2. \A k \in DOMAIN G : k \in Nat /\ g[k].at \in Int /\ g[k].at <= t
  BY <1>1 DEF IsTimeline, Extends
<1>3. \A k \in DOMAIN G : k # x => k \in DOMAIN F /\ k < x /\ g[k].at = h[k].at
  BY DEF Extends
<1>4. PartsFit(F) /\ PartsFit(G)
  BY <1>1, Parts DEF IsTimeline
<1>5. CASE t \in E
  <2>1. \A k \in DOMAIN G : g[k].at \in E
    BY <1>2, <1>5 DEF IsDown
  <2> QED BY <2>1, AllAreDue
<1>6. CASE t \notin E
  <2>1. Cardinality(From(G, c)) < N
    <3>1. Cardinality(From(G, c)) \in Nat
      BY <1>1, <1>4 DEF PartsFit
    <3> QED BY <3>1, <1>6
  <2>2. \A m \in DOMAIN G : m >= c => Cardinality(From(G, m)) < N
    <3>1. \A m \in DOMAIN G : m >= c => /\ Cardinality(From(G, m)) <= Cardinality(From(G, c))
                                        /\ Cardinality(From(G, m)) \in Nat /\ Cardinality(From(G, c)) \in Nat
      BY <1>1, <1>2, <1>4 DEF PartsFit
    <3> QED BY <3>1, <2>1
  <2>3. \A m, n \in DOMAIN G : m >= c => Cardinality(Between(G, m, n)) < 2 * N - 1
    <3>1. \A m, n \in DOMAIN G : m >= c => /\ Cardinality(Between(G, m, n)) <= Cardinality(From(G, m))
                                           /\ Cardinality(Between(G, m, n)) \in Nat /\ Cardinality(From(G, m)) \in Nat
      BY <1>1, <1>2, <1>4 DEF PartsFit
    <3> QED BY <3>1, <2>2
  <2>4. \A m, n \in DOMAIN G : Cardinality(Between(G, m, n)) >= 2 * N - 1 => Cardinality(Between(G, m, c - 1)) >= N
    <3>1. \A m, n \in DOMAIN G : /\ Cardinality(Between(G, m, n)) <= Cardinality(Between(G, m, c - 1)) + Cardinality(From(G, c))
                                 /\ Cardinality(Between(G, m, n)) \in Nat /\ Cardinality(From(G, c)) \in Nat
      <4>1. (\A m \in DOMAIN G : m \in Int) /\ c \in Int
        BY <1>2
      <4> QED BY <4>1, <1>4, Zenon DEF PartsFit
    <3>2. \A m \in DOMAIN G : Cardinality(Between(G, m, c - 1)) \in Nat
      BY <1>1, <1>2, <1>4 DEF PartsFit
    <3> SUFFICES ASSUME NEW m \in DOMAIN G, NEW n \in DOMAIN G, Cardinality(Between(G, m, n)) >= 2 * N - 1
                 PROVE  Cardinality(Between(G, m, c - 1)) >= N
      OBVIOUS
    <3>3. /\ Cardinality(Between(G, m, n)) <= Cardinality(Between(G, m, c - 1)) + Cardinality(From(G, c))
          /\ Cardinality(Between(G, m, n)) \in Nat /\ Cardinality(From(G, c)) \in Nat
          /\ Cardinality(Between(G, m, c - 1)) \in Nat
      BY <3>1, <3>2
    <3> QED BY <3>3, <2>1
  <2>5. \A m \in DOMAIN F, n \in Int : n < x => Between(G, m, n) = Between(F, m, n)
    BY EarlierPlaces DEF IsTimeline
  <2>6. ASSUME NEW m \in DOMAIN G, NEW n \in DOMAIN G, m <= n, n # x, g[n].at - g[m].at <= span,
               Cardinality(Between(G, m, n)) >= 2 * N - 1
        PROVE  g[m].at \in E
    <3>1. m \in DOMAIN F /\ n \in DOMAIN F /\ n < x /\ g[m].at = h[m].at /\ g[n].at = h[n].at
      BY <1>2, <1>3, <2>6
    <3> QED BY <3>1, <1>2, <2>5, <2>6 DEF Kept
  <2>7. \A m \in DOMAIN G : m >= c /\ Cardinality(From(G, m)) >= N => g[m].at \in E
    <3>1. \A m \in DOMAIN G : Cardinality(From(G, m)) \in Nat
      BY <1>1, <1>2, <1>4 DEF PartsFit
    <3> QED BY <3>1, <2>2
  <2>8. CASE c = b /\ since = first /\ t >= first /\ b <= x
    <3>1. \A m \in DOMAIN G : m < c => m \in DOMAIN F /\ g[m].at = h[m].at /\ Between(G, m, c - 1) = Between(F, m, c - 1)
      BY <1>1, <1>2, <1>3, <2>5, <2>8
    <3>2. ASSUME NEW m \in DOMAIN G, m < c, g[m].at >= first - span, Cardinality(Between(G, m, c - 1)) >= N
          PROVE  g[m].at \in E
      BY <3>1, <3>2, <2>8 DEF Kept
    <3>3. ASSUME NEW m \in DOMAIN G, NEW n \in DOMAIN G, n = x, g[n].at - g[m].at <= span,
                 Cardinality(Between(G, m, n)) >= 2 * N - 1
          PROVE  g[m].at \in E
      <4>1. m < c
        <5>1. ~(Cardinality(Between(G, m, n)) < 2 * N - 1)
          <6>1. Cardinality(Between(G, m, n)) \in Nat
            BY <1>1, <1>2, <1>4 DEF PartsFit
          <6> QED BY <6>1, <3>3
        <5> QED BY <5>1, <2>3, <1>1, <1>2
      <4>2. g[m].at >= first - span
        BY <3>3, <2>8, <1>2 DEF Extends
      <4> QED BY <3>2, <3>3, <4>1, <4>2, <2>4
    <3>4. \A k \in DOMAIN G : k < c => g[k].at <= since \/ g[k].at \in E
      BY <3>1, <2>8 DEF Kept
    <3>5. \A m, n \in DOMAIN G :
            m <= n /\ g[n].at - g[m].at <= span /\ Cardinality(Between(G, m, n)) >= 2 * N - 1 => g[m].at \in E
      BY <2>6, <3>3
    <3>6. \A m \in DOMAIN G : m < c /\ g[m].at >= since - span /\ Cardinality(Between(G, m, c - 1)) >= N => g[m].at \in E
      BY <3>2, <2>8
    <3> QED BY <2>7, <3>4, <3>5, <3>6 DEF Kept
  <2>9. CASE c = x /\ since = t /\ (DOMAIN F = {} \/ t - first > span)
    <3>1. ASSUME NEW m \in DOMAIN G, m < x, g[m].at >= t - span, Cardinality(Between(G, m, x - 1)) >= N
          PROVE  g[m].at \in E
      <4>1. m \in DOMAIN F /\ g[m].at = h[m].at /\ h[m].at > first
        <5>1. m \in DOMAIN F /\ g[m].at = h[m].at /\ g[m].at \in Int
          BY <3>1, <1>1, <1>2, <1>3
        <5>2. t - first > span
          BY <5>1, <2>9
        <5> QED BY <5>1, <5>2, <3>1, <1>1
      <4>2. CASE m < b
        BY <4>1, <4>2, <1>2 DEF Kept
      <4>3. CASE m >= b
        <5>1. Between(G, m, x - 1) = Between(F, m, x - 1)
          BY <4>1, <1>1, <2>5
        <5>2. x - 1 \in Nat /\ m \in Nat
          BY <3>1, <1>1, <1>2
        <5>3. /\ Cardinality(Between(F, m, x - 1)) <= Cardinality(From(F, m))
              /\ Cardinality(Between(F, m, x - 1)) \in Nat /\ Cardinality(From(F, m)) \in Nat
          BY <5>2, <1>4 DEF PartsFit
        <5>4. Cardinality(From(F, m)) >= N
          BY <5>1, <5>3, <3>1
        <5> QED BY <4>1, <4>3, <5>4 DEF Kept
      <4> QED BY <4>2, <4>3, <1>2
    <3>2. ASSUME NEW m \in DOMAIN G, NEW n \in DOMAIN G, n = x, g[n].at - g[m].at <= span,
                 Cardinality(Between(G, m, n)) >= 2 * N - 1
          PROVE  g[m].at \in E
      <4>1. Cardinality(Between(G, m, x - 1)) >= N
        BY <3>2, <2>4, <2>9
      <4>2. m # x
        <5>1. ~(Cardinality(Between(G, m, n)) < 2 * N - 1)
          <6>1. Cardinality(Between(G, m, n)) \in Nat
            BY <1>1, <1>2, <1>4 DEF PartsFit
          <6> QED BY <6>1, <3>2
        <5> QED BY <5>1, <2>3, <2>9, <1>1
      <4>3. m < x /\ g[m].at >= t - span
        BY <3>2, <4>2, <1>2, <1>3 DEF Extends
      <4> QED BY <3>1, <4>1, <4>3
    <3>3. \A m \in DOMAIN G : m < c /\ g[m].at >= since - span /\ Cardinality(Between(G, m, c - 1)) >= N => g[m].at \in E
      BY <3>1, <2>9
    <3>4. \A k \in DOMAIN G : k < c => g[k].at <= since \/ g[k].at \in E
      BY <1>2, <2>9
    <3>5. \A m, n \in DOMAIN G :
            m <= n /\ g[n].at - g[m].at <= span /\ Cardinality(Between(G, m, n)) >= 2 * N - 1 => g[m].at \in E
      BY <2>6, <3>2
    <3> QED BY <2>7, <3>3, <3>4, <3>5 DEF Kept
  <2> QED BY <2>8, <2>9
<1> QED BY <1>5, <1>6

-----------------------------------------------------------------------------
(* What a window that is judged when it is over keeps *)

Closed(F, h, N, span, b, first, D) ==
  /\ \A m, n \in DOMAIN F :
       m <= n /\ n < b /\ h[n].at - h[m].at <= span /\ Cardinality(Between(F, m, n)) >= 2 * N - 1 => h[m].at \in D
  /\ \A m \in DOMAIN F :
       m < b /\ h[m].at >= first - span /\ Cardinality(Between(F, m, b - 1)) >= N => h[m].at \in D
  /\ \A k \in DOMAIN F : k < b => h[k].at <= first
  /\ \A k \in DOMAIN F : k >= b => h[k].at >= first /\ h[k].at <= first + span

LEMMA ClosedSame ==
  ASSUME NEW F, NEW h, NEW g, NEW N, NEW span, NEW b, NEW first, NEW D, NEW E,
         Closed(F, h, N, span, b, first, D), \A k \in DOMAIN F : g[k].at = h[k].at, D \subseteq E
  PROVE  Closed(F, g, N, span, b, first, E)
BY DEF Closed

\* One thing more, in the window or in a new one; then a full window is due.
LEMMA ClosedMore ==
  ASSUME NEW F, NEW h, NEW G, NEW g, NEW x, NEW t, IsTimeline(F, h), Extends(G, g, F, h, x, t),
         NEW N \in Nat \ {0}, NEW span \in Nat, NEW b \in Nat, NEW first \in Int, NEW D, NEW E, D \subseteq E,
         Closed(F, h, N, span, b, first, D), NEW c \in Nat, NEW since \in Int,
         \/ (c = b /\ since = first /\ t >= first /\ t - first <= span /\ b <= x)
         \/ (c = x /\ since = t /\ (DOMAIN F = {} \/ t - first > span)
             /\ (Cardinality(From(F, b)) >= N => \A k \in DOMAIN F : h[k].at \in E))
  PROVE  Closed(G, g, N, span, c, since, E)
<1>1. IsTimeline(G, g) /\ x \in DOMAIN G /\ x \in Nat /\ t \in Int
  <2>1. IsTimeline(G, g)
    BY ExtendedTimeline
  <2> QED BY <2>1 DEF Extends
<1>2. \A k \in DOMAIN G : k \in Nat /\ g[k].at \in Int /\ g[k].at <= t
  BY <1>1 DEF IsTimeline, Extends
<1>3. \A k \in DOMAIN G : k # x => k \in DOMAIN F /\ k < x /\ g[k].at = h[k].at
  BY DEF Extends
<1>4. PartsFit(F)
  BY Parts DEF IsTimeline
<1>5. \A m \in DOMAIN F, n \in Int : n < x => Between(G, m, n) = Between(F, m, n)
  BY EarlierPlaces DEF IsTimeline
<1>6. \A k \in DOMAIN F : k \in Int /\ h[k].at \in Int
  BY DEF IsTimeline
<1>7. CASE c = b /\ since = first /\ t >= first /\ t - first <= span /\ b <= x
  <2>1. \A k \in DOMAIN G : k < c => k \in DOMAIN F /\ k < x /\ g[k].at = h[k].at
    BY <1>1, <1>2, <1>3, <1>7
  <2>2. \A m, n \in DOMAIN G : n < c /\ m <= n /\ g[n].at - g[m].at <= span /\ Cardinality(Between(G, m, n)) >= 2 * N - 1
                               => g[m].at \in E
    <3> SUFFICES ASSUME NEW m \in DOMAIN G, NEW n \in DOMAIN G, n < c, m <= n, g[n].at - g[m].at <= span,
                        Cardinality(Between(G, m, n)) >= 2 * N - 1
                 PROVE  g[m].at \in E
      OBVIOUS
    <3>1. m < c
      BY <1>2
    <3>2. Between(G, m, n) = Between(F, m, n)
      BY <3>1, <2>1, <1>5, <1>6
    <3> QED BY <3>1, <3>2, <2>1, <1>7 DEF Closed
  <2>3. \A m \in DOMAIN G : m < c /\ g[m].at >= since - span /\ Cardinality(Between(G, m, c - 1)) >= N => g[m].at \in E
    <3> SUFFICES ASSUME NEW m \in DOMAIN G, m < c, g[m].at >= since - span, Cardinality(Between(G, m, c - 1)) >= N
                 PROVE  g[m].at \in E
      OBVIOUS
    <3>1. c - 1 \in Int /\ c - 1 < x
      BY <1>1, <1>7
    <3>2. Between(G, m, c - 1) = Between(F, m, c - 1)
      BY <3>1, <2>1, <1>5
    <3> QED BY <3>2, <2>1, <1>7 DEF Closed
  <2>4. \A k \in DOMAIN G : k < c => g[k].at <= since
    BY <2>1, <1>7 DEF Closed
  <2>5. \A k \in DOMAIN G : k >= c => g[k].at >= since /\ g[k].at <= since + span
    <3> SUFFICES ASSUME NEW k \in DOMAIN G, k >= c PROVE g[k].at >= since /\ g[k].at <= since + span
      OBVIOUS
    <3>1. CASE k = x
      BY <3>1, <1>1, <1>7 DEF Extends
    <3>2. CASE k # x
      BY <3>2, <1>3, <1>7 DEF Closed
    <3> QED BY <3>1, <3>2
  <2> QED BY <2>2, <2>3, <2>4, <2>5 DEF Closed
<1>8. CASE c = x /\ since = t /\ (DOMAIN F = {} \/ t - first > span)
           /\ (Cardinality(From(F, b)) >= N => \A k \in DOMAIN F : h[k].at \in E)
  <2>1. \A k \in DOMAIN G : k < x => k \in DOMAIN F /\ g[k].at = h[k].at
    BY <1>1, <1>2, <1>3
  <2>2. ASSUME NEW m \in DOMAIN G, NEW n \in DOMAIN G, n < c, m <= n, g[n].at - g[m].at <= span,
               Cardinality(Between(G, m, n)) >= 2 * N - 1
        PROVE  g[m].at \in E
    <3>1. m < x /\ m \in DOMAIN F /\ n \in DOMAIN F /\ g[m].at = h[m].at /\ g[n].at = h[n].at
      BY <1>2, <2>1, <2>2, <1>8
    <3>2. Between(G, m, n) = Between(F, m, n)
      BY <3>1, <2>2, <1>5, <1>6, <1>8
    <3>3. CASE n < b
      BY <3>1, <3>2, <3>3, <2>2 DEF Closed
    <3>4. CASE n >= b /\ Cardinality(From(F, b)) < N
      <4>1. h[m].at >= first - span
        <5>1. h[n].at >= first
          BY <3>1, <3>4 DEF Closed
        <5> QED BY <5>1, <3>1, <2>2, <1>6
      <4>2. /\ Cardinality(Between(F, m, n)) <= Cardinality(Between(F, m, b - 1)) + Cardinality(From(F, b))
            /\ Cardinality(Between(F, m, n)) \in Nat /\ Cardinality(From(F, b)) \in Nat /\ Cardinality(Between(F, m, b - 1)) \in Nat
            /\ Cardinality(Between(F, m, n)) <= Cardinality(From(F, m)) /\ Cardinality(From(F, m)) \in Nat
            /\ b <= m => Cardinality(From(F, m)) <= Cardinality(From(F, b))
        <5>1. m \in Int /\ n \in Int /\ b \in Int /\ b - 1 \in Int
          BY <3>1, <1>6
        <5> QED BY <5>1, <1>4, Zenon DEF PartsFit
      <4>3. Cardinality(Between(F, m, b - 1)) >= N
        BY <4>2, <3>2, <3>4, <2>2
      <4>4. m < b
        <5>1. Cardinality(From(F, m)) >= N
          BY <4>2, <3>2, <2>2
        <5>2. ~(b <= m)
          BY <5>1, <4>2, <3>4
        <5>3. m \in Int /\ b \in Int
          BY <3>1, <1>6
        <5> QED BY <5>2, <5>3
      <4> QED BY <4>1, <4>3, <4>4, <3>1 DEF Closed
    <3>5. CASE Cardinality(From(F, b)) >= N
      BY <3>1, <3>5, <1>8
    <3>6. Cardinality(From(F, b)) \in Nat
      BY <1>4 DEF PartsFit
    <3>7. n \in Int /\ Cardinality(From(F, b)) \in Int
      BY <3>1, <3>6, <1>6
    <3> QED BY <3>3, <3>4, <3>5, <3>7
  <2>3. ASSUME NEW m \in DOMAIN G, m < c, g[m].at >= since - span, Cardinality(Between(G, m, c - 1)) >= N
        PROVE  g[m].at \in E
    <3>1. m \in DOMAIN F /\ g[m].at = h[m].at /\ m \in Int /\ h[m].at \in Int
      BY <2>1, <2>3, <1>6, <1>8
    <3>2. h[m].at > first
      BY <3>1, <2>3, <1>1, <1>8
    <3>3. m >= b
      BY <3>1, <3>2 DEF Closed
    <3>4. Between(G, m, c - 1) = Between(F, m, c - 1)
      BY <3>1, <1>1, <1>5, <1>8
    <3>5. /\ Cardinality(Between(F, m, c - 1)) \in Nat /\ Cardinality(From(F, b)) \in Nat /\ Cardinality(From(F, m)) \in Nat
          /\ Cardinality(Between(F, m, c - 1)) <= Cardinality(From(F, m)) /\ Cardinality(From(F, m)) <= Cardinality(From(F, b))
      <4>1. m \in Int /\ c - 1 \in Int /\ b \in Int /\ b <= m
        BY <3>1, <3>3
      <4> QED BY <4>1, <1>4, Zenon DEF PartsFit
    <3>6. Cardinality(From(F, b)) >= N
      BY <3>4, <3>5, <2>3
    <3> QED BY <3>1, <3>6, <1>8
  <2>4. \A k \in DOMAIN G : k < c => g[k].at <= since
    BY <1>2, <1>8
  <2>5. \A k \in DOMAIN G : k >= c => g[k].at >= since /\ g[k].at <= since + span
    <3> SUFFICES ASSUME NEW k \in DOMAIN G, k >= c PROVE g[k].at >= since /\ g[k].at <= since + span
      OBVIOUS
    <3>1. k = x
      BY <1>2, <1>3, <1>8
    <3> QED BY <3>1, <1>1, <1>8 DEF Extends
  <2>6. \A m, n \in DOMAIN G : m <= n /\ n < c /\ g[n].at - g[m].at <= span /\ Cardinality(Between(G, m, n)) >= 2 * N - 1
                               => g[m].at \in E
    BY <2>2
  <2>7. \A m \in DOMAIN G : m < c /\ g[m].at >= since - span /\ Cardinality(Between(G, m, c - 1)) >= N => g[m].at \in E
    BY <2>3
  <2> QED BY <2>4, <2>5, <2>6, <2>7 DEF Closed
<1> QED BY <1>7, <1>8

\* What something comes a span after is in a window that is over.
LEMMA ClosedIsDue ==
  ASSUME NEW F, NEW h, IsTimeline(F, h), NEW N \in Nat \ {0}, NEW span \in Nat, NEW b \in Nat, NEW first \in Int, NEW D,
         Closed(F, h, N, span, b, first, D), NEW m \in DOMAIN F, NEW n \in DOMAIN F, NEW l \in DOMAIN F,
         m <= n, h[n].at - h[m].at <= span, Cardinality(Between(F, m, n)) >= 2 * N - 1, h[l].at - h[n].at >= span + 1
  PROVE  h[m].at \in D
<1>1. \A k \in DOMAIN F : k \in Int /\ h[k].at \in Int
  BY DEF IsTimeline
<1>2. n < l
  BY <1>1 DEF IsTimeline
<1>3. n < b
  BY <1>1, <1>2 DEF Closed
<1> QED BY <1>3 DEF Closed

-----------------------------------------------------------------------------
(* Windows *)

\* A window that counts from place b, of things before place x and time t.
Fits(w, F, x, t, b) ==
  /\ b \in Nat /\ b <= x
  /\ w.first \in Int /\ w.first <= t /\ (w.first = Never => DOMAIN F = {})

\* From where the window counts that a thing at place x and time t falls into.
Start(w, b, x, t, span) == IF Over(w, t, span) THEN x ELSE b

LEMMA WindowIs ==
  ASSUME NEW w, NEW what, NEW t, NEW span
  PROVE  InWindow(w, what, t, span) = IF Over(w, t, span) THEN [first |-> t, count |-> 1, kinds |-> {what}]
                                      ELSE [first |-> w.first, count |-> w.count + 1, kinds |-> w.kinds \cup {what}]
<1>1. [Empty EXCEPT !.first = t] = [first |-> t, count |-> 0, kinds |-> {}]
  BY DEF Empty
<1>2. Counted([first |-> t, count |-> 0, kinds |-> {}], what) = [first |-> t, count |-> 1, kinds |-> {what}]
  BY DEF Counted
<1> QED BY <1>1, <1>2 DEF InWindow, Counted

\* The window that a thing falls into is the same or a new one.
Moves(w, v, F, x, t, b, c, span) ==
  \/ (c = b /\ v.first = w.first /\ t >= w.first /\ t - w.first <= span /\ b <= x)
  \/ (c = x /\ v.first = t /\ (DOMAIN F = {} \/ t - w.first > span))

LEMMA StartFits ==
  ASSUME NEW F, NEW h, NEW G, NEW g, NEW x, NEW t, t # Never, Extends(G, g, F, h, x, t), NEW w, NEW b, Fits(w, F, x, t, b),
         NEW span \in Int, NEW what, NEW v, v = InWindow(w, what, t, span), NEW c, c = Start(w, b, x, t, span)
  PROVE  Fits(v, G, x + 1, t, c) /\ Moves(w, v, F, x, t, b, c, span) /\ c \in Nat /\ v.first \in Int
<1>1. v = IF Over(w, t, span) THEN [first |-> t, count |-> 1, kinds |-> {what}]
          ELSE [first |-> w.first, count |-> w.count + 1, kinds |-> w.kinds \cup {what}]
  BY WindowIs
<1>2. x \in Nat /\ t \in Int /\ b \in Nat /\ b <= x /\ w.first \in Int /\ w.first <= t /\ (w.first = Never => DOMAIN F = {})
  BY DEF Extends, Fits
<1>3. CASE Over(w, t, span)
  <2>1. c = x /\ v = [first |-> t, count |-> 1, kinds |-> {what}]
    BY <1>1, <1>3 DEF Start
  <2>2. DOMAIN F = {} \/ t - w.first > span
    BY <1>2, <1>3 DEF Over
  <2> QED BY <1>2, <2>1, <2>2 DEF Fits, Moves
<1>4. CASE ~Over(w, t, span)
  <2>1. c = b /\ v = [first |-> w.first, count |-> w.count + 1, kinds |-> w.kinds \cup {what}]
    BY <1>1, <1>4 DEF Start
  <2>2. w.first # Never /\ t - w.first <= span
    BY <1>2, <1>4 DEF Over
  <2> QED BY <1>2, <2>1, <2>2 DEF Fits, Moves
<1> QED BY <1>3, <1>4

LEMMA StartLists ==
  ASSUME NEW F, NEW h, NEW G, NEW g, NEW x, NEW t, Extends(G, g, F, h, x, t), DOMAIN F \subseteq Nat,
         NEW w, NEW b, Fits(w, F, x, t, b), w.kinds = From(F, b),
         NEW span \in Int, NEW v, v = InWindow(w, G[x], t, span), NEW c, c = Start(w, b, x, t, span)
  PROVE  v.kinds = From(G, c)
<1>1. v = IF Over(w, t, span) THEN [first |-> t, count |-> 1, kinds |-> {G[x]}]
          ELSE [first |-> w.first, count |-> w.count + 1, kinds |-> w.kinds \cup {G[x]}]
  BY WindowIs
<1>2. {j \in DOMAIN G : j >= x} = {x} /\ {j \in DOMAIN G : j >= b} = {j \in DOMAIN F : j >= b} \cup {x}
  BY DEF Extends, Fits
<1>3. \A k \in {j \in DOMAIN F : j >= b} : G[k] = F[k]
  BY DEF Extends
<1>4. From(G, x) = {G[x]} /\ From(G, b) = From(F, b) \cup {G[x]}
  BY <1>2, <1>3 DEF From
<1>5. CASE Over(w, t, span)
  <2>1. c = x /\ v.kinds = {G[x]}
    BY <1>1, <1>5 DEF Start
  <2> QED BY <2>1, <1>4
<1>6. CASE ~Over(w, t, span)
  <2>1. c = b /\ v.kinds = w.kinds \cup {G[x]}
    BY <1>1, <1>6 DEF Start
  <2> QED BY <2>1, <1>4
<1> QED BY <1>5, <1>6

LEMMA FromEach ==
  ASSUME NEW P, NEW b
  PROVE  From(Each(P), b) = {j \in P : j >= b} /\ DOMAIN Each(P) = P
BY DEF From, Each

Counts(P, Q, h, g, x, t, w, b, span) ==
  /\ IsFiniteSet(P) /\ P \subseteq Nat /\ Extends(Each(Q), g, Each(P), h, x, t)
  /\ Fits(w, Each(P), x, t, b) /\ w.count = Cardinality(From(Each(P), b)) /\ span \in Int

LEMMA WindowCounts ==
  ASSUME NEW P, NEW Q, NEW h, NEW g, NEW x, NEW t, NEW w, NEW b, NEW span, NEW what, Counts(P, Q, h, g, x, t, w, b, span)
  PROVE  InWindow(w, what, t, span).count = Cardinality(From(Each(Q), Start(w, b, x, t, span)))
<1> DEFINE v == InWindow(w, what, t, span)
           c == Start(w, b, x, t, span)
<1>0. /\ IsFiniteSet(P) /\ P \subseteq Nat /\ Extends(Each(Q), g, Each(P), h, x, t)
      /\ Fits(w, Each(P), x, t, b) /\ w.count = Cardinality(From(Each(P), b)) /\ span \in Int
  BY DEF Counts
<1>1. v = IF Over(w, t, span) THEN [first |-> t, count |-> 1, kinds |-> {what}]
          ELSE [first |-> w.first, count |-> w.count + 1, kinds |-> w.kinds \cup {what}]
  BY WindowIs
<1>2. Q = P \cup {x} /\ (\A k \in P : k < x) /\ x \in Nat /\ b \in Nat /\ b <= x
  BY <1>0, FromEach DEF Extends, Fits
<1>3. {j \in Q : j >= x} = {x} /\ {j \in Q : j >= b} = {j \in P : j >= b} \cup {x} /\ x \notin {j \in P : j >= b}
  <2>1. \A j \in P : j \in Nat /\ j < x
    BY <1>0, <1>2
  <2>2. {j \in Q : j >= x} = {x}
    <3>1. \A j \in P : ~(j >= x)
      BY <1>2, <2>1
    <3>2. x >= x
      BY <1>2
    <3>3. \A j \in Q : j \in P \/ j = x
      BY <1>2
    <3>4. x \in Q
      BY <1>2
    <3> QED BY <3>1, <3>2, <3>3, <3>4, Zenon
  <2>3. x \notin P
    BY <1>2, <2>1
  <2>4. x \in Q /\ x >= b /\ \A j \in Q : j \in P \/ j = x
    BY <1>2
  <2> QED BY <1>2, <2>2, <2>3, <2>4
<1>4. IsFiniteSet({j \in P : j >= b})
  BY <1>0, FS_Subset
<1>5. Cardinality({j \in Q : j >= b}) = Cardinality({j \in P : j >= b}) + 1
  BY <1>3, <1>4, FS_AddElement
<1>6. Cardinality({j \in Q : j >= x}) = 1
  BY <1>3, FS_Singleton
<1>7. From(Each(Q), c) = {j \in Q : j >= c} /\ From(Each(P), b) = {j \in P : j >= b}
  BY FromEach
<1>8. CASE Over(w, t, span)
  BY <1>1, <1>6, <1>7, <1>8 DEF Start
<1>9. CASE ~Over(w, t, span)
  BY <1>0, <1>1, <1>5, <1>7, <1>9 DEF Start
<1> QED BY <1>8, <1>9

\* The same, of windows.
Falls(F, h, G, g, x, t, w, v, b, c, span) ==
  /\ IsTimeline(F, h) /\ Extends(G, g, F, h, x, t) /\ span \in Nat /\ b \in Nat /\ c \in Nat
  /\ w.first \in Int /\ v.first \in Int /\ Moves(w, v, F, x, t, b, c, span)

LEMMA FallsKept ==
  ASSUME NEW F, NEW h, NEW G, NEW g, NEW x, NEW t, NEW w, NEW v, NEW b, NEW c, NEW span,
         Falls(F, h, G, g, x, t, w, v, b, c, span), NEW N \in Nat \ {0}, NEW D, IsDown(D),
         Kept(F, h, N, span, b, w.first, D), Cardinality(From(G, c)) >= N => t \in D
  PROVE  Kept(G, g, N, span, c, v.first, D)
<1>1. \/ (c = b /\ v.first = w.first /\ t >= w.first /\ b <= x)
      \/ (c = x /\ v.first = t /\ (DOMAIN F = {} \/ t - w.first > span))
  BY DEF Falls, Moves
<1>2. /\ IsTimeline(F, h) /\ Extends(G, g, F, h, x, t) /\ span \in Nat /\ b \in Nat /\ c \in Nat
      /\ w.first \in Int /\ v.first \in Int
  BY DEF Falls
<1> QED BY <1>1, <1>2, KeptMore

LEMMA FallsClosed ==
  ASSUME NEW F, NEW h, NEW G, NEW g, NEW x, NEW t, NEW w, NEW v, NEW b, NEW c, NEW span,
         Falls(F, h, G, g, x, t, w, v, b, c, span), NEW N \in Nat \ {0}, NEW D, NEW E, D \subseteq E,
         Closed(F, h, N, span, b, w.first, D),
         Over(w, t, span) /\ Cardinality(From(F, b)) >= N => \A k \in DOMAIN F : h[k].at \in E
  PROVE  Closed(G, g, N, span, c, v.first, E)
<1>1. /\ IsTimeline(F, h) /\ Extends(G, g, F, h, x, t) /\ span \in Nat /\ b \in Nat /\ c \in Nat
      /\ w.first \in Int /\ v.first \in Int
  BY DEF Falls
<1>2. \/ (c = b /\ v.first = w.first /\ t >= w.first /\ t - w.first <= span /\ b <= x)
      \/ (c = x /\ v.first = t /\ (DOMAIN F = {} \/ t - w.first > span)
          /\ (Cardinality(From(F, b)) >= N => \A k \in DOMAIN F : h[k].at \in E))
  BY DEF Falls, Moves, Over
<1> QED BY <1>1, <1>2, ClosedMore

-----------------------------------------------------------------------------
(* What is heard and reported *)

Sorts == {"failure", "lockout", "request", "syn", "query", "packet"}
Said == Usernames \cup Ports \cup BOOLEAN \cup {0, ""} \cup {r.endpoint : r \in ApiRequests}
Message == [kind : Sorts \cup {"forgotten"}, ip : Addresses \cup {""}, what : Said, at : Int]

ReportsOK == \A r \in reports : r.at \in Int /\ r.at <= now

WatchOK ==
  /\ now \in Nat /\ heard \in Seq(Message) /\ ReportsOK
  /\ \A k \in DOMAIN heard : heard[k].at <= now
  /\ \A j, k \in DOMAIN heard : j <= k /\ heard[j].kind \in Sorts /\ heard[k].kind \in Sorts => heard[j].at <= heard[k].at

\* The times of which an alert was given less than a rest before, or since.
DueIn(R, kinds, ip, rest) == {t \in Int : \E r \in R : r.kind \in kinds /\ r.ip = ip /\ r.at > t - rest}

LEMMA DueIsDown ==
  ASSUME NEW R, \A r \in R : r.at \in Int, NEW kinds, NEW ip, NEW rest \in Int
  PROVE  IsDown(DueIn(R, kinds, ip, rest))
BY DEF IsDown, DueIn

LEMMA Raising ==
  ASSUME NEW alerts, Raise(alerts), \A r \in reports : r.at \in Int, \A a \in alerts : a.at \in Int,
         \A a \in alerts, r \in reports : a.kind = r.kind /\ a.ip = r.ip => r.at <= a.at
  PROVE  /\ \A r \in reports' : r \in reports \/ r \in alerts
         /\ \A kinds, ip, rest : rest \in Int => DueIn(reports, kinds, ip, rest) \subseteq DueIn(reports', kinds, ip, rest)
         /\ \A r \in reports : \E s \in reports' : s.kind = r.kind /\ s.ip = r.ip /\ s.at >= r.at
         /\ \A a \in alerts : a \in reports'
<1>1. reports' = {r \in reports : \A a \in alerts : <<r.kind, r.ip>> # <<a.kind, a.ip>>} \cup alerts
  BY DEF Raise
<1>2. ASSUME NEW r \in reports PROVE \E s \in reports' : s.kind = r.kind /\ s.ip = r.ip /\ s.at >= r.at /\ s.at \in Int
  <2>1. CASE \A a \in alerts : <<r.kind, r.ip>> # <<a.kind, a.ip>>
    BY <1>1, <2>1
  <2>2. CASE \E a \in alerts : r.kind = a.kind /\ r.ip = a.ip
    <3>1. PICK a \in alerts : r.kind = a.kind /\ r.ip = a.ip
      BY <2>2
    <3>2. a.at >= r.at /\ a \in reports' /\ a.at \in Int
      BY <1>1, <3>1
    <3> QED BY <3>1, <3>2
  <2> QED BY <2>1, <2>2
<1>3. ASSUME NEW kinds, NEW ip, NEW rest \in Int, NEW t \in DueIn(reports, kinds, ip, rest)
      PROVE  t \in DueIn(reports', kinds, ip, rest)
  <2>1. PICK r \in reports : r.kind \in kinds /\ r.ip = ip /\ r.at > t - rest
    BY DEF DueIn
  <2>2. PICK s \in reports' : s.kind = r.kind /\ s.ip = r.ip /\ s.at >= r.at /\ s.at \in Int
    BY <1>2
  <2>3. t \in Int /\ r.at \in Int
    BY DEF DueIn
  <2>4. s.at > t - rest
    BY <2>1, <2>2, <2>3
  <2> QED BY <2>1, <2>2, <2>3, <2>4 DEF DueIn
<1> QED BY <1>1, <1>2, <1>3

LEMMA Timelines ==
  ASSUME WatchOK, NEW kind \in Sorts, NEW ip
  PROVE  /\ IsTimeline(Each(Of(kind, ip)), heard) /\ IsTimeline(Whats(Of(kind, ip)), heard)
         /\ DOMAIN Each(Of(kind, ip)) = Of(kind, ip) /\ DOMAIN Whats(Of(kind, ip)) = Of(kind, ip)
         /\ Of(kind, ip) \subseteq DOMAIN heard
<1> DEFINE P == Of(kind, ip)
<1>1. DOMAIN heard = 1..Len(heard) /\ Len(heard) \in Nat /\ \A k \in DOMAIN heard : heard[k].at \in Int
  <2>1. heard \in Seq(Message)
    BY DEF WatchOK
  <2>2. DOMAIN heard = 1..Len(heard) /\ Len(heard) \in Nat /\ \A k \in DOMAIN heard : heard[k] \in Message
    BY <2>1
  <2>3. \A m \in Message : m.at \in Int
    BY DEF Message
  <2> QED BY <2>2, <2>3
<1>2. P \in SUBSET (1..Len(heard)) /\ \A n \in P : heard[n].kind \in Sorts
  BY <1>1 DEF Of
<1>3. IsFiniteSet(P)
  <2>1. IsFiniteSet(1..Len(heard))
    <3>1. 1 \in Int /\ Len(heard) \in Int
      BY <1>1
    <3> QED BY <3>1, FS_Interval
  <2> QED BY <1>2, <2>1, FS_Subset
<1>4. DOMAIN Each(P) = P /\ DOMAIN Whats(P) = P
  BY DEF Each, Whats
<1>5. P \subseteq Nat /\ (\A k \in P : heard[k].at \in Int) /\ \A j, k \in P : j <= k => heard[j].at <= heard[k].at
  BY <1>1, <1>2 DEF WatchOK
<1> HIDE DEF P
<1>6. IsTimeline(Each(P), heard) /\ IsTimeline(Whats(P), heard) /\ P \subseteq DOMAIN heard
  BY <1>1, <1>2, <1>3, <1>4, <1>5 DEF IsTimeline
<1> QED BY <1>4, <1>6 DEF P

\* Nothing is new of a kind from an address.
Same(kind, ip) == Of(kind, ip)' = Of(kind, ip) /\ \A n \in Of(kind, ip) : heard'[n] = heard[n]

LEMMA Hearing ==
  ASSUME WatchOK, NEW kind \in Sorts, NEW ip \in Addresses, NEW what \in Said, Hear(kind, ip, what), now' = now,
         \A r \in reports' : r.at \in Int /\ r.at <= now
  PROVE  /\ WatchOK' /\ Len(heard) \in Nat /\ Len(heard') = Len(heard) + 1
         /\ Extends(Each(Of(kind, ip))', heard', Each(Of(kind, ip)), heard, Len(heard) + 1, now)
         /\ Extends(Whats(Of(kind, ip))', heard', Whats(Of(kind, ip)), heard, Len(heard) + 1, now)
         /\ Whats(Of(kind, ip))'[Len(heard) + 1] = what
         /\ \A k2 \in Sorts, i2 \in Addresses : <<k2, i2>> # <<kind, ip>> => Same(k2, i2)
<1> DEFINE x == Len(heard) + 1
           e == [kind |-> kind, ip |-> ip, what |-> what, at |-> now]
<1>1. heard \in Seq(Message) /\ e \in Message /\ heard' = Append(heard, e) /\ now \in Nat /\ Len(heard) \in Nat
  <2>1. heard \in Seq(Message) /\ heard' = Append(heard, e) /\ now \in Nat
    BY DEF WatchOK, Hear
  <2>2. now \in Int /\ kind \in Sorts \cup {"forgotten"} /\ ip \in Addresses \cup {""}
    <3>1. now \in Int
      BY <2>1
    <3>2. kind \in Sorts \cup {"forgotten"} /\ ip \in Addresses \cup {""}
      OBVIOUS
    <3> QED BY <3>1, <3>2
  <2>3. e \in Message
    BY <2>2 DEF Message
  <2>4. Len(heard) \in Nat
    BY <2>1
  <2> QED BY <2>1, <2>3, <2>4
<1>2. e.kind = kind /\ e.ip = ip /\ e.what = what /\ e.at = now
  OBVIOUS
<1> HIDE DEF e
<1>3. /\ heard' \in Seq(Message) /\ Len(heard') = x /\ DOMAIN heard = 1..Len(heard) /\ DOMAIN heard' = 1..x
      /\ heard'[x] = e /\ \A n \in DOMAIN heard : heard'[n] = heard[n]
  BY <1>1
<1>4. x \in Nat /\ DOMAIN heard' = DOMAIN heard \cup {x} /\ x \notin DOMAIN heard /\ \A n \in DOMAIN heard : n < x
  BY <1>1, <1>3
<1>5. WatchOK'
  <2>1. ReportsOK' /\ now' \in Nat
    BY <1>1 DEF ReportsOK
  <2>2. \A k \in DOMAIN heard' : heard'[k].at <= now
    BY <1>1, <1>2, <1>3, <1>4 DEF WatchOK
  <2>3. \A j, k \in DOMAIN heard' : j <= k /\ heard'[j].kind \in Sorts /\ heard'[k].kind \in Sorts => heard'[j].at <= heard'[k].at
    <3> SUFFICES ASSUME NEW j \in DOMAIN heard', NEW k \in DOMAIN heard', j <= k, heard'[j].kind \in Sorts, heard'[k].kind \in Sorts
                 PROVE  heard'[j].at <= heard'[k].at
      OBVIOUS
    <3>1. CASE k = x
      BY <3>1, <2>2, <1>2, <1>3
    <3>2. CASE k # x
      <4>1. j \in DOMAIN heard /\ k \in DOMAIN heard
        BY <3>2, <1>3
      <4> QED BY <4>1, <1>3 DEF WatchOK
    <3> QED BY <3>1, <3>2
  <2> QED BY <1>3, <2>1, <2>2, <2>3 DEF WatchOK
<1>6. Of(kind, ip)' = Of(kind, ip) \cup {x} /\ \A n \in Of(kind, ip) : heard'[n] = heard[n]
  BY <1>2, <1>3, <1>4 DEF Of
<1>7. \A k2 \in Sorts, i2 \in Addresses : <<k2, i2>> # <<kind, ip>> => Same(k2, i2)
  BY <1>2, <1>3, <1>4 DEF Of, Same
<1>8. \A k \in Of(kind, ip) : k < x /\ heard[k].at <= now /\ k \in DOMAIN heard
  BY <1>3, <1>4 DEF Of, WatchOK
<1>9. Extends(Each(Of(kind, ip))', heard', Each(Of(kind, ip)), heard, x, now)
  BY <1>1, <1>2, <1>3, <1>4, <1>6, <1>8 DEF Extends, Each
<1>10. Extends(Whats(Of(kind, ip))', heard', Whats(Of(kind, ip)), heard, x, now) /\ Whats(Of(kind, ip))'[x] = what
  BY <1>1, <1>2, <1>3, <1>4, <1>6, <1>8 DEF Extends, Whats
<1> QED BY <1>1, <1>3, <1>5, <1>7, <1>9, <1>10

\* Time, the history and what was reported only grow.
Grown ==
  /\ Len(heard) \in Nat /\ Len(heard') \in Nat /\ Len(heard) <= Len(heard')
  /\ now \in Nat /\ now' \in Nat /\ now <= now'
  /\ \A kinds, ip, rest : rest \in Int => DueIn(reports, kinds, ip, rest) \subseteq DueIn(reports', kinds, ip, rest)
  /\ \A r \in reports : \E s \in reports' : s.kind = r.kind /\ s.ip = r.ip /\ s.at >= r.at

\* What is raised now is later than all there is.
LEMMA RaisingNow ==
  ASSUME WatchOK, NEW alerts, Raise(alerts), \A a \in alerts : a.at = now
  PROVE  /\ \A r \in reports' : r.at \in Int /\ r.at <= now
         /\ \A r \in reports' : r \in reports \/ r \in alerts
         /\ \A kinds, ip, rest : rest \in Int => DueIn(reports, kinds, ip, rest) \subseteq DueIn(reports', kinds, ip, rest)
         /\ \A r \in reports : \E s \in reports' : s.kind = r.kind /\ s.ip = r.ip /\ s.at >= r.at
         /\ \A a \in alerts : a \in reports'
<1>1. now \in Nat /\ \A r \in reports : r.at \in Int /\ r.at <= now
  BY DEF WatchOK, ReportsOK
<1>2. /\ \A r \in reports : r.at \in Int
      /\ \A a \in alerts : a.at \in Int
      /\ \A a \in alerts, r \in reports : a.kind = r.kind /\ a.ip = r.ip => r.at <= a.at
  BY <1>1
<1>3. /\ \A r \in reports' : r \in reports \/ r \in alerts
      /\ \A kinds, ip, rest : rest \in Int => DueIn(reports, kinds, ip, rest) \subseteq DueIn(reports', kinds, ip, rest)
      /\ \A r \in reports : \E s \in reports' : s.kind = r.kind /\ s.ip = r.ip /\ s.at >= r.at
      /\ \A a \in alerts : a \in reports'
  BY <1>2, Raising
<1>4. \A r \in reports' : r.at \in Int /\ r.at <= now
  <2>1. \A a \in alerts : a.at \in Int /\ a.at <= now
    BY <1>1
  <2> QED BY <1>1, <1>3, <2>1
<1> QED BY <1>3, <1>4

LEMMA NothingRaised ==
  ASSUME WatchOK, reports' = reports, heard' = heard, now' \in Nat, now <= now'
  PROVE  /\ WatchOK' /\ Grown /\ \A k \in Sorts, i \in Addresses : Same(k, i)
         /\ \A r \in reports' : r \in reports
<1>1. heard \in Seq(Message) /\ now \in Nat /\ \A k \in DOMAIN heard : heard[k].at \in Int /\ heard[k].at <= now
  <2>1. heard \in Seq(Message) /\ now \in Nat /\ \A k \in DOMAIN heard : heard[k].at <= now
    BY DEF WatchOK
  <2>2. \A k \in DOMAIN heard : heard[k] \in Message
    BY <2>1
  <2> QED BY <2>1, <2>2 DEF Message
<1>2. \A k \in DOMAIN heard' : heard'[k].at <= now'
  BY <1>1
<1>3. ReportsOK'
  BY <1>1 DEF WatchOK, ReportsOK
<1>4. WatchOK'
  BY <1>2, <1>3 DEF WatchOK
<1>5. \A r \in reports : \E s \in reports' : s.kind = r.kind /\ s.ip = r.ip /\ s.at >= r.at
  BY <1>1 DEF WatchOK, ReportsOK
<1>6. Len(heard) \in Nat
  BY <1>1
<1>7. Grown
  BY <1>1, <1>5, <1>6 DEF Grown
<1>8. \A k \in Sorts, i \in Addresses : Same(k, i)
  BY DEF Same, Of
<1> QED BY <1>4, <1>7, <1>8

LEMMA Heard ==
  ASSUME WatchOK, Len(heard') = Len(heard) + 1, now' = now,
         \A kinds, ip, rest : rest \in Int => DueIn(reports, kinds, ip, rest) \subseteq DueIn(reports', kinds, ip, rest),
         \A r \in reports : \E s \in reports' : s.kind = r.kind /\ s.ip = r.ip /\ s.at >= r.at
  PROVE  Grown
<1>1. now \in Nat /\ Len(heard) \in Nat
  BY DEF WatchOK
<1> QED BY <1>1 DEF Grown

LEMMA Raised ==
  ASSUME WatchOK, UNCHANGED <<now, heard>>, \A r \in reports' : r.at \in Int /\ r.at <= now,
         \A kinds, ip, rest : rest \in Int => DueIn(reports, kinds, ip, rest) \subseteq DueIn(reports', kinds, ip, rest),
         \A r \in reports : \E s \in reports' : s.kind = r.kind /\ s.ip = r.ip /\ s.at >= r.at
  PROVE  WatchOK' /\ Grown /\ \A k \in Sorts, i \in Addresses : Same(k, i)
<1>1. ReportsOK'
  BY DEF ReportsOK
<1>2. WatchOK'
  BY <1>1 DEF WatchOK
<1>3. now \in Nat /\ Len(heard) \in Nat
  BY DEF WatchOK
<1>4. Grown
  BY <1>3 DEF Grown
<1>5. \A k \in Sorts, i \in Addresses : Same(k, i)
  BY DEF Same, Of
<1> QED BY <1>2, <1>4, <1>5

-----------------------------------------------------------------------------
(* The authentication monitor *)

GuessAlerts == {"brute_force", "credential_stuffing", "too_late"}
Resting == {"brute_force", "credential_stuffing"}

BruteDue(R, ip) == DueIn(R, {"brute_force"}, ip, GuessRest)
StuffingDue(R, ip) == DueIn(R, {"credential_stuffing", "too_late"}, ip, StuffingRest)
StormDue(R, ip) == DueIn(R, {"lockout_storm"}, ip, 1)

\* Of what is reported of guesses nothing is later than the failure that is handled.
HandlingOK ==
  handling = NoEvent \/
  \E step \in {"guessing", "judge", "stuffing"}, ip \in Addresses, at \in Nat :
    /\ handling = [step |-> step, ip |-> ip, at |-> at] /\ at <= now
    /\ \A r \in reports : r.kind \in GuessAlerts => r.at <= at

\* Who rests has reported.
RestsOK ==
  /\ DOMAIN rests = Resting \X Addresses
  /\ \A kind \in Resting, ip \in Addresses : rests[<<kind, ip>>] # Never =>
       /\ rests[<<kind, ip>>] \in Int
       /\ \E r \in reports : r.kind = kind /\ r.ip = ip /\ r.at >= rests[<<kind, ip>>]

IsHandled(ip, steps) == handling.step \in steps /\ handling.ip = ip
HeardBefore(ip) == \A k \in Of("failure", ip) : heard[k].at <= handling.at

\* What is not yet due will be when the failure has been handled.
GuessOK(ip, b) ==
  /\ Fits(ipFailures[ip], Each(Of("failure", ip)), Len(heard) + 1, now, b)
  /\ ipFailures[ip].count = Cardinality(From(Each(Of("failure", ip)), b))
  /\ ipFailures[ip].kinds = From(Whats(Of("failure", ip)), b)
  /\ \/ Kept(Each(Of("failure", ip)), heard, ManyGuesses, GuessSpan, b, ipFailures[ip].first, BruteDue(reports, ip))
     \/ IsHandled(ip, {"guessing"}) /\ HeardBefore(ip)
  /\ \/ Kept(Whats(Of("failure", ip)), heard, ManyUsers, GuessSpan, b, ipFailures[ip].first, StuffingDue(reports, ip))
     \/ IsHandled(ip, {"guessing", "judge"}) /\ Cardinality(ipFailures[ip].kinds) >= ManyUsers
     \/ IsHandled(ip, {"stuffing"}) /\ HeardBefore(ip)

LockOK(ip, b) ==
  /\ Fits(lockouts[ip], Each(Of("lockout", ip)), Len(heard) + 1, now, b)
  /\ lockouts[ip].count = Cardinality(From(Each(Of("lockout", ip)), b))
  /\ Kept(Each(Of("lockout", ip)), heard, ManyLockouts, LockoutSpan, b, lockouts[ip].first, StormDue(reports, ip))

AuthInv ==
  /\ HandlingOK /\ RestsOK
  /\ DOMAIN ipFailures = Addresses /\ DOMAIN lockouts = Addresses
  /\ \A ip \in Addresses : (\E b \in Nat : GuessOK(ip, b)) /\ (\E b \in Nat : LockOK(ip, b))

LEMMA AuthNumbers ==
  /\ ManyGuesses \in Nat \ {0} /\ ManyUsers \in Nat \ {0} /\ ManyLockouts \in Nat \ {0}
  /\ GuessSpan \in Nat /\ LockoutSpan \in Nat /\ GuessRest \in Nat \ {0} /\ StuffingRest \in Nat \ {0}
BY MonitorsAssumption

LEMMA FitsLater ==
  ASSUME NEW w, NEW F, NEW x \in Int, NEW t \in Int, NEW b, Fits(w, F, x, t, b), NEW y \in Int, NEW u \in Int, x <= y, t <= u
  PROVE  Fits(w, F, y, u, b)
BY DEF Fits

LEMMA GuessSame ==
  ASSUME NEW ip \in Addresses, NEW b \in Nat, GuessOK(ip, b), Same("failure", ip), ipFailures'[ip] = ipFailures[ip], Grown,
         handling' = handling \/ handling = NoEvent \/ handling.ip # ip
  PROVE  GuessOK(ip, b)'
<1> DEFINE P == Of("failure", ip)
           w == ipFailures[ip]
<1>1. P' = P /\ Each(P)' = Each(P) /\ Whats(P)' = Whats(P) /\ \A k \in P : heard'[k] = heard[k]
  BY DEF Same, Each, Whats
<1>2. DOMAIN Each(P) = P /\ DOMAIN Whats(P) = P
  BY DEF Each, Whats
<1>3. Fits(w, Each(P), Len(heard') + 1, now', b)
  <2>1. Len(heard) + 1 \in Int /\ Len(heard') + 1 \in Int /\ now \in Int /\ now' \in Int
        /\ Len(heard) + 1 <= Len(heard') + 1 /\ now <= now'
    BY DEF Grown
  <2>2. Fits(w, Each(P), Len(heard) + 1, now, b)
    BY DEF GuessOK
  <2> HIDE DEF w, P
  <2> QED BY <2>1, <2>2, FitsLater
<1>4. BruteDue(reports, ip) \subseteq BruteDue(reports', ip) /\ StuffingDue(reports, ip) \subseteq StuffingDue(reports', ip)
  BY AuthNumbers DEF Grown, BruteDue, StuffingDue
<1>5. Kept(Each(P), heard, ManyGuesses, GuessSpan, b, w.first, BruteDue(reports, ip))
      => Kept(Each(P), heard', ManyGuesses, GuessSpan, b, w.first, BruteDue(reports', ip))
  <2> HIDE DEF P, w
  <2> QED BY <1>1, <1>2, <1>4, KeptSame
<1>6. Kept(Whats(P), heard, ManyUsers, GuessSpan, b, w.first, StuffingDue(reports, ip))
      => Kept(Whats(P), heard', ManyUsers, GuessSpan, b, w.first, StuffingDue(reports', ip))
  <2> HIDE DEF P, w
  <2> QED BY <1>1, <1>2, <1>4, KeptSame
<1>7. ASSUME NEW steps \in SUBSET {"guessing", "judge", "stuffing"}, IsHandled(ip, steps)
      PROVE  IsHandled(ip, steps)' /\ handling' = handling
  <2>1. handling # NoEvent /\ handling.ip = ip
    BY <1>7 DEF IsHandled, NoEvent
  <2>2. handling' = handling
    BY <2>1
  <2> QED BY <1>7, <2>2 DEF IsHandled
<1>8. \/ Kept(Each(P), heard', ManyGuesses, GuessSpan, b, w.first, BruteDue(reports', ip))
      \/ IsHandled(ip, {"guessing"})' /\ HeardBefore(ip)'
  <2>1. CASE IsHandled(ip, {"guessing"}) /\ HeardBefore(ip)
    <3>1. handling' = handling /\ IsHandled(ip, {"guessing"})'
      BY <2>1, <1>7
    <3> QED BY <2>1, <3>1, <1>1 DEF HeardBefore
  <2> QED BY <1>5, <2>1 DEF GuessOK
<1>9. \/ Kept(Whats(P), heard', ManyUsers, GuessSpan, b, w.first, StuffingDue(reports', ip))
      \/ IsHandled(ip, {"guessing", "judge"})' /\ Cardinality(w.kinds) >= ManyUsers
      \/ IsHandled(ip, {"stuffing"})' /\ HeardBefore(ip)'
  <2>1. CASE IsHandled(ip, {"guessing", "judge"}) /\ Cardinality(w.kinds) >= ManyUsers
    BY <2>1, <1>7
  <2>2. CASE IsHandled(ip, {"stuffing"}) /\ HeardBefore(ip)
    <3>1. handling' = handling /\ IsHandled(ip, {"stuffing"})'
      BY <2>2, <1>7
    <3> QED BY <2>2, <3>1, <1>1 DEF HeardBefore
  <2> QED BY <1>6, <2>1, <2>2 DEF GuessOK
<1>10. w.count = Cardinality(From(Each(P), b)) /\ w.kinds = From(Whats(P), b)
  BY DEF GuessOK
<1>11. ipFailures'[ip] = w
  OBVIOUS
<1> HIDE DEF w
<1> QED BY <1>1, <1>3, <1>8, <1>9, <1>10, <1>11 DEF GuessOK

LEMMA LockSame ==
  ASSUME NEW ip \in Addresses, NEW b \in Nat, LockOK(ip, b), Same("lockout", ip), lockouts'[ip] = lockouts[ip], Grown
  PROVE  LockOK(ip, b)'
<1> DEFINE P == Of("lockout", ip)
           w == lockouts[ip]
<1>1. P' = P /\ Each(P)' = Each(P) /\ \A k \in P : heard'[k] = heard[k]
  BY DEF Same, Each
<1>2. DOMAIN Each(P) = P
  BY DEF Each
<1>3. Fits(w, Each(P), Len(heard') + 1, now', b)
  <2>1. Len(heard) + 1 \in Int /\ Len(heard') + 1 \in Int /\ now \in Int /\ now' \in Int
        /\ Len(heard) + 1 <= Len(heard') + 1 /\ now <= now'
    BY DEF Grown
  <2>2. Fits(w, Each(P), Len(heard) + 1, now, b)
    BY DEF LockOK
  <2> HIDE DEF w, P
  <2> QED BY <2>1, <2>2, FitsLater
<1>4. StormDue(reports, ip) \subseteq StormDue(reports', ip)
  BY DEF Grown, StormDue
<1>5. Kept(Each(P), heard, ManyLockouts, LockoutSpan, b, w.first, StormDue(reports, ip))
  BY DEF LockOK
<1>6. Kept(Each(P), heard', ManyLockouts, LockoutSpan, b, w.first, StormDue(reports', ip))
  <2> HIDE DEF P, w
  <2> QED BY <1>1, <1>2, <1>4, <1>5, KeptSame
<1>7. w.count = Cardinality(From(Each(P), b)) /\ lockouts'[ip] = w
  BY DEF LockOK
<1> HIDE DEF w
<1> QED BY <1>1, <1>3, <1>6, <1>7 DEF LockOK

\* What does not touch the history of guesses, nor the windows they are counted in.
LEMMA RestsSame ==
  ASSUME WatchOK, WatchOK', RestsOK, Grown, rests' = rests
  PROVE  RestsOK'
<1>1. \A r \in reports : r.at \in Int
  BY DEF WatchOK, ReportsOK
<1>2. \A r \in reports' : r.at \in Int
  BY DEF WatchOK, ReportsOK
<1>3. ASSUME NEW kind \in Resting, NEW ip \in Addresses, rests[<<kind, ip>>] # Never
      PROVE  /\ rests[<<kind, ip>>] \in Int
             /\ \E s \in reports' : s.kind = kind /\ s.ip = ip /\ s.at >= rests[<<kind, ip>>]
  <2>1. PICK r \in reports : r.kind = kind /\ r.ip = ip /\ r.at >= rests[<<kind, ip>>]
    BY <1>3 DEF RestsOK
  <2>2. PICK s \in reports' : s.kind = r.kind /\ s.ip = r.ip /\ s.at >= r.at
    BY DEF Grown
  <2>3. rests[<<kind, ip>>] \in Int /\ r.at \in Int /\ s.at \in Int
    BY <1>1, <1>2, <1>3 DEF RestsOK
  <2>4. s.at >= rests[<<kind, ip>>]
    BY <2>1, <2>2, <2>3
  <2> QED BY <2>1, <2>2, <2>3, <2>4
<1> QED BY <1>3 DEF RestsOK

LEMMA HandlingSame ==
  ASSUME HandlingOK, Grown, handling' = handling, \A r \in reports' : r.kind \in GuessAlerts => r \in reports
  PROVE  HandlingOK'
<1>1. CASE handling = NoEvent
  BY <1>1 DEF HandlingOK
<1>2. CASE handling # NoEvent
  <2>1. PICK step \in {"guessing", "judge", "stuffing"}, ip \in Addresses, at \in Nat :
               /\ handling = [step |-> step, ip |-> ip, at |-> at] /\ at <= now
               /\ \A r \in reports : r.kind \in GuessAlerts => r.at <= at
    BY <1>2 DEF HandlingOK
  <2>2. at <= now' /\ \A r \in reports' : r.kind \in GuessAlerts => r.at <= at
    BY <2>1 DEF Grown
  <2>3. handling' = [step |-> step, ip |-> ip, at |-> at]
    BY <2>1
  <2> QED BY <2>2, <2>3 DEF HandlingOK
<1> QED BY <1>1, <1>2

LEMMA AuthSame ==
  ASSUME WatchOK, WatchOK', AuthInv, Grown, UNCHANGED <<ipFailures, lockouts, rests, handling>>,
         \A ip \in Addresses : Same("failure", ip) /\ Same("lockout", ip),
         \A r \in reports' : r.kind \in GuessAlerts => r \in reports
  PROVE  AuthInv'
<1>1. RestsOK' /\ HandlingOK'
  BY RestsSame, HandlingSame DEF AuthInv
<1>2. ASSUME NEW ip \in Addresses PROVE (\E b \in Nat : GuessOK(ip, b)') /\ (\E b \in Nat : LockOK(ip, b)')
  <2>1. PICK b \in Nat : GuessOK(ip, b)
    BY DEF AuthInv
  <2>2. GuessOK(ip, b)'
    BY <2>1, GuessSame
  <2>3. PICK c \in Nat : LockOK(ip, c)
    BY DEF AuthInv
  <2>4. LockOK(ip, c)'
    BY <2>3, LockSame
  <2> QED BY <2>2, <2>4
<1> QED BY <1>1, <1>2 DEF AuthInv

\* What a step of this monitor leaves alone.
AuthStep ==
  /\ WatchOK' /\ Grown /\ AuthInv'
  /\ \A k \in {"request", "syn", "query", "packet"}, i \in Addresses : Same(k, i)

LEMMA HearSuccessStep ==
  ASSUME WatchOK, AuthInv, NEW ip \in Addresses, NEW user \in Usernames, HearSuccess(ip, user)
  PROVE  AuthStep
<1> DEFINE alerts == If(priorFailures[user] >= RiskyFailures, {Alert("suspicious_login", ip, now)})
<1>1. Raise(alerts) /\ UNCHANGED <<now, heard, ipFailures, lockouts, rests, handling>>
  BY DEF HearSuccess
<1>2. \A a \in alerts : a.at = now /\ a.kind = "suspicious_login"
  BY DEF Alert, If
<1> HIDE DEF alerts
<1>3. /\ \A r \in reports' : r.at \in Int /\ r.at <= now
      /\ \A r \in reports' : r \in reports \/ r \in alerts
      /\ \A kinds, i, rest : rest \in Int => DueIn(reports, kinds, i, rest) \subseteq DueIn(reports', kinds, i, rest)
      /\ \A r \in reports : \E s \in reports' : s.kind = r.kind /\ s.ip = r.ip /\ s.at >= r.at
  BY <1>1, <1>2, RaisingNow
<1>4. WatchOK' /\ Grown /\ \A k \in Sorts, i \in Addresses : Same(k, i)
  BY <1>1, <1>3, Raised
<1>5. \A r \in reports' : r.kind \in GuessAlerts => r \in reports
  BY <1>2, <1>3 DEF GuessAlerts
<1>6. AuthInv'
  BY <1>1, <1>4, <1>5, AuthSame DEF Sorts
<1> QED BY <1>4, <1>6 DEF AuthStep, Sorts

LEMMA AuthTickStep ==
  ASSUME WatchOK, AuthInv, AuthMonTick
  PROVE  AuthStep
<1>1. reports' = reports /\ heard' = heard /\ now' \in Nat /\ now <= now' /\ UNCHANGED <<ipFailures, lockouts, rests, handling>>
  BY DEF AuthMonTick, Tick, WatchOK
<1>2. WatchOK' /\ Grown /\ (\A k \in Sorts, i \in Addresses : Same(k, i)) /\ \A r \in reports' : r \in reports
  BY <1>1, NothingRaised
<1>3. AuthInv'
  BY <1>1, <1>2, AuthSame DEF Sorts
<1> QED BY <1>2, <1>3 DEF AuthStep, Sorts

\* Who rests has reported less than a rest ago.
LEMMA RestIsDue ==
  ASSUME WatchOK, RestsOK, NEW kind \in Resting, NEW ip \in Addresses, NEW rest \in Int,
         ~Rested(rests[<<kind, ip>>], now, rest), NEW kinds, kind \in kinds
  PROVE  now \in DueIn(reports, kinds, ip, rest)
<1>1. rests[<<kind, ip>>] # Never /\ ~(now - rests[<<kind, ip>>] >= rest)
  BY DEF Rested
<1>2. rests[<<kind, ip>>] \in Int
  BY <1>1 DEF RestsOK
<1>3. PICK r \in reports : r.kind = kind /\ r.ip = ip /\ r.at >= rests[<<kind, ip>>]
  BY <1>1 DEF RestsOK
<1>4. r.at \in Int /\ now \in Int
  BY DEF WatchOK, ReportsOK
<1>5. r.at > now - rest
  BY <1>1, <1>2, <1>3, <1>4
<1> QED BY <1>3, <1>4, <1>5 DEF DueIn

LEMMA WatchNumbers ==
  ASSUME WatchOK
  PROVE  now \in Nat /\ now # Never /\ Len(heard) + 1 \in Nat /\ Len(heard) \in Nat /\ \A r \in reports : r.at \in Int /\ r.at <= now
BY DEF WatchOK, ReportsOK, Never

\* All that was heard is due if it is now.
LEMMA NowIsDue ==
  ASSUME WatchOK, NEW kind \in Sorts, NEW ip, NEW D, IsDown(D), now \in D
  PROVE  /\ \A k \in DOMAIN Each(Of(kind, ip)) : heard[k].at \in D
         /\ \A k \in DOMAIN Whats(Of(kind, ip)) : heard[k].at \in D
<1>1. \A k \in Of(kind, ip) : heard[k].at <= now /\ heard[k].at \in Int
  BY Timelines DEF WatchOK, IsTimeline
<1>2. \A k \in Of(kind, ip) : heard[k].at \in D
  BY <1>1 DEF IsDown
<1> QED BY <1>2 DEF Each, Whats

LEMMA DueAreDown ==
  ASSUME WatchOK, NEW ip
  PROVE  IsDown(BruteDue(reports, ip)) /\ IsDown(StuffingDue(reports, ip)) /\ IsDown(StormDue(reports, ip))
<1>1. \A r \in reports : r.at \in Int
  BY WatchNumbers
<1>2. GuessRest \in Int /\ StuffingRest \in Int /\ 1 \in Int
  BY AuthNumbers
<1>3. IsDown(DueIn(reports, {"brute_force"}, ip, GuessRest))
  BY <1>1, <1>2, DueIsDown
<1>4. IsDown(DueIn(reports, {"credential_stuffing", "too_late"}, ip, StuffingRest))
  BY <1>1, <1>2, DueIsDown
<1>5. IsDown(DueIn(reports, {"lockout_storm"}, ip, 1))
  BY <1>1, <1>2, DueIsDown
<1> QED BY <1>3, <1>4, <1>5 DEF BruteDue, StuffingDue, StormDue

\* A failure: the window it falls into, and what is to be done about it.
LEMMA HearFailureGuess ==
  ASSUME WatchOK, AuthInv, NEW ip \in Addresses, NEW user \in Usernames, HearFailure(ip, user)
  PROVE  \E b \in Nat : GuessOK(ip, b)'
<1> DEFINE P == Of("failure", ip)
           x == Len(heard) + 1
           w == ipFailures[ip]
           v == InWindow(w, user, now, GuessSpan)
           report == v.count >= ManyGuesses /\ Rested(rests[<<"brute_force", ip>>], now, GuessRest)
<1>1. /\ handling = NoEvent /\ Hear("failure", ip, user) /\ ipFailures'[ip] = v /\ UNCHANGED <<now, reports>>
      /\ handling' = [step |-> IF report THEN "guessing" ELSE "judge", ip |-> ip, at |-> now]
  <2>1. ip \in DOMAIN ipFailures
    BY DEF AuthInv
  <2> QED BY <2>1 DEF HearFailure
<1>2. now \in Nat /\ now # Never /\ x \in Nat /\ Len(heard) \in Nat /\ \A r \in reports' : r.at \in Int /\ r.at <= now
  BY <1>1, WatchNumbers
<1>3. /\ Len(heard') = x /\ Extends(Each(P)', heard', Each(P), heard, x, now)
      /\ Extends(Whats(P)', heard', Whats(P), heard, x, now) /\ Whats(P)'[x] = user
  <2>1. user \in Said /\ "failure" \in Sorts
    BY DEF Said, Sorts
  <2> QED BY <1>1, <1>2, <2>1, Hearing
<1>4. IsTimeline(Each(P), heard) /\ IsTimeline(Whats(P), heard) /\ DOMAIN Each(P) = P /\ DOMAIN Whats(P) = P
  <2>1. "failure" \in Sorts
    BY DEF Sorts
  <2> QED BY <2>1, Timelines
<1>5. PICK b \in Nat : GuessOK(ip, b)
  BY DEF AuthInv
<1>6. /\ Fits(w, Each(P), x, now, b) /\ w.count = Cardinality(From(Each(P), b)) /\ w.kinds = From(Whats(P), b)
      /\ Kept(Each(P), heard, ManyGuesses, GuessSpan, b, w.first, BruteDue(reports, ip))
      /\ Kept(Whats(P), heard, ManyUsers, GuessSpan, b, w.first, StuffingDue(reports, ip))
  <2>1. \A steps \in SUBSET {"guessing", "judge", "stuffing"} : ~IsHandled(ip, steps)
    BY <1>1 DEF IsHandled, NoEvent
  <2> QED BY <1>5, <2>1 DEF GuessOK
<1>7. w.first \in Int /\ Fits(w, Whats(P), x, now, b)
  BY <1>4, <1>6 DEF Fits
<1> DEFINE c == Start(w, b, x, now, GuessSpan)
<1>8. GuessSpan \in Int /\ Each(P)' = Each(P')
  BY AuthNumbers DEF Each
<1> HIDE DEF v, w, c, P, x
<1>9. Fits(v, Each(P)', x + 1, now, c) /\ Moves(w, v, Each(P), x, now, b, c, GuessSpan) /\ c \in Nat /\ v.first \in Int
  BY <1>2, <1>3, <1>6, <1>8, StartFits DEF v, c
<1>10. v.kinds = From(Whats(P)', c)
  BY <1>2, <1>3, <1>4, <1>6, <1>7, <1>8, StartLists DEF v, c, IsTimeline
<1>11. v.count = Cardinality(From(Each(P)', c))
  <2>1. IsFiniteSet(P) /\ P \subseteq Nat
    BY <1>4 DEF IsTimeline
  <2>2. Extends(Each(P'), heard', Each(P), heard, x, now)
    BY <1>3, <1>8
  <2>3. v.count = Cardinality(From(Each(P'), c))
    <3>1. Counts(P, P', heard, heard', x, now, w, b, GuessSpan)
      BY <1>6, <1>8, <2>1, <2>2 DEF Counts
    <3> QED BY <3>1, WindowCounts DEF v, c
  <2> QED BY <1>8, <2>3
<1>12. Moves(w, v, Whats(P), x, now, b, c, GuessSpan)
  BY <1>4, <1>9 DEF Moves
<1>13. IsDown(BruteDue(reports, ip)) /\ IsDown(StuffingDue(reports, ip))
  BY DueAreDown
<1>14. \/ Kept(Each(P)', heard', ManyGuesses, GuessSpan, c, v.first, BruteDue(reports, ip))
       \/ IsHandled(ip, {"guessing"})' /\ HeardBefore(ip)'
  <2>1. CASE report
    <3>1. IsHandled(ip, {"guessing"})' /\ handling'.at = now
      BY <1>1, <2>1 DEF IsHandled
    <3>2. \A k \in P' : heard'[k].at <= now
      BY <1>2, <1>3, <1>4 DEF Extends, Each
    <3> QED BY <3>1, <3>2 DEF HeardBefore, P
  <2>2. CASE ~report
    <3>1. v.count >= ManyGuesses => now \in BruteDue(reports, ip)
      <4>1. GuessRest \in Int /\ "brute_force" \in Resting /\ "brute_force" \in {"brute_force"}
        BY AuthNumbers DEF Resting
      <4> QED BY <2>2, <4>1, RestIsDue DEF BruteDue, AuthInv
    <3>2. ManyGuesses \in Nat \ {0} /\ GuessSpan \in Nat
      BY AuthNumbers
    <3>3. Falls(Each(P), heard, Each(P)', heard', x, now, w, v, b, c, GuessSpan)
      BY <1>3, <1>4, <1>7, <1>9, <3>2 DEF Falls
    <3>4. Cardinality(From(Each(P)', c)) >= ManyGuesses => now \in BruteDue(reports, ip)
      BY <3>1, <1>11
    <3>5. Kept(Each(P)', heard', ManyGuesses, GuessSpan, c, v.first, BruteDue(reports, ip))
      BY <1>6, <1>13, <3>2, <3>3, <3>4, FallsKept
    <3> QED BY <3>5
  <2> QED BY <2>1, <2>2
<1>15. \/ Kept(Whats(P)', heard', ManyUsers, GuessSpan, c, v.first, StuffingDue(reports, ip))
       \/ IsHandled(ip, {"guessing", "judge"})' /\ Cardinality(v.kinds) >= ManyUsers
  <2>1. IsHandled(ip, {"guessing", "judge"})'
    BY <1>1 DEF IsHandled
  <2>2. CASE ~(Cardinality(v.kinds) >= ManyUsers)
    <3>1. Cardinality(From(Whats(P)', c)) >= ManyUsers => now \in StuffingDue(reports, ip)
      BY <1>10, <2>2
    <3>2. ManyUsers \in Nat \ {0} /\ GuessSpan \in Nat
      BY AuthNumbers
    <3>3. Falls(Whats(P), heard, Whats(P)', heard', x, now, w, v, b, c, GuessSpan)
      BY <1>3, <1>4, <1>7, <1>9, <1>12, <3>2 DEF Falls
    <3>4. Kept(Whats(P)', heard', ManyUsers, GuessSpan, c, v.first, StuffingDue(reports, ip))
      BY <1>6, <1>13, <3>1, <3>2, <3>3, FallsKept
    <3> QED BY <3>4
  <2> QED BY <2>1, <2>2
<1>16. Fits(ipFailures'[ip], Each(P)', Len(heard') + 1, now', c)
  BY <1>1, <1>3, <1>9
<1>17. ipFailures'[ip].count = Cardinality(From(Each(P)', c)) /\ ipFailures'[ip].kinds = From(Whats(P)', c)
  BY <1>1, <1>10, <1>11
<1>18. PICK d \in Nat : d = c
  BY <1>9
<1>19. GuessOK(ip, d)'
  BY <1>1, <1>14, <1>15, <1>16, <1>17, <1>18 DEF GuessOK, P
<1> QED BY <1>19

LEMMA HearFailureStep ==
  ASSUME WatchOK, AuthInv, NEW ip \in Addresses, NEW user \in Usernames, HearFailure(ip, user)
  PROVE  AuthStep
<1>1. /\ handling = NoEvent /\ Hear("failure", ip, user) /\ UNCHANGED <<now, reports, lockouts, rests>>
      /\ \E step \in {"guessing", "judge"} : handling' = [step |-> step, ip |-> ip, at |-> now]
      /\ DOMAIN ipFailures' = Addresses /\ \A i \in Addresses : i # ip => ipFailures'[i] = ipFailures[i]
  BY DEF HearFailure, AuthInv
<1>2. now \in Nat /\ \A r \in reports' : r.at \in Int /\ r.at <= now
  BY <1>1, WatchNumbers
<1>3. user \in Said /\ "failure" \in Sorts
  BY DEF Said, Sorts
<1>4. /\ WatchOK' /\ Len(heard') = Len(heard) + 1
      /\ \A k \in Sorts, i \in Addresses : <<k, i>> # <<"failure", ip>> => Same(k, i)
  BY <1>1, <1>2, <1>3, Hearing
<1>5. Grown
  <2>1. \A r \in reports : \E s \in reports' : s.kind = r.kind /\ s.ip = r.ip /\ s.at >= r.at
    BY <1>1, <1>2
  <2> QED BY <1>1, <1>4, <2>1, Heard
<1>6. RestsOK'
  BY <1>1, <1>4, <1>5, RestsSame DEF AuthInv
<1>7. HandlingOK'
  BY <1>1, <1>2 DEF HandlingOK
<1>8. ASSUME NEW i \in Addresses PROVE (\E b \in Nat : GuessOK(i, b)') /\ (\E b \in Nat : LockOK(i, b)')
  <2>1. \E b \in Nat : GuessOK(i, b)'
    <3>1. CASE i = ip
      BY <3>1, HearFailureGuess
    <3>2. CASE i # ip
      <4>1. PICK b \in Nat : GuessOK(i, b)
        BY DEF AuthInv
      <4>2. Same("failure", i) /\ ipFailures'[i] = ipFailures[i]
        BY <3>2, <1>1, <1>3, <1>4
      <4>3. GuessOK(i, b)'
        BY <1>1, <1>5, <4>1, <4>2, GuessSame
      <4> QED BY <4>3
    <3> QED BY <3>1, <3>2
  <2>2. PICK b \in Nat : LockOK(i, b)
    BY DEF AuthInv
  <2>3. Same("lockout", i)
    BY <1>4 DEF Sorts
  <2>4. LockOK(i, b)'
    BY <1>1, <1>5, <2>2, <2>3, LockSame
  <2> QED BY <2>1, <2>4
<1>9. DOMAIN ipFailures' = Addresses /\ DOMAIN lockouts' = Addresses
  BY <1>1 DEF AuthInv
<1>10. AuthInv'
  BY <1>6, <1>7, <1>8, <1>9 DEF AuthInv
<1>11. \A k \in {"request", "syn", "query", "packet"}, i \in Addresses : Same(k, i)
  BY <1>4 DEF Sorts
<1> QED BY <1>4, <1>5, <1>10, <1>11 DEF AuthStep

\* An alert of the failure that is handled.
LEMMA Publishing ==
  ASSUME WatchOK, AuthInv, handling # NoEvent, NEW kind \in Resting, NEW next, PublishAlert(kind, next)
  PROVE  /\ WatchOK' /\ Grown /\ RestsOK' /\ handling.at \in Nat /\ handling.at <= now /\ handling.ip \in Addresses
         /\ \A k \in Sorts, i \in Addresses : Same(k, i)
         /\ \A r \in reports' : r.kind \in GuessAlerts => r.at <= handling.at
         /\ \A kinds, rest : kind \in kinds /\ rest \in Nat \ {0} /\ HeardBefore(handling.ip) =>
              \A k \in Of("failure", handling.ip) : heard[k].at \in DueIn(reports', kinds, handling.ip, rest)
<1> DEFINE ip == handling.ip
           at == handling.at
           a == Alert(kind, ip, at)
<1>1. /\ Raise({a}) /\ UNCHANGED <<now, heard, ipFailures, lockouts, priorFailures>>
      /\ rests' = [rests EXCEPT ![<<kind, ip>>] = at]
  BY DEF PublishAlert
<1>2. ip \in Addresses /\ at \in Nat /\ at <= now /\ \A r \in reports : r.kind \in GuessAlerts => r.at <= at
  BY DEF AuthInv, HandlingOK
<1>3. a.kind = kind /\ a.ip = ip /\ a.at = at /\ kind \in GuessAlerts
  BY DEF Alert, Resting, GuessAlerts
<1>4. now \in Nat /\ \A r \in reports : r.at \in Int /\ r.at <= now
  BY WatchNumbers
<1> HIDE DEF a, at, ip
<1>5. /\ \A r \in reports' : r \in reports \/ r = a
      /\ \A kinds, i, rest : rest \in Int => DueIn(reports, kinds, i, rest) \subseteq DueIn(reports', kinds, i, rest)
      /\ \A r \in reports : \E s \in reports' : s.kind = r.kind /\ s.ip = r.ip /\ s.at >= r.at
      /\ a \in reports'
  <2>1. \A e \in {a} : e.at \in Int
    BY <1>2, <1>3
  <2>2. \A e \in {a}, r \in reports : e.kind = r.kind /\ e.ip = r.ip => r.at <= e.at
    BY <1>2, <1>3
  <2>3. \A r \in reports : r.at \in Int
    BY <1>4
  <2>4. /\ \A r \in reports' : r \in reports \/ r \in {a}
        /\ \A kinds, i, rest : rest \in Int => DueIn(reports, kinds, i, rest) \subseteq DueIn(reports', kinds, i, rest)
        /\ \A r \in reports : \E s \in reports' : s.kind = r.kind /\ s.ip = r.ip /\ s.at >= r.at
        /\ \A e \in {a} : e \in reports'
    BY <1>1, <2>1, <2>2, <2>3, Raising
  <2> QED BY <2>4
<1>6. \A r \in reports' : r.at \in Int /\ r.at <= now
  BY <1>2, <1>3, <1>4, <1>5
<1>7. WatchOK' /\ Grown /\ \A k \in Sorts, i \in Addresses : Same(k, i)
  BY <1>1, <1>5, <1>6, Raised
<1>8. \A r \in reports' : r.kind \in GuessAlerts => r.at <= at
  BY <1>2, <1>3, <1>4, <1>5
<1>9. RestsOK'
  <2>1. DOMAIN rests = Resting \X Addresses
    BY DEF AuthInv, RestsOK
  <2>2. DOMAIN rests' = Resting \X Addresses
    BY <1>1, <2>1
  <2>3. ASSUME NEW k2 \in Resting, NEW i \in Addresses, rests'[<<k2, i>>] # Never
        PROVE  rests'[<<k2, i>>] \in Int /\ \E r \in reports' : r.kind = k2 /\ r.ip = i /\ r.at >= rests'[<<k2, i>>]
    <3>1. CASE <<k2, i>> = <<kind, ip>>
      <4>1. rests'[<<k2, i>>] = at
        BY <3>1, <1>1, <2>1
      <4> QED BY <3>1, <4>1, <1>2, <1>3, <1>5
    <3>2. CASE <<k2, i>> # <<kind, ip>>
      <4>1. rests'[<<k2, i>>] = rests[<<k2, i>>]
        BY <3>2, <1>1, <2>1
      <4>2. PICK r \in reports : r.kind = k2 /\ r.ip = i /\ r.at >= rests[<<k2, i>>] /\ rests[<<k2, i>>] \in Int
        BY <2>3, <4>1 DEF AuthInv, RestsOK
      <4>3. PICK s \in reports' : s.kind = r.kind /\ s.ip = r.ip /\ s.at >= r.at
        BY <1>5
      <4>4. s.at >= rests[<<k2, i>>]
        BY <4>2, <4>3, <1>4, <1>6
      <4> QED BY <4>1, <4>2, <4>3, <4>4
    <3> QED BY <3>1, <3>2
  <2> QED BY <2>2, <2>3 DEF RestsOK
<1>10. ASSUME NEW kinds, NEW rest \in Nat \ {0}, kind \in kinds, HeardBefore(ip), NEW k \in Of("failure", ip)
       PROVE  heard[k].at \in DueIn(reports', kinds, ip, rest)
  <2>1. heard[k].at <= at
    BY <1>10 DEF HeardBefore, at
  <2>2. heard[k].at \in Int
    <3>1. IsTimeline(Each(Of("failure", ip)), heard) /\ DOMAIN Each(Of("failure", ip)) = Of("failure", ip)
      BY <1>2, Timelines DEF Sorts
    <3> QED BY <3>1 DEF IsTimeline
  <2>3. a.at > heard[k].at - rest
    BY <1>2, <1>3, <2>1, <2>2
  <2> QED BY <1>3, <1>5, <1>10, <2>2, <2>3 DEF DueIn
<1>11. \A kinds, rest : kind \in kinds /\ rest \in Nat \ {0} /\ HeardBefore(ip) =>
              \A k \in Of("failure", ip) : heard[k].at \in DueIn(reports', kinds, ip, rest)
  BY <1>10
<1> QED BY <1>2, <1>7, <1>8, <1>9, <1>11 DEF at, ip

\* What is due already is due later on, of all that an address has failed with.
LEMMA GuessKeeps ==
  ASSUME NEW ip \in Addresses, NEW b \in Nat, GuessOK(ip, b), Same("failure", ip), ipFailures'[ip] = ipFailures[ip], Grown
  PROVE  /\ Fits(ipFailures[ip], Each(Of("failure", ip)), Len(heard) + 1, now, b)' /\ Of("failure", ip)' = Of("failure", ip)
         /\ (ipFailures[ip].count = Cardinality(From(Each(Of("failure", ip)), b)))'
         /\ (ipFailures[ip].kinds = From(Whats(Of("failure", ip)), b))'
         /\ Kept(Each(Of("failure", ip)), heard, ManyGuesses, GuessSpan, b, ipFailures[ip].first, BruteDue(reports, ip))
            => Kept(Each(Of("failure", ip)), heard, ManyGuesses, GuessSpan, b, ipFailures[ip].first, BruteDue(reports, ip))'
         /\ Kept(Whats(Of("failure", ip)), heard, ManyUsers, GuessSpan, b, ipFailures[ip].first, StuffingDue(reports, ip))
            => Kept(Whats(Of("failure", ip)), heard, ManyUsers, GuessSpan, b, ipFailures[ip].first, StuffingDue(reports, ip))'
         /\ (\A k \in Of("failure", ip) : heard[k].at \in BruteDue(reports', ip))
            => Kept(Each(Of("failure", ip)), heard, ManyGuesses, GuessSpan, b, ipFailures[ip].first, BruteDue(reports, ip))'
         /\ (\A k \in Of("failure", ip) : heard[k].at \in StuffingDue(reports', ip))
            => Kept(Whats(Of("failure", ip)), heard, ManyUsers, GuessSpan, b, ipFailures[ip].first, StuffingDue(reports, ip))'
<1> DEFINE P == Of("failure", ip)
           w == ipFailures[ip]
<1>1. P' = P /\ Each(P)' = Each(P) /\ Whats(P)' = Whats(P) /\ \A k \in P : heard'[k] = heard[k]
  BY DEF Same, Each, Whats
<1>2. DOMAIN Each(P) = P /\ DOMAIN Whats(P) = P
  BY DEF Each, Whats
<1>3. Fits(w, Each(P), Len(heard') + 1, now', b)
  <2>1. Len(heard) + 1 \in Int /\ Len(heard') + 1 \in Int /\ now \in Int /\ now' \in Int
        /\ Len(heard) + 1 <= Len(heard') + 1 /\ now <= now'
    BY DEF Grown
  <2>2. Fits(w, Each(P), Len(heard) + 1, now, b)
    BY DEF GuessOK
  <2> HIDE DEF w, P
  <2> QED BY <2>1, <2>2, FitsLater
<1>4. BruteDue(reports, ip) \subseteq BruteDue(reports', ip) /\ StuffingDue(reports, ip) \subseteq StuffingDue(reports', ip)
  BY AuthNumbers DEF Grown, BruteDue, StuffingDue
<1>5. w.count = Cardinality(From(Each(P), b)) /\ w.kinds = From(Whats(P), b) /\ ipFailures'[ip] = w
  BY DEF GuessOK
<1> HIDE DEF P, w
<1>6. /\ Kept(Each(P), heard, ManyGuesses, GuessSpan, b, w.first, BruteDue(reports, ip))
         => Kept(Each(P), heard', ManyGuesses, GuessSpan, b, w.first, BruteDue(reports', ip))
      /\ Kept(Whats(P), heard, ManyUsers, GuessSpan, b, w.first, StuffingDue(reports, ip))
         => Kept(Whats(P), heard', ManyUsers, GuessSpan, b, w.first, StuffingDue(reports', ip))
  BY <1>1, <1>2, <1>4, KeptSame
<1>7. (\A k \in P : heard[k].at \in BruteDue(reports', ip))
      => Kept(Each(P), heard', ManyGuesses, GuessSpan, b, w.first, BruteDue(reports', ip))
  BY <1>1, <1>2, AllAreDue
<1>8. (\A k \in P : heard[k].at \in StuffingDue(reports', ip))
      => Kept(Whats(P), heard', ManyUsers, GuessSpan, b, w.first, StuffingDue(reports', ip))
  BY <1>1, <1>2, AllAreDue
<1> QED BY <1>1, <1>3, <1>5, <1>6, <1>7, <1>8, Zenon DEF P, w

LEMMA ReportGuessingStep ==
  ASSUME WatchOK, AuthInv, ReportGuessing
  PROVE  AuthStep
<1> DEFINE ip == handling.ip
<1>1. /\ handling.step = "guessing" /\ UNCHANGED <<ipFailures, lockouts>>
      /\ handling' = [step |-> "judge", ip |-> handling.ip, at |-> handling.at]
      /\ PublishAlert("brute_force", [step |-> "judge", ip |-> handling.ip, at |-> handling.at])
  BY DEF ReportGuessing, PublishAlert
<1>2. handling # NoEvent /\ "brute_force" \in Resting
  BY <1>1 DEF NoEvent, Resting
<1>3. /\ WatchOK' /\ Grown /\ RestsOK' /\ handling.at \in Nat /\ handling.at <= now /\ ip \in Addresses
      /\ \A k \in Sorts, i \in Addresses : Same(k, i)
      /\ \A r \in reports' : r.kind \in GuessAlerts => r.at <= handling.at
      /\ \A kinds, rest : "brute_force" \in kinds /\ rest \in Nat \ {0} /\ HeardBefore(ip) =>
           \A k \in Of("failure", ip) : heard[k].at \in DueIn(reports', kinds, ip, rest)
  BY <1>1, <1>2, Publishing
<1>4. HeardBefore(ip) => \A k \in Of("failure", ip) : heard[k].at \in BruteDue(reports', ip)
  <2>1. GuessRest \in Nat \ {0} /\ "brute_force" \in {"brute_force"}
    BY AuthNumbers
  <2> QED BY <1>3, <2>1 DEF BruteDue
<1>5. now' = now /\ HandlingOK'
  <2>1. now' = now
    BY <1>1 DEF PublishAlert
  <2> QED BY <1>1, <1>3, <2>1 DEF HandlingOK
<1>6. ASSUME NEW i \in Addresses PROVE (\E b \in Nat : GuessOK(i, b)') /\ (\E b \in Nat : LockOK(i, b)')
  <2>1. Same("failure", i) /\ Same("lockout", i) /\ ipFailures'[i] = ipFailures[i] /\ lockouts'[i] = lockouts[i]
    BY <1>1, <1>3 DEF Sorts
  <2>2. PICK b \in Nat : GuessOK(i, b)
    BY DEF AuthInv
  <2>3. ASSUME i = ip PROVE \E d \in Nat : GuessOK(i, d)'
    <3>1. IsHandled(i, {"guessing", "judge"})' /\ ~IsHandled(i, {"stuffing"})
      BY <1>1, <2>3 DEF IsHandled
    <3>2. Kept(Each(Of("failure", i)), heard, ManyGuesses, GuessSpan, b, ipFailures[i].first, BruteDue(reports, i))'
      <4>1. CASE HeardBefore(i)
        BY <1>3, <1>4, <2>1, <2>2, <2>3, <4>1, GuessKeeps
      <4>2. CASE ~HeardBefore(i)
        <5>1. Kept(Each(Of("failure", i)), heard, ManyGuesses, GuessSpan, b, ipFailures[i].first, BruteDue(reports, i))
          BY <2>2, <4>2 DEF GuessOK
        <5> QED BY <1>3, <2>1, <2>2, <5>1, GuessKeeps
      <4> QED BY <4>1, <4>2
    <3>3. \/ Kept(Whats(Of("failure", i)), heard, ManyUsers, GuessSpan, b, ipFailures[i].first, StuffingDue(reports, i))'
          \/ Cardinality(ipFailures'[i].kinds) >= ManyUsers
      <4>1. CASE Kept(Whats(Of("failure", i)), heard, ManyUsers, GuessSpan, b, ipFailures[i].first, StuffingDue(reports, i))
        BY <1>3, <2>1, <2>2, <4>1, GuessKeeps
      <4> QED BY <2>1, <2>2, <3>1, <4>1 DEF GuessOK
    <3>4. /\ Fits(ipFailures[i], Each(Of("failure", i)), Len(heard) + 1, now, b)'
          /\ (ipFailures[i].count = Cardinality(From(Each(Of("failure", i)), b)))'
          /\ (ipFailures[i].kinds = From(Whats(Of("failure", i)), b))'
      BY <1>3, <2>1, <2>2, GuessKeeps
    <3>5. GuessOK(i, b)'
      BY <3>1, <3>2, <3>3, <3>4 DEF GuessOK
    <3> QED BY <3>5
  <2>4. ASSUME i # ip PROVE \E d \in Nat : GuessOK(i, d)'
    <3>1. GuessOK(i, b)'
      <4>1. handling.ip # i
        BY <2>4
      <4> QED BY <1>3, <2>1, <2>2, <4>1, GuessSame
    <3> QED BY <3>1
  <2>5. PICK c \in Nat : LockOK(i, c)
    BY DEF AuthInv
  <2>6. LockOK(i, c)'
    BY <1>3, <2>1, <2>5, LockSame
  <2> QED BY <2>3, <2>4, <2>6
<1>7. AuthInv'
  BY <1>1, <1>3, <1>5, <1>6 DEF AuthInv
<1> QED BY <1>3, <1>7 DEF AuthStep, Sorts

LEMMA ReportStuffingStep ==
  ASSUME WatchOK, AuthInv, ReportStuffing
  PROVE  AuthStep
<1> DEFINE ip == handling.ip
<1>1. /\ handling.step = "stuffing" /\ UNCHANGED <<ipFailures, lockouts>>
      /\ handling' = NoEvent /\ PublishAlert("credential_stuffing", NoEvent)
  BY DEF ReportStuffing, PublishAlert
<1>2. handling # NoEvent /\ "credential_stuffing" \in Resting
  BY <1>1 DEF NoEvent, Resting
<1>3. /\ WatchOK' /\ Grown /\ RestsOK' /\ handling.at \in Nat /\ handling.at <= now /\ ip \in Addresses
      /\ \A k \in Sorts, i \in Addresses : Same(k, i)
      /\ \A kinds, rest : "credential_stuffing" \in kinds /\ rest \in Nat \ {0} /\ HeardBefore(ip) =>
           \A k \in Of("failure", ip) : heard[k].at \in DueIn(reports', kinds, ip, rest)
  BY <1>1, <1>2, Publishing
<1>4. HeardBefore(ip) => \A k \in Of("failure", ip) : heard[k].at \in StuffingDue(reports', ip)
  <2>1. StuffingRest \in Nat \ {0} /\ "credential_stuffing" \in {"credential_stuffing", "too_late"}
    BY AuthNumbers
  <2> QED BY <1>3, <2>1 DEF StuffingDue
<1>5. HandlingOK'
  BY <1>1 DEF HandlingOK
<1>6. ASSUME NEW i \in Addresses PROVE (\E b \in Nat : GuessOK(i, b)') /\ (\E b \in Nat : LockOK(i, b)')
  <2>1. Same("failure", i) /\ Same("lockout", i) /\ ipFailures'[i] = ipFailures[i] /\ lockouts'[i] = lockouts[i]
    BY <1>1, <1>3 DEF Sorts
  <2>2. PICK b \in Nat : GuessOK(i, b)
    BY DEF AuthInv
  <2>3. ASSUME i = ip PROVE \E d \in Nat : GuessOK(i, d)'
    <3>1. ~IsHandled(i, {"guessing", "judge"}) /\ ~IsHandled(i, {"guessing"})
      BY <1>1, <2>3 DEF IsHandled
    <3>2. Kept(Whats(Of("failure", i)), heard, ManyUsers, GuessSpan, b, ipFailures[i].first, StuffingDue(reports, i))'
      <4>1. CASE HeardBefore(i)
        BY <1>3, <1>4, <2>1, <2>2, <2>3, <4>1, GuessKeeps
      <4>2. CASE ~HeardBefore(i)
        <5>1. Kept(Whats(Of("failure", i)), heard, ManyUsers, GuessSpan, b, ipFailures[i].first, StuffingDue(reports, i))
          BY <2>2, <3>1, <4>2 DEF GuessOK
        <5> QED BY <1>3, <2>1, <2>2, <5>1, GuessKeeps
      <4> QED BY <4>1, <4>2
    <3>3. Kept(Each(Of("failure", i)), heard, ManyGuesses, GuessSpan, b, ipFailures[i].first, BruteDue(reports, i))'
      <4>1. Kept(Each(Of("failure", i)), heard, ManyGuesses, GuessSpan, b, ipFailures[i].first, BruteDue(reports, i))
        BY <2>2, <3>1 DEF GuessOK
      <4> QED BY <1>3, <2>1, <2>2, <4>1, GuessKeeps
    <3>4. /\ Fits(ipFailures[i], Each(Of("failure", i)), Len(heard) + 1, now, b)'
          /\ (ipFailures[i].count = Cardinality(From(Each(Of("failure", i)), b)))'
          /\ (ipFailures[i].kinds = From(Whats(Of("failure", i)), b))'
      BY <1>3, <2>1, <2>2, GuessKeeps
    <3>5. GuessOK(i, b)'
      BY <3>2, <3>3, <3>4 DEF GuessOK
    <3> QED BY <3>5
  <2>4. ASSUME i # ip PROVE \E d \in Nat : GuessOK(i, d)'
    <3>1. GuessOK(i, b)'
      <4>1. handling.ip # i
        BY <2>4
      <4> QED BY <1>3, <2>1, <2>2, <4>1, GuessSame
    <3> QED BY <3>1
  <2>5. PICK c \in Nat : LockOK(i, c)
    BY DEF AuthInv
  <2>6. LockOK(i, c)'
    BY <1>3, <2>1, <2>5, LockSame
  <2> QED BY <2>3, <2>4, <2>6
<1>7. AuthInv'
  BY <1>1, <1>3, <1>5, <1>6 DEF AuthInv
<1> QED BY <1>3, <1>7 DEF AuthStep, Sorts

LEMMA JudgeStuffingStep ==
  ASSUME WatchOK, AuthInv, JudgeStuffing
  PROVE  AuthStep
<1> DEFINE ip == handling.ip
           w == ipFailures[ip]
           full == Cardinality(w.kinds) >= ManyUsers
           rested == Rested(rests[<<"credential_stuffing", ip>>], now, StuffingRest)
           tooLate == now - w.first > StuffingRest
           alerts == If(full /\ rested /\ tooLate, {Alert("too_late", ip, now)})
<1>1. /\ handling.step = "judge" /\ UNCHANGED <<now, heard, ipFailures, lockouts, rests>> /\ Raise(alerts)
      /\ handling' = IF full /\ rested /\ ~tooLate THEN [step |-> "stuffing", ip |-> ip, at |-> now] ELSE NoEvent
  BY DEF JudgeStuffing
<1>2. ip \in Addresses
  BY <1>1 DEF AuthInv, HandlingOK, NoEvent
<1>3. now \in Nat /\ \A r \in reports : r.at \in Int /\ r.at <= now
  BY WatchNumbers
<1>4. \A a \in alerts : a.at = now /\ full /\ rested /\ tooLate
  BY DEF Alert, If
<1>5. full /\ rested /\ tooLate => \E a \in alerts : a.kind = "too_late" /\ a.ip = ip /\ a.at = now
  BY DEF Alert, If
<1> HIDE DEF alerts
<1>6. /\ \A r \in reports' : r.at \in Int /\ r.at <= now
      /\ \A r \in reports' : r \in reports \/ r \in alerts
      /\ \A kinds, i, rest : rest \in Int => DueIn(reports, kinds, i, rest) \subseteq DueIn(reports', kinds, i, rest)
      /\ \A r \in reports : \E s \in reports' : s.kind = r.kind /\ s.ip = r.ip /\ s.at >= r.at
      /\ \A a \in alerts : a \in reports'
  BY <1>1, <1>4, RaisingNow
<1>7. WatchOK' /\ Grown /\ \A k \in Sorts, i \in Addresses : Same(k, i)
  BY <1>1, <1>6, Raised
<1>8. RestsOK'
  BY <1>1, <1>7, RestsSame DEF AuthInv
<1>9. HandlingOK'
  BY <1>1, <1>2, <1>3, <1>6 DEF HandlingOK
<1>10. full /\ ~(rested /\ ~tooLate) => \A k \in Of("failure", ip) : heard[k].at \in StuffingDue(reports', ip)
  <2>1. ASSUME full, ~rested PROVE now \in StuffingDue(reports, ip)
    <3>1. StuffingRest \in Int /\ "credential_stuffing" \in Resting /\ "credential_stuffing" \in {"credential_stuffing", "too_late"}
      BY AuthNumbers DEF Resting
    <3> QED BY <1>2, <2>1, <3>1, RestIsDue DEF StuffingDue, AuthInv
  <2>2. ASSUME full, ~rested PROVE now \in StuffingDue(reports', ip)
    <3>1. StuffingRest \in Int
      BY AuthNumbers
    <3> QED BY <1>6, <2>1, <2>2, <3>1 DEF StuffingDue
  <2>3. ASSUME full, rested, tooLate PROVE now \in StuffingDue(reports', ip)
    <3>1. PICK a \in reports' : a.kind = "too_late" /\ a.ip = ip /\ a.at = now
      BY <1>5, <1>6, <2>3
    <3>2. now > now - StuffingRest /\ now \in Int
      BY <1>3, AuthNumbers
    <3> QED BY <3>1, <3>2 DEF StuffingDue, DueIn
  <2>4. IsDown(StuffingDue(reports', ip))
    <3>1. StuffingRest \in Int
      BY AuthNumbers
    <3> QED BY <1>6, <3>1, DueIsDown DEF StuffingDue
  <2>5. ASSUME now \in StuffingDue(reports', ip), NEW k \in Of("failure", ip) PROVE heard[k].at \in StuffingDue(reports', ip)
    <3>1. IsTimeline(Each(Of("failure", ip)), heard) /\ DOMAIN Each(Of("failure", ip)) = Of("failure", ip)
      BY <1>2, Timelines DEF Sorts
    <3>2. heard[k].at \in Int /\ heard[k].at <= now
      BY <3>1 DEF IsTimeline, Of, WatchOK
    <3> QED BY <3>2, <2>4, <2>5 DEF IsDown
  <2> QED BY <2>2, <2>3, <2>5
<1>11. ASSUME NEW i \in Addresses PROVE (\E b \in Nat : GuessOK(i, b)') /\ (\E b \in Nat : LockOK(i, b)')
  <2>1. Same("failure", i) /\ Same("lockout", i) /\ ipFailures'[i] = ipFailures[i] /\ lockouts'[i] = lockouts[i]
    BY <1>1, <1>7 DEF Sorts
  <2>2. PICK b \in Nat : GuessOK(i, b)
    BY DEF AuthInv
  <2>3. ASSUME i = ip PROVE \E d \in Nat : GuessOK(i, d)'
    <3>1. ~IsHandled(i, {"stuffing"}) /\ ~IsHandled(i, {"guessing"})
      BY <1>1, <2>3 DEF IsHandled
    <3>2. \/ Kept(Whats(Of("failure", i)), heard, ManyUsers, GuessSpan, b, ipFailures[i].first, StuffingDue(reports, i))'
          \/ IsHandled(i, {"stuffing"})' /\ HeardBefore(i)'
      <4>1. CASE full /\ rested /\ ~tooLate
        <5>1. IsHandled(i, {"stuffing"})' /\ handling'.at = now
          BY <1>1, <2>3, <4>1 DEF IsHandled
        <5>2. \A k \in Of("failure", i)' : heard'[k].at <= now
          BY <1>1 DEF WatchOK, Of
        <5> QED BY <5>1, <5>2 DEF HeardBefore
      <4>2. CASE full /\ ~(rested /\ ~tooLate)
        BY <1>7, <1>10, <2>1, <2>2, <2>3, <4>2, GuessKeeps
      <4>3. CASE ~full
        <5>1. Kept(Whats(Of("failure", i)), heard, ManyUsers, GuessSpan, b, ipFailures[i].first, StuffingDue(reports, i))
          BY <2>2, <2>3, <3>1, <4>3 DEF GuessOK
        <5> QED BY <1>7, <2>1, <2>2, <5>1, GuessKeeps
      <4> QED BY <4>1, <4>2, <4>3
    <3>3. Kept(Each(Of("failure", i)), heard, ManyGuesses, GuessSpan, b, ipFailures[i].first, BruteDue(reports, i))'
      <4>1. Kept(Each(Of("failure", i)), heard, ManyGuesses, GuessSpan, b, ipFailures[i].first, BruteDue(reports, i))
        BY <2>2, <3>1 DEF GuessOK
      <4> QED BY <1>7, <2>1, <2>2, <4>1, GuessKeeps
    <3>4. /\ Fits(ipFailures[i], Each(Of("failure", i)), Len(heard) + 1, now, b)'
          /\ (ipFailures[i].count = Cardinality(From(Each(Of("failure", i)), b)))'
          /\ (ipFailures[i].kinds = From(Whats(Of("failure", i)), b))'
      BY <1>7, <2>1, <2>2, GuessKeeps
    <3>5. GuessOK(i, b)'
      BY <3>2, <3>3, <3>4 DEF GuessOK
    <3> QED BY <3>5
  <2>4. ASSUME i # ip PROVE \E d \in Nat : GuessOK(i, d)'
    <3>1. GuessOK(i, b)'
      <4>1. handling.ip # i
        BY <2>4
      <4> QED BY <1>7, <2>1, <2>2, <4>1, GuessSame
    <3> QED BY <3>1
  <2>5. PICK c \in Nat : LockOK(i, c)
    BY DEF AuthInv
  <2>6. LockOK(i, c)'
    BY <1>7, <2>1, <2>5, LockSame
  <2> QED BY <2>3, <2>4, <2>6
<1>12. AuthInv'
  BY <1>1, <1>8, <1>9, <1>11 DEF AuthInv
<1> QED BY <1>7, <1>12 DEF AuthStep, Sorts

LEMMA HearLockoutStep ==
  ASSUME WatchOK, AuthInv, NEW ip \in Addresses, NEW user \in Usernames, HearLockout(ip, user)
  PROVE  AuthStep
<1> DEFINE P == Of("lockout", ip)
           x == Len(heard) + 1
           w == lockouts[ip]
           v == InWindow(w, user, now, LockoutSpan)
           storm == v.count >= ManyLockouts
           alerts == If(storm, {Alert("lockout_storm", ip, now)})
<1>1. /\ handling = NoEvent /\ Hear("lockout", ip, user) /\ UNCHANGED <<now, ipFailures, rests, handling>> /\ Raise(alerts)
      /\ lockouts'[ip] = (IF storm THEN [v EXCEPT !.count = 0] ELSE v)
      /\ DOMAIN lockouts' = Addresses /\ \A i \in Addresses : i # ip => lockouts'[i] = lockouts[i]
  BY DEF HearLockout, AuthInv
<1> HIDE DEF v
<1>2. (\A a \in alerts : a.at = now) /\ (storm => Alert("lockout_storm", ip, now) \in alerts)
  BY DEF Alert, If
<1> HIDE DEF alerts
<1>3. now \in Nat /\ now # Never /\ x \in Nat /\ Len(heard) \in Nat
  BY WatchNumbers
<1>4. /\ \A r \in reports' : r.at \in Int /\ r.at <= now
      /\ \A r \in reports' : r \in reports \/ r \in alerts
      /\ \A kinds, i, rest : rest \in Int => DueIn(reports, kinds, i, rest) \subseteq DueIn(reports', kinds, i, rest)
      /\ \A r \in reports : \E s \in reports' : s.kind = r.kind /\ s.ip = r.ip /\ s.at >= r.at
      /\ \A a \in alerts : a \in reports'
  BY <1>1, <1>2, RaisingNow
<1>5. user \in Said /\ "lockout" \in Sorts
  BY DEF Said, Sorts
<1>6. /\ WatchOK' /\ Len(heard') = x /\ Extends(Each(P)', heard', Each(P), heard, x, now)
      /\ \A k \in Sorts, i \in Addresses : <<k, i>> # <<"lockout", ip>> => Same(k, i)
  BY <1>1, <1>4, <1>5, Hearing
<1>7. Grown
  BY <1>1, <1>4, <1>6, Heard
<1>8. RestsOK'
  BY <1>1, <1>6, <1>7, RestsSame DEF AuthInv
<1>9. HandlingOK'
  BY <1>1 DEF HandlingOK
<1>10. IsTimeline(Each(P), heard) /\ DOMAIN Each(P) = P
  BY <1>5, Timelines
<1>11. \E b \in Nat : LockOK(ip, b)'
  <2>1. PICK b \in Nat : LockOK(ip, b)
    BY DEF AuthInv
  <2>2. /\ Fits(w, Each(P), x, now, b) /\ w.count = Cardinality(From(Each(P), b))
        /\ Kept(Each(P), heard, ManyLockouts, LockoutSpan, b, w.first, StormDue(reports, ip))
    BY <2>1 DEF LockOK
  <2> DEFINE c == Start(w, b, x, now, LockoutSpan)
  <2>3. LockoutSpan \in Int /\ LockoutSpan \in Nat /\ ManyLockouts \in Nat \ {0} /\ Each(P)' = Each(P') /\ w.first \in Int
    BY <2>2, AuthNumbers DEF Each, Fits
  <2>4. DOMAIN v = {"first", "count", "kinds"}
    BY WindowIs DEF v
  <2> HIDE DEF v, w, c, P, x
  <2>5. Fits(v, Each(P)', x + 1, now, c) /\ Moves(w, v, Each(P), x, now, b, c, LockoutSpan) /\ c \in Nat /\ v.first \in Int
    BY <1>3, <1>6, <2>2, <2>3, StartFits DEF v, c
  <2>6. v.count = Cardinality(From(Each(P)', c))
    <3>1. IsFiniteSet(P) /\ P \subseteq Nat
      BY <1>10 DEF IsTimeline
    <3>2. Counts(P, P', heard, heard', x, now, w, b, LockoutSpan)
      BY <1>6, <2>2, <2>3, <3>1 DEF Counts
    <3>3. v.count = Cardinality(From(Each(P'), c))
      BY <3>2, WindowCounts DEF v, c
    <3> QED BY <2>3, <3>3
  <2>7. CASE ~storm
    <3>1. Falls(Each(P), heard, Each(P)', heard', x, now, w, v, b, c, LockoutSpan)
      BY <1>6, <1>10, <2>3, <2>5 DEF Falls
    <3>2. ~(Cardinality(From(Each(P)', c)) >= ManyLockouts)
      BY <2>6, <2>7
    <3>3. IsDown(StormDue(reports, ip))
      BY DueAreDown
    <3>4. Kept(Each(P)', heard', ManyLockouts, LockoutSpan, c, v.first, StormDue(reports, ip))
      BY <2>2, <2>3, <3>1, <3>2, <3>3, FallsKept
    <3>5. StormDue(reports, ip) \subseteq StormDue(reports', ip)
      BY <1>4 DEF StormDue
    <3>6. Kept(Each(P)', heard', ManyLockouts, LockoutSpan, c, v.first, StormDue(reports', ip))
      BY <3>4, <3>5, KeptSame
    <3>7. PICK d \in Nat : d = c
      BY <2>5
    <3>8. lockouts'[ip] = v /\ Len(heard') + 1 = x + 1 /\ now' = now
      BY <1>1, <1>6, <2>7
    <3>9. LockOK(ip, d)'
      BY <2>5, <2>6, <3>6, <3>7, <3>8 DEF LockOK, P
    <3> QED BY <3>9
  <2>8. CASE storm
    <3>1. lockouts'[ip].first = v.first /\ lockouts'[ip].count = 0
      BY <1>1, <2>4, <2>8
    <3>2. PICK d \in Nat : d = x + 1
      BY <1>3
    <3>3. From(Each(P)', d) = {}
      <4>1. \A k \in DOMAIN Each(P)' : k < d
        BY <1>3, <1>6, <1>10, <3>2 DEF Extends, IsTimeline
      <4>2. \A k \in DOMAIN Each(P)' : k \in Nat
        BY <1>3, <1>6, <1>10 DEF Extends, IsTimeline
      <4>3. {k \in DOMAIN Each(P)' : k >= d} = {}
        BY <3>2, <4>1, <4>2
      <4> QED BY <4>3 DEF From
    <3>4. Cardinality(From(Each(P)', d)) = 0
      BY <3>3, FS_EmptySet
    <3>5. now \in StormDue(reports', ip)
      <4>1. PICK a \in reports' : a.kind = "lockout_storm" /\ a.ip = ip /\ a.at = now
        BY <1>2, <1>4, <2>8 DEF Alert
      <4>2. now > now - 1 /\ now \in Int
        BY <1>3
      <4> QED BY <4>1, <4>2 DEF StormDue, DueIn
    <3>6. IsDown(StormDue(reports', ip))
      BY <1>4, DueIsDown DEF StormDue
    <3>7. \A k \in DOMAIN Each(P)' : heard'[k].at \in StormDue(reports', ip)
      <4>1. \A k \in DOMAIN Each(P)' : heard'[k].at \in Int /\ heard'[k].at <= now
        <5>1. IsTimeline(Each(P)', heard')
          BY <1>6, <1>10, ExtendedTimeline
        <5> QED BY <1>6, <5>1 DEF Extends, IsTimeline
      <4> QED BY <4>1, <3>5, <3>6 DEF IsDown
    <3>8. Kept(Each(P)', heard', ManyLockouts, LockoutSpan, d, v.first, StormDue(reports', ip))
      BY <3>7, AllAreDue
    <3>9. Fits(lockouts'[ip], Each(P)', Len(heard') + 1, now', d)
      BY <1>1, <1>3, <1>6, <2>5, <3>1, <3>2 DEF Fits
    <3>10. LockOK(ip, d)'
      BY <3>1, <3>4, <3>8, <3>9 DEF LockOK, P
    <3> QED BY <3>10
  <2> QED BY <2>7, <2>8
<1>12. ASSUME NEW i \in Addresses PROVE (\E b \in Nat : GuessOK(i, b)') /\ (\E b \in Nat : LockOK(i, b)')
  <2>1. PICK b \in Nat : GuessOK(i, b)
    BY DEF AuthInv
  <2>2. Same("failure", i) /\ ipFailures'[i] = ipFailures[i]
    BY <1>1, <1>6 DEF Sorts
  <2>3. GuessOK(i, b)'
    BY <1>1, <1>7, <2>1, <2>2, GuessSame
  <2>4. CASE i = ip
    BY <1>11, <2>3, <2>4
  <2>5. CASE i # ip
    <3>1. PICK c \in Nat : LockOK(i, c)
      BY DEF AuthInv
    <3>2. Same("lockout", i) /\ lockouts'[i] = lockouts[i]
      BY <1>1, <1>5, <1>6, <2>5
    <3>3. LockOK(i, c)'
      BY <1>7, <3>1, <3>2, LockSame
    <3> QED BY <2>3, <3>3
  <2> QED BY <2>4, <2>5
<1>13. DOMAIN ipFailures' = Addresses
  BY <1>1 DEF AuthInv
<1>14. AuthInv'
  BY <1>1, <1>8, <1>9, <1>12, <1>13 DEF AuthInv
<1>15. \A k \in {"request", "syn", "query", "packet"}, i \in Addresses : Same(k, i)
  BY <1>6 DEF Sorts
<1> QED BY <1>6, <1>7, <1>14, <1>15 DEF AuthStep

\* A clean start: of the failures nothing is left to be reported.
LEMMA ResetStep ==
  ASSUME WatchOK, AuthInv, ResetAuthMonitor
  PROVE  AuthStep
<1>1. /\ ipFailures' = NoWindows /\ rests' = NoRests /\ UNCHANGED <<now, reports, lockouts, handling>>
      /\ heard' = [n \in DOMAIN heard |-> IF heard[n].kind = "failure" THEN Forgotten ELSE heard[n]]
  BY DEF ResetAuthMonitor
<1>2. heard \in Seq(Message) /\ Len(heard) \in Nat /\ DOMAIN heard = 1..Len(heard) /\ now \in Nat
      /\ \A n \in DOMAIN heard : heard[n] \in Message
  BY DEF WatchOK
<1>3. Forgotten \in Message /\ Forgotten.kind = "forgotten" /\ Forgotten.at = Never /\ Forgotten.ip = ""
  <2>1. Never \in Int /\ "" \in Said /\ "" \in Addresses \cup {""} /\ "forgotten" \in Sorts \cup {"forgotten"}
    BY DEF Never, Said
  <2> QED BY <2>1 DEF Message, Forgotten
<1> HIDE DEF Forgotten
<1>4. heard' \in Seq(Message) /\ Len(heard') = Len(heard) /\ DOMAIN heard' = DOMAIN heard
      /\ \A n \in DOMAIN heard : heard'[n] = IF heard[n].kind = "failure" THEN Forgotten ELSE heard[n]
  <2>1. \A n \in 1..Len(heard) : (IF heard[n].kind = "failure" THEN Forgotten ELSE heard[n]) \in Message
    BY <1>2, <1>3
  <2>2. heard' = [n \in 1..Len(heard) |-> IF heard[n].kind = "failure" THEN Forgotten ELSE heard[n]]
    BY <1>1, <1>2
  <2>3. heard' \in Seq(Message) /\ Len(heard') = Len(heard)
    BY <1>2, <2>1, <2>2
  <2> QED BY <1>1, <2>3
<1>5. WatchOK'
  <2>1. ReportsOK' /\ now' \in Nat
    BY <1>1 DEF WatchOK, ReportsOK
  <2>2. \A k \in DOMAIN heard' : heard'[k].at <= now'
    <3>1. \A k \in DOMAIN heard : heard'[k] = Forgotten \/ heard'[k] = heard[k]
      BY <1>4
    <3>2. now' \in Nat /\ Forgotten.at = -1 /\ now' = now
      BY <1>1, <1>2, <1>3 DEF Never
    <3>3. \A k \in DOMAIN heard : heard[k].at <= now
      BY DEF WatchOK
    <3>4. -1 <= now
      BY <1>2
    <3>5. DOMAIN heard' = DOMAIN heard
      BY <1>4
    <3> QED BY <3>1, <3>2, <3>3, <3>4, <3>5
  <2>3. \A k \in DOMAIN heard' : heard'[k].kind \in Sorts => heard'[k] = heard[k]
    BY <1>3, <1>4 DEF Sorts
  <2>4. \A j, k \in DOMAIN heard' : j <= k /\ heard'[j].kind \in Sorts /\ heard'[k].kind \in Sorts => heard'[j].at <= heard'[k].at
    BY <1>4, <2>3 DEF WatchOK
  <2> QED BY <1>4, <2>1, <2>2, <2>4 DEF WatchOK
<1>6. Grown
  BY <1>1, <1>2, <1>4, WatchNumbers DEF Grown
<1>7. \A k \in Sorts \ {"failure"}, i \in Addresses : Same(k, i)
  <2> SUFFICES ASSUME NEW k \in Sorts \ {"failure"}, NEW i \in Addresses PROVE Same(k, i)
    OBVIOUS
  <2>1. k # "failure" /\ k # "forgotten"
    BY DEF Sorts
  <2>2. \A n \in DOMAIN heard : heard[n].kind = k \/ heard'[n].kind = k => heard'[n] = heard[n]
    BY <1>3, <1>4, <2>1
  <2>3. Of(k, i)' = Of(k, i)
    BY <1>4, <2>2 DEF Of
  <2> QED BY <2>2, <2>3 DEF Same, Of
<1>8. \A i \in Addresses : Of("failure", i)' = {}
  BY <1>3, <1>4 DEF Of
<1>9. RestsOK'
  <2>1. DOMAIN rests' = Resting \X Addresses
    BY <1>1 DEF NoRests, Resting
  <2>2. \A kind \in Resting, ip \in Addresses : rests'[<<kind, ip>>] = Never
    BY <1>1 DEF NoRests, Resting
  <2> QED BY <2>1, <2>2 DEF RestsOK
<1>10. HandlingOK'
  BY <1>1, <1>6, HandlingSame DEF AuthInv
<1>11. ASSUME NEW i \in Addresses PROVE GuessOK(i, 0)'
  <2>1. ipFailures'[i] = Empty /\ Empty.first = Never /\ Empty.count = 0 /\ Empty.kinds = {}
    BY <1>1 DEF NoWindows, Empty
  <2>2. DOMAIN Each(Of("failure", i)') = {} /\ DOMAIN Whats(Of("failure", i))' = {} /\ Each(Of("failure", i))' = Each(Of("failure", i)')
    BY <1>8 DEF Each, Whats
  <2>3. From(Each(Of("failure", i))', 0) = {} /\ From(Whats(Of("failure", i))', 0) = {}
    BY <2>2 DEF From
  <2>4. Cardinality({}) = 0
    BY FS_EmptySet
  <2>5. Kept(Each(Of("failure", i))', heard', ManyGuesses, GuessSpan, 0, Never, BruteDue(reports', i))
    BY <2>2, AllAreDue
  <2>6. Kept(Whats(Of("failure", i))', heard', ManyUsers, GuessSpan, 0, Never, StuffingDue(reports', i))
    BY <2>2, AllAreDue
  <2>7. Fits(Empty, Each(Of("failure", i))', Len(heard') + 1, now', 0)
    BY <1>1, <1>2, <1>4, <2>1, <2>2 DEF Fits, Never
  <2> HIDE DEF Empty
  <2> QED BY <2>1, <2>3, <2>4, <2>5, <2>6, <2>7 DEF GuessOK
<1>12. ASSUME NEW i \in Addresses PROVE \E b \in Nat : LockOK(i, b)'
  <2>1. PICK b \in Nat : LockOK(i, b)
    BY DEF AuthInv
  <2>2. Same("lockout", i)
    BY <1>7 DEF Sorts
  <2>3. LockOK(i, b)'
    BY <1>1, <1>6, <2>1, <2>2, LockSame
  <2> QED BY <2>3
<1>13. DOMAIN ipFailures' = Addresses /\ DOMAIN lockouts' = Addresses
  BY <1>1 DEF AuthInv, NoWindows
<1>14. AuthInv'
  <2>1. 0 \in Nat
    OBVIOUS
  <2> QED BY <1>9, <1>10, <1>11, <1>12, <1>13, <2>1 DEF AuthInv
<1>15. \A k \in {"request", "syn", "query", "packet"}, i \in Addresses : Same(k, i)
  BY <1>7 DEF Sorts
<1> QED BY <1>5, <1>6, <1>14, <1>15 DEF AuthStep

LEMMA AuthKeeps ==
  ASSUME WatchOK, AuthInv, AuthMonNext
  PROVE  AuthStep
<1>1. CASE AuthMonTick
  BY <1>1, AuthTickStep
<1>2. CASE \E ip \in Addresses, u \in Usernames : HearFailure(ip, u) \/ HearSuccess(ip, u) \/ HearLockout(ip, u)
  BY <1>2, HearFailureStep, HearSuccessStep, HearLockoutStep
<1>3. CASE ReportGuessing
  BY <1>3, ReportGuessingStep
<1>4. CASE JudgeStuffing
  BY <1>4, JudgeStuffingStep
<1>5. CASE ReportStuffing
  BY <1>5, ReportStuffingStep
<1>6. CASE ResetAuthMonitor
  BY <1>6, ResetStep
<1> QED BY <1>1, <1>2, <1>3, <1>4, <1>5, <1>6 DEF AuthMonNext

LEMMA KeptIsReported ==
  ASSUME NEW F, NEW N, NEW span, NEW b, NEW first, NEW kinds, NEW ip, NEW rest, NEW late,
         Kept(F, heard, N, span, b, first, DueIn(reports, kinds, ip, rest))
  PROVE  BurstsReported(F, 2 * N - 1, span, rest, late, kinds, ip)
<1> SUFFICES ASSUME NEW m \in DOMAIN F, NEW n \in DOMAIN F, IsBurst(F, m, n, 2 * N - 1, span)
             PROVE  AlertSince(kinds, ip, heard[m].at - rest)
  BY DEF BurstsReported
<1>1. m <= n /\ heard[n].at - heard[m].at <= span /\ Cardinality(Between(F, m, n)) >= 2 * N - 1
  BY DEF IsBurst, Between
<1>2. heard[m].at \in DueIn(reports, kinds, ip, rest)
  BY <1>1 DEF Kept
<1> QED BY <1>2 DEF DueIn, AlertSince

LEMMA GuessingReported ==
  ASSUME AuthInv
  PROVE  GuessingIsReported
<1> SUFFICES ASSUME handling = NoEvent, NEW ip \in Addresses
             PROVE  /\ BurstsReported(Each(Of("failure", ip)), 2 * ManyGuesses - 1, GuessSpan, GuessRest, 0, {"brute_force"}, ip)
                    /\ BurstsReported(Whats(Of("failure", ip)), 2 * ManyUsers - 1, GuessSpan, StuffingRest, 0,
                                      {"credential_stuffing", "too_late"}, ip)
                    /\ BurstsReported(Each(Of("lockout", ip)), 2 * ManyLockouts - 1, LockoutSpan, 1, 0, {"lockout_storm"}, ip)
  BY DEF GuessingIsReported
<1>1. \A steps \in SUBSET {"guessing", "judge", "stuffing"} : ~IsHandled(ip, steps)
  BY DEF IsHandled, NoEvent
<1>2. PICK b \in Nat : GuessOK(ip, b)
  BY DEF AuthInv
<1>3. Kept(Each(Of("failure", ip)), heard, ManyGuesses, GuessSpan, b, ipFailures[ip].first, DueIn(reports, {"brute_force"}, ip, GuessRest))
  BY <1>1, <1>2 DEF GuessOK, BruteDue
<1>4. Kept(Whats(Of("failure", ip)), heard, ManyUsers, GuessSpan, b, ipFailures[ip].first,
           DueIn(reports, {"credential_stuffing", "too_late"}, ip, StuffingRest))
  BY <1>1, <1>2 DEF GuessOK, StuffingDue
<1>5. PICK c \in Nat : LockOK(ip, c)
  BY DEF AuthInv
<1>6. Kept(Each(Of("lockout", ip)), heard, ManyLockouts, LockoutSpan, c, lockouts[ip].first, DueIn(reports, {"lockout_storm"}, ip, 1))
  BY <1>5 DEF LockOK, StormDue
<1> QED BY <1>3, <1>4, <1>6, KeptIsReported

LEMMA AuthStarts ==
  ASSUME AuthMonInit
  PROVE  WatchOK /\ AuthInv
<1>1. now = 0 /\ heard = <<>> /\ reports = {} /\ ipFailures = NoWindows /\ lockouts = NoWindows /\ rests = NoRests /\ handling = NoEvent
  BY DEF AuthMonInit, WatchInit
<1>2. WatchOK
  BY <1>1 DEF WatchOK, ReportsOK
<1>3. \A i, kind : DOMAIN Each(Of(kind, i)) = {} /\ DOMAIN Whats(Of(kind, i)) = {}
  BY <1>1 DEF Of, Each, Whats
<1>4. \A i, kind : From(Each(Of(kind, i)), 0) = {} /\ From(Whats(Of(kind, i)), 0) = {}
  BY <1>3 DEF From
<1>5. Cardinality({}) = 0
  BY FS_EmptySet
<1>6. Empty.first = Never /\ Empty.count = 0 /\ Empty.kinds = {}
  BY DEF Empty
<1>7. \A i, kind : Fits(Empty, Each(Of(kind, i)), Len(heard) + 1, now, 0)
  BY <1>1, <1>3, <1>6 DEF Fits, Never
<1> HIDE DEF Empty
<1>8. ASSUME NEW i \in Addresses PROVE GuessOK(i, 0) /\ LockOK(i, 0)
  <2>1. ipFailures[i] = Empty /\ lockouts[i] = Empty
    BY <1>1 DEF NoWindows
  <2>2. /\ Kept(Each(Of("failure", i)), heard, ManyGuesses, GuessSpan, 0, ipFailures[i].first, BruteDue(reports, i))
        /\ Kept(Whats(Of("failure", i)), heard, ManyUsers, GuessSpan, 0, ipFailures[i].first, StuffingDue(reports, i))
        /\ Kept(Each(Of("lockout", i)), heard, ManyLockouts, LockoutSpan, 0, lockouts[i].first, StormDue(reports, i))
    BY <1>3, AllAreDue
  <2> QED BY <1>4, <1>5, <1>6, <1>7, <2>1, <2>2 DEF GuessOK, LockOK
<1>9. DOMAIN ipFailures = Addresses /\ DOMAIN lockouts = Addresses
  BY <1>1 DEF NoWindows
<1>10. RestsOK
  <2>1. DOMAIN rests = Resting \X Addresses
    BY <1>1 DEF NoRests, Resting
  <2>2. \A kind \in Resting, ip \in Addresses : rests[<<kind, ip>>] = Never
    BY <1>1 DEF NoRests, Resting
  <2> QED BY <2>1, <2>2 DEF RestsOK
<1>11. HandlingOK
  BY <1>1 DEF HandlingOK
<1>12. 0 \in Nat
  OBVIOUS
<1> QED BY <1>2, <1>8, <1>9, <1>10, <1>11, <1>12 DEF AuthInv

-----------------------------------------------------------------------------
(* The API monitor *)

FloodDue(R, ip) == DueIn(R, {"rate_abuse"}, ip, 0)
NamesDue(R, ip) == DueIn(R, {"rate_abuse", "endpoint_enumeration"}, ip, 0)

\* A window is judged when it is over, and nothing in it was heard after its span.
FloodOK(ip, b) ==
  /\ Fits(requestWindow[ip], Each(Of("request", ip)), Len(heard) + 1, now, b)
  /\ requestWindow[ip].count = Cardinality(From(Each(Of("request", ip)), b))
  /\ requestWindow[ip].kinds = From(Whats(Of("request", ip)), b)
  /\ Closed(Each(Of("request", ip)), heard, ManyRequests + 1, RateSpan, b, requestWindow[ip].first, FloodDue(reports, ip))
  /\ Closed(Whats(Of("request", ip)), heard, ManyEndpoints + 1, RateSpan, b, requestWindow[ip].first, NamesDue(reports, ip))

FloodInv == DOMAIN requestWindow = Addresses /\ \A ip \in Addresses : \E b \in Nat : FloodOK(ip, b)

LEMMA FloodNumbers ==
  ManyRequests + 1 \in Nat \ {0} /\ ManyEndpoints + 1 \in Nat \ {0} /\ RateSpan \in Nat /\ RateSpan \in Int
  /\ ManyRequests \in Nat /\ ManyEndpoints \in Nat
<1>1. ManyRequests \in Nat /\ ManyEndpoints \in Nat /\ RateSpan \in Nat
  BY MonitorsAssumption
<1> QED BY <1>1

LEMMA FloodSame ==
  ASSUME NEW ip \in Addresses, NEW b \in Nat, FloodOK(ip, b), Same("request", ip), requestWindow'[ip] = requestWindow[ip], Grown
  PROVE  FloodOK(ip, b)'
<1> DEFINE P == Of("request", ip)
           w == requestWindow[ip]
<1>1. P' = P /\ Each(P)' = Each(P) /\ Whats(P)' = Whats(P) /\ \A k \in P : heard'[k] = heard[k]
  BY DEF Same, Each, Whats
<1>2. DOMAIN Each(P) = P /\ DOMAIN Whats(P) = P
  BY DEF Each, Whats
<1>3. Fits(w, Each(P), Len(heard') + 1, now', b)
  <2>1. Len(heard) + 1 \in Int /\ Len(heard') + 1 \in Int /\ now \in Int /\ now' \in Int
        /\ Len(heard) + 1 <= Len(heard') + 1 /\ now <= now'
    BY DEF Grown
  <2>2. Fits(w, Each(P), Len(heard) + 1, now, b)
    BY DEF FloodOK
  <2> HIDE DEF w, P
  <2> QED BY <2>1, <2>2, FitsLater
<1>4. FloodDue(reports, ip) \subseteq FloodDue(reports', ip) /\ NamesDue(reports, ip) \subseteq NamesDue(reports', ip)
  BY DEF Grown, FloodDue, NamesDue
<1>5. /\ Closed(Each(P), heard, ManyRequests + 1, RateSpan, b, w.first, FloodDue(reports, ip))
      /\ Closed(Whats(P), heard, ManyEndpoints + 1, RateSpan, b, w.first, NamesDue(reports, ip))
  BY DEF FloodOK
<1>6. /\ Closed(Each(P), heard', ManyRequests + 1, RateSpan, b, w.first, FloodDue(reports', ip))
      /\ Closed(Whats(P), heard', ManyEndpoints + 1, RateSpan, b, w.first, NamesDue(reports', ip))
  <2> HIDE DEF P, w
  <2> QED BY <1>1, <1>2, <1>4, <1>5, ClosedSame
<1>7. w.count = Cardinality(From(Each(P), b)) /\ w.kinds = From(Whats(P), b) /\ requestWindow'[ip] = w
  BY DEF FloodOK
<1> HIDE DEF w
<1> QED BY <1>1, <1>3, <1>6, <1>7 DEF FloodOK

LEMMA FloodSteady ==
  ASSUME FloodInv, Grown, UNCHANGED requestWindow, \A ip \in Addresses : Same("request", ip)
  PROVE  FloodInv'
<1>1. ASSUME NEW ip \in Addresses PROVE \E b \in Nat : FloodOK(ip, b)'
  <2>1. PICK b \in Nat : FloodOK(ip, b)
    BY DEF FloodInv
  <2>2. FloodOK(ip, b)'
    BY <2>1, FloodSame
  <2> QED BY <2>2
<1> QED BY <1>1 DEF FloodInv

\* Nothing is later than the end of a window that is over.
LEMMA ClosedIsPast ==
  ASSUME NEW F, NEW h, IsTimeline(F, h), NEW N, NEW span \in Nat, NEW b \in Nat, NEW w, NEW D, NEW x, NEW t \in Int,
         Fits(w, F, x, t, b), Closed(F, h, N, span, b, w.first, D), Over(w, t, span)
  PROVE  \A k \in DOMAIN F : h[k].at \in Int /\ h[k].at < t
<1> SUFFICES ASSUME NEW k \in DOMAIN F PROVE h[k].at \in Int /\ h[k].at < t
  OBVIOUS
<1>1. h[k].at \in Int /\ k \in Nat /\ w.first \in Int /\ t - w.first > span
  BY DEF IsTimeline, Fits, Over
<1>2. h[k].at <= w.first + span
  <2>1. CASE k < b
    <3>1. h[k].at <= w.first
      BY <2>1 DEF Closed
    <3> QED BY <3>1, <1>1
  <2>2. CASE k >= b
    BY <2>2 DEF Closed
  <2> QED BY <2>1, <2>2, <1>1
<1> QED BY <1>1, <1>2

ApiStep ==
  /\ WatchOK' /\ Grown /\ FloodInv'
  /\ \A k \in Sorts \ {"request"}, i \in Addresses : Same(k, i)
  /\ \A r \in reports' : r.kind \in GuessAlerts => r \in reports

LEMMA HearRequestStep ==
  ASSUME WatchOK, FloodInv, NEW ip \in Addresses, NEW r \in ApiRequests, HearRequest(ip, r)
  PROVE  ApiStep
<1> DEFINE P == Of("request", ip)
           x == Len(heard) + 1
           w == requestWindow[ip]
           v == InWindow(w, r.endpoint, now, RateSpan)
           found == Found(r) \cup If(Over(w, now, RateSpan), Judged(w)) \cup If(r.endpoint \in Sensitive, {"sensitive_access"})
           alerts == {Alert(kind, ip, now) : kind \in found}
<1>1. /\ Hear("request", ip, r.endpoint) /\ Raise(alerts) /\ now' = now
      /\ requestWindow'[ip] = v
      /\ DOMAIN requestWindow' = Addresses /\ \A i \in Addresses : i # ip => requestWindow'[i] = requestWindow[i]
  BY DEF HearRequest, Report, FloodInv
<1>2. /\ found \subseteq {"sql_injection", "path_traversal", "rate_abuse", "endpoint_enumeration", "sensitive_access"}
      /\ Over(w, now, RateSpan) => Judged(w) \subseteq found
  BY DEF Found, If, Judged
<1> HIDE DEF v, found
<1>3. /\ \A a \in alerts : a.at = now /\ a.kind \notin GuessAlerts
      /\ \A kind \in found : \E a \in alerts : a.kind = kind /\ a.ip = ip /\ a.at = now
  <2>1. \A kind : Alert(kind, ip, now).kind = kind /\ Alert(kind, ip, now).ip = ip /\ Alert(kind, ip, now).at = now
    BY DEF Alert
  <2>2. \A kind \in found : kind \notin GuessAlerts
    BY <1>2 DEF GuessAlerts
  <2>3. \A kind \in found : Alert(kind, ip, now) \in alerts
    OBVIOUS
  <2>4. \A a \in alerts : \E kind \in found : a = Alert(kind, ip, now)
    OBVIOUS
  <2> HIDE DEF alerts
  <2> QED BY <2>1, <2>2, <2>3, <2>4
<1> HIDE DEF alerts
<1>4. now \in Nat /\ now # Never /\ x \in Nat /\ Len(heard) \in Nat
  BY WatchNumbers
<1>5. /\ \A e \in reports' : e.at \in Int /\ e.at <= now
      /\ \A e \in reports' : e \in reports \/ e \in alerts
      /\ \A kinds, i, rest : rest \in Int => DueIn(reports, kinds, i, rest) \subseteq DueIn(reports', kinds, i, rest)
      /\ \A e \in reports : \E s \in reports' : s.kind = e.kind /\ s.ip = e.ip /\ s.at >= e.at
      /\ \A a \in alerts : a \in reports'
  BY <1>1, <1>3, RaisingNow
<1>6. r.endpoint \in Said /\ "request" \in Sorts
  BY DEF Said, Sorts
<1>7. /\ WatchOK' /\ Len(heard') = x /\ Extends(Each(P)', heard', Each(P), heard, x, now)
      /\ Extends(Whats(P)', heard', Whats(P), heard, x, now) /\ Whats(P)'[x] = r.endpoint
      /\ \A k \in Sorts, i \in Addresses : <<k, i>> # <<"request", ip>> => Same(k, i)
  BY <1>1, <1>5, <1>6, Hearing
<1>8. Grown
  BY <1>1, <1>5, <1>7, Heard
<1>9. IsTimeline(Each(P), heard) /\ IsTimeline(Whats(P), heard) /\ DOMAIN Each(P) = P /\ DOMAIN Whats(P) = P
  BY <1>6, Timelines
<1>10. PICK b \in Nat : FloodOK(ip, b)
  BY DEF FloodInv
<1>11. /\ Fits(w, Each(P), x, now, b) /\ w.count = Cardinality(From(Each(P), b)) /\ w.kinds = From(Whats(P), b)
       /\ Closed(Each(P), heard, ManyRequests + 1, RateSpan, b, w.first, FloodDue(reports, ip))
       /\ Closed(Whats(P), heard, ManyEndpoints + 1, RateSpan, b, w.first, NamesDue(reports, ip))
  BY <1>10 DEF FloodOK
<1>12. w.first \in Int /\ Fits(w, Whats(P), x, now, b) /\ Each(P)' = Each(P')
  BY <1>9, <1>11 DEF Fits, Each
<1> DEFINE c == Start(w, b, x, now, RateSpan)
<1> HIDE DEF w, c, P, x
<1>13. Fits(v, Each(P)', x + 1, now, c) /\ Moves(w, v, Each(P), x, now, b, c, RateSpan) /\ c \in Nat /\ v.first \in Int
  BY <1>4, <1>7, <1>11, FloodNumbers, StartFits DEF v, c
<1>14. v.kinds = From(Whats(P)', c)
  BY <1>4, <1>7, <1>9, <1>11, <1>12, FloodNumbers, StartLists DEF v, c, IsTimeline
<1>15. v.count = Cardinality(From(Each(P)', c))
  <2>1. IsFiniteSet(P) /\ P \subseteq Nat
    BY <1>9 DEF IsTimeline
  <2>2. Counts(P, P', heard, heard', x, now, w, b, RateSpan)
    BY <1>7, <1>11, <1>12, <2>1, FloodNumbers DEF Counts
  <2>3. v.count = Cardinality(From(Each(P'), c))
    BY <2>2, WindowCounts DEF v, c
  <2> QED BY <1>12, <2>3
<1>16. /\ Falls(Each(P), heard, Each(P)', heard', x, now, w, v, b, c, RateSpan)
       /\ Falls(Whats(P), heard, Whats(P)', heard', x, now, w, v, b, c, RateSpan)
  <2>1. Moves(w, v, Whats(P), x, now, b, c, RateSpan)
    BY <1>9, <1>13 DEF Moves
  <2> QED BY <1>7, <1>9, <1>12, <1>13, <2>1, FloodNumbers DEF Falls
<1>17. Over(w, now, RateSpan) => \A k \in P : heard[k].at \in Int /\ heard[k].at < now
  <2> SUFFICES ASSUME Over(w, now, RateSpan) PROVE \A k \in DOMAIN Each(P) : heard[k].at \in Int /\ heard[k].at < now
    BY <1>9
  <2>1. now \in Int
    BY <1>4
  <2>2. IsTimeline(Each(P), heard) /\ RateSpan \in Nat /\ Fits(w, Each(P), x, now, b)
        /\ Closed(Each(P), heard, ManyRequests + 1, RateSpan, b, w.first, FloodDue(reports, ip))
    BY <1>9, <1>11, FloodNumbers
  <2> QED BY <2>1, <2>2, ClosedIsPast
<1>18. w.count \in Nat /\ Cardinality(w.kinds) \in Nat
  <2>1. PartsFit(Each(P)) /\ PartsFit(Whats(P))
    BY <1>9, Parts DEF IsTimeline
  <2> QED BY <2>1, <1>11 DEF PartsFit
<1>19. Over(w, now, RateSpan) /\ w.count >= ManyRequests + 1 => "rate_abuse" \in found
  BY <1>2, <1>18, FloodNumbers DEF Judged
<1>20. Over(w, now, RateSpan) /\ Cardinality(w.kinds) >= ManyEndpoints + 1 => "rate_abuse" \in found \/ "endpoint_enumeration" \in found
  <2>1. Cardinality(w.kinds) >= ManyEndpoints + 1 => Cardinality(w.kinds) > ManyEndpoints
    BY <1>18, FloodNumbers
  <2> QED BY <1>2, <2>1 DEF Judged, If
<1>21. ASSUME NEW kinds, NEW kind \in kinds, kind \in found, NEW t \in Int, t < now PROVE t \in DueIn(reports', kinds, ip, 0)
  <2>1. PICK a \in reports' : a.kind = kind /\ a.ip = ip /\ a.at = now
    BY <1>3, <1>5, <1>21
  <2>2. a.at > t - 0
    BY <1>4, <1>21, <2>1
  <2> QED BY <1>21, <2>1, <2>2 DEF DueIn
<1>22. Closed(Each(P)', heard', ManyRequests + 1, RateSpan, c, v.first, FloodDue(reports', ip))
  <2>1. ASSUME Over(w, now, RateSpan), Cardinality(From(Each(P), b)) >= ManyRequests + 1, NEW k \in P
        PROVE  heard[k].at \in FloodDue(reports', ip)
    BY <2>1, <1>11, <1>17, <1>19, <1>21 DEF FloodDue
  <2>2. FloodDue(reports, ip) \subseteq FloodDue(reports', ip)
    BY <1>5 DEF FloodDue
  <2> QED BY <1>9, <1>11, <1>16, <2>1, <2>2, FloodNumbers, FallsClosed
<1>23. Closed(Whats(P)', heard', ManyEndpoints + 1, RateSpan, c, v.first, NamesDue(reports', ip))
  <2>1. ASSUME Over(w, now, RateSpan), Cardinality(From(Whats(P), b)) >= ManyEndpoints + 1, NEW k \in P
        PROVE  heard[k].at \in NamesDue(reports', ip)
    BY <2>1, <1>11, <1>17, <1>20, <1>21 DEF NamesDue
  <2>2. NamesDue(reports, ip) \subseteq NamesDue(reports', ip)
    BY <1>5 DEF NamesDue
  <2> QED BY <1>9, <1>11, <1>16, <2>1, <2>2, FloodNumbers, FallsClosed
<1>24. PICK d \in Nat : d = c
  BY <1>13
<1>25. FloodOK(ip, d)'
  <2>1. Fits(requestWindow'[ip], Each(P)', Len(heard') + 1, now', c)
    BY <1>1, <1>7, <1>13
  <2> QED BY <1>1, <1>14, <1>15, <1>22, <1>23, <1>24, <2>1 DEF FloodOK, P
<1>26. ASSUME NEW i \in Addresses PROVE \E e \in Nat : FloodOK(i, e)'
  <2>1. CASE i = ip
    BY <1>25, <2>1
  <2>2. CASE i # ip
    <3>1. PICK e \in Nat : FloodOK(i, e)
      BY DEF FloodInv
    <3>2. Same("request", i) /\ requestWindow'[i] = requestWindow[i]
      BY <1>1, <1>6, <1>7, <2>2
    <3>3. FloodOK(i, e)'
      BY <1>8, <3>1, <3>2, FloodSame
    <3> QED BY <3>3
  <2> QED BY <2>1, <2>2
<1>27. FloodInv'
  BY <1>1, <1>26 DEF FloodInv
<1>28. \A k \in Sorts \ {"request"}, i \in Addresses : Same(k, i)
  BY <1>7
<1>29. \A e \in reports' : e.kind \in GuessAlerts => e \in reports
  BY <1>3, <1>5
<1> QED BY <1>7, <1>8, <1>27, <1>28, <1>29 DEF ApiStep

LEMMA ApiKeeps ==
  ASSUME WatchOK, FloodInv, ApiMonNext
  PROVE  ApiStep
<1>1. CASE ApiMonTick
  <2>1. reports' = reports /\ heard' = heard /\ now' \in Nat /\ now <= now' /\ UNCHANGED requestWindow
    BY <1>1 DEF ApiMonTick, Tick, WatchOK
  <2>2. WatchOK' /\ Grown /\ (\A k \in Sorts, i \in Addresses : Same(k, i)) /\ \A r \in reports' : r \in reports
    BY <2>1, NothingRaised
  <2>3. FloodInv'
    BY <2>1, <2>2, FloodSteady DEF Sorts
  <2> QED BY <2>2, <2>3 DEF ApiStep
<1>2. CASE \E ip \in Addresses, r \in ApiRequests : HearRequest(ip, r)
  BY <1>2, HearRequestStep
<1> QED BY <1>1, <1>2 DEF ApiMonNext

LEMMA FloodsReported ==
  ASSUME WatchOK, FloodInv
  PROVE  FloodsAreReported
<1> SUFFICES ASSUME NEW ip \in Addresses
             PROVE  /\ BurstsReported(Each(Of("request", ip)), 2 * ManyRequests + 1, RateSpan, 0, RateSpan + 1, {"rate_abuse"}, ip)
                    /\ BurstsReported(Whats(Of("request", ip)), 2 * ManyEndpoints + 1, RateSpan, 0, RateSpan + 1,
                                      {"rate_abuse", "endpoint_enumeration"}, ip)
  BY DEF FloodsAreReported
<1>1. PICK b \in Nat : FloodOK(ip, b)
  BY DEF FloodInv
<1>2. requestWindow[ip].first \in Int
  BY <1>1 DEF FloodOK, Fits
<1>3. IsTimeline(Each(Of("request", ip)), heard) /\ IsTimeline(Whats(Of("request", ip)), heard)
  BY Timelines DEF Sorts
<1>4. ASSUME NEW F, IsTimeline(F, heard), NEW N \in Nat, NEW kinds,
             Closed(F, heard, N + 1, RateSpan, b, requestWindow[ip].first, DueIn(reports, kinds, ip, 0))
      PROVE  BurstsReported(F, 2 * N + 1, RateSpan, 0, RateSpan + 1, kinds, ip)
  <2> SUFFICES ASSUME NEW m \in DOMAIN F, NEW n \in DOMAIN F, IsBurst(F, m, n, 2 * N + 1, RateSpan),
                      NEW l \in DOMAIN F, heard[l].at - heard[n].at >= RateSpan + 1
               PROVE  AlertSince(kinds, ip, heard[m].at - 0)
    BY DEF BurstsReported
  <2>1. m <= n /\ heard[n].at - heard[m].at <= RateSpan /\ Cardinality(Between(F, m, n)) >= 2 * N + 1
    BY DEF IsBurst, Between
  <2>2. 2 * (N + 1) - 1 = 2 * N + 1 /\ N + 1 \in Nat \ {0}
    OBVIOUS
  <2>3. heard[m].at \in DueIn(reports, kinds, ip, 0)
    BY <1>2, <1>4, <2>1, <2>2, FloodNumbers, ClosedIsDue
  <2> QED BY <2>3 DEF DueIn, AlertSince
<1>5. /\ Closed(Each(Of("request", ip)), heard, ManyRequests + 1, RateSpan, b, requestWindow[ip].first, DueIn(reports, {"rate_abuse"}, ip, 0))
      /\ Closed(Whats(Of("request", ip)), heard, ManyEndpoints + 1, RateSpan, b, requestWindow[ip].first,
                DueIn(reports, {"rate_abuse", "endpoint_enumeration"}, ip, 0))
  BY <1>1 DEF FloodOK, FloodDue, NamesDue
<1> QED BY <1>3, <1>4, <1>5, FloodNumbers

LEMMA ApiStarts ==
  ASSUME ApiMonInit
  PROVE  FloodInv
<1>1. now = 0 /\ heard = <<>> /\ requestWindow = [ip \in Addresses |-> Empty]
  BY DEF ApiMonInit, WatchInit
<1>2. \A i : DOMAIN Each(Of("request", i)) = {} /\ DOMAIN Whats(Of("request", i)) = {}
  BY <1>1 DEF Of, Each, Whats
<1>3. \A i : From(Each(Of("request", i)), 0) = {} /\ From(Whats(Of("request", i)), 0) = {}
  BY <1>2 DEF From
<1>4. Cardinality({}) = 0
  BY FS_EmptySet
<1>5. Empty.first = Never /\ Empty.count = 0 /\ Empty.kinds = {}
  BY DEF Empty
<1>6. \A i : Fits(Empty, Each(Of("request", i)), Len(heard) + 1, now, 0)
  BY <1>1, <1>2, <1>5 DEF Fits, Never
<1> HIDE DEF Empty
<1>7. ASSUME NEW i \in Addresses PROVE FloodOK(i, 0)
  <2>1. requestWindow[i] = Empty
    BY <1>1
  <2>2. /\ Closed(Each(Of("request", i)), heard, ManyRequests + 1, RateSpan, 0, Never, FloodDue(reports, i))
        /\ Closed(Whats(Of("request", i)), heard, ManyEndpoints + 1, RateSpan, 0, Never, NamesDue(reports, i))
    BY <1>2 DEF Closed
  <2> QED BY <1>3, <1>4, <1>5, <1>6, <2>1, <2>2 DEF FloodOK
<1>8. 0 \in Nat /\ DOMAIN requestWindow = Addresses
  BY <1>1
<1> QED BY <1>7, <1>8 DEF FloodInv

-----------------------------------------------------------------------------
(* The network monitor *)

ScanDue(R, ip) == DueIn(R, {"port_scan"}, ip, ScanRest)
TunnelDue(R, ip) == DueIn(R, {"dns_tunneling"}, ip, 1)

ScanOK(ip, b) ==
  /\ Fits(syns[ip], Whats(Of("syn", ip)), Len(heard) + 1, now, b)
  /\ syns[ip].kinds = From(Whats(Of("syn", ip)), b)
  /\ Kept(Whats(Of("syn", ip)), heard, ManyPorts, ScanSpan, b, syns[ip].first, ScanDue(reports, ip))

\* Who rests has been reported.
LastOK ==
  \A ip \in Addresses : lastScan[ip] # Never =>
    lastScan[ip] \in Int /\ \E r \in reports : r.kind = "port_scan" /\ r.ip = ip /\ r.at >= lastScan[ip]

\* S: the places of the queries that are remembered, of those at P.
Query(h, n) == [no |-> n, at |-> h[n].at, high |-> h[n].what]

Remembered(P, h, S, D) ==
  /\ S \subseteq P
  /\ (\A n \in P : h[n].what) =>
       /\ \A k \in P : k \in S \/ h[k].at \in D \/ \E l \in P : h[l].at - h[k].at >= QuerySpan
       /\ \A m, n \in P : m <= n /\ h[n].at - h[m].at <= QuerySpan - 1 /\ Cardinality(Between(Each(P), m, n)) >= ManyQueries
                          => h[m].at \in D

QueryOK(ip, S) ==
  /\ queries[ip] = {Query(heard, n) : n \in S}
  /\ Remembered(Of("query", ip), heard, S, TunnelDue(reports, ip))

ScanInv ==
  /\ DOMAIN syns = Addresses /\ DOMAIN lastScan = Addresses /\ DOMAIN queries = Addresses /\ LastOK
  /\ \A ip \in Addresses : \E b \in Nat : ScanOK(ip, b)
  /\ \A ip \in Addresses : \E S : QueryOK(ip, S)

LEMMA ScanNumbers ==
  /\ ManyPorts \in Nat \ {0} /\ ManyQueries \in Nat \ {0} /\ ScanSpan \in Nat /\ ScanSpan \in Int
  /\ ScanRest \in Nat \ {0} /\ ScanRest \in Int /\ QuerySpan \in Nat \ {0}
<1>1. ManyPorts \in Nat \ {0} /\ ManyQueries \in Nat \ {0} /\ ScanSpan \in Nat /\ ScanRest \in Nat \ {0} /\ QuerySpan \in Nat \ {0}
  BY MonitorsAssumption
<1> QED BY <1>1

LEMMA ScanSame ==
  ASSUME NEW ip \in Addresses, NEW b \in Nat, ScanOK(ip, b), Same("syn", ip), syns'[ip] = syns[ip], Grown
  PROVE  ScanOK(ip, b)'
<1> DEFINE P == Of("syn", ip)
           w == syns[ip]
<1>1. P' = P /\ Whats(P)' = Whats(P) /\ \A k \in P : heard'[k] = heard[k]
  BY DEF Same, Whats
<1>2. DOMAIN Whats(P) = P
  BY DEF Whats
<1>3. Fits(w, Whats(P), Len(heard') + 1, now', b)
  <2>1. Len(heard) + 1 \in Int /\ Len(heard') + 1 \in Int /\ now \in Int /\ now' \in Int
        /\ Len(heard) + 1 <= Len(heard') + 1 /\ now <= now'
    BY DEF Grown
  <2>2. Fits(w, Whats(P), Len(heard) + 1, now, b)
    BY DEF ScanOK
  <2> HIDE DEF w, P
  <2> QED BY <2>1, <2>2, FitsLater
<1>4. ScanDue(reports, ip) \subseteq ScanDue(reports', ip)
  BY ScanNumbers DEF Grown, ScanDue
<1>5. Kept(Whats(P), heard, ManyPorts, ScanSpan, b, w.first, ScanDue(reports, ip))
  BY DEF ScanOK
<1>6. Kept(Whats(P), heard', ManyPorts, ScanSpan, b, w.first, ScanDue(reports', ip))
  <2> HIDE DEF P, w
  <2> QED BY <1>1, <1>2, <1>4, <1>5, KeptSame
<1>7. w.kinds = From(Whats(P), b) /\ syns'[ip] = w
  BY DEF ScanOK
<1> HIDE DEF w
<1> QED BY <1>1, <1>3, <1>6, <1>7 DEF ScanOK

LEMMA QuerySame ==
  ASSUME NEW ip \in Addresses, NEW S, QueryOK(ip, S), Same("query", ip), queries'[ip] = queries[ip], Grown
  PROVE  QueryOK(ip, S)'
<1> DEFINE P == Of("query", ip)
<1>1. P' = P /\ \A k \in P : heard'[k] = heard[k]
  BY DEF Same
<1>2. TunnelDue(reports, ip) \subseteq TunnelDue(reports', ip)
  BY DEF Grown, TunnelDue
<1>3. S \subseteq P /\ queries[ip] = {Query(heard, n) : n \in S} /\ Remembered(P, heard, S, TunnelDue(reports, ip))
  BY DEF QueryOK, Remembered
<1>4. \A n \in S : Query(heard', n) = Query(heard, n)
  BY <1>1, <1>3 DEF Query
<1>5. queries'[ip] = {Query(heard', n) : n \in S}
  BY <1>3, <1>4
<1> HIDE DEF P
<1>6. Remembered(P, heard', S, TunnelDue(reports', ip))
  BY <1>1, <1>2, <1>3 DEF Remembered
<1> QED BY <1>1, <1>5, <1>6 DEF QueryOK, P

LEMMA LastSame ==
  ASSUME WatchOK, WatchOK', LastOK, Grown, lastScan' = lastScan
  PROVE  LastOK'
<1> SUFFICES ASSUME NEW ip \in Addresses, lastScan[ip] # Never
             PROVE  lastScan[ip] \in Int /\ \E s \in reports' : s.kind = "port_scan" /\ s.ip = ip /\ s.at >= lastScan[ip]
  BY DEF LastOK
<1>1. PICK r \in reports : r.kind = "port_scan" /\ r.ip = ip /\ r.at >= lastScan[ip]
  BY DEF LastOK
<1>2. PICK s \in reports' : s.kind = r.kind /\ s.ip = r.ip /\ s.at >= r.at
  BY DEF Grown
<1>3. lastScan[ip] \in Int /\ r.at \in Int /\ s.at \in Int
  BY DEF LastOK, WatchOK, ReportsOK
<1>4. s.at >= lastScan[ip]
  BY <1>1, <1>2, <1>3
<1> QED BY <1>1, <1>2, <1>3, <1>4

LEMMA ScanSteady ==
  ASSUME WatchOK, WatchOK', ScanInv, Grown, UNCHANGED <<syns, lastScan, queries>>,
         \A ip \in Addresses : Same("syn", ip) /\ Same("query", ip)
  PROVE  ScanInv'
<1>1. ASSUME NEW ip \in Addresses PROVE (\E b \in Nat : ScanOK(ip, b)') /\ (\E S : QueryOK(ip, S)')
  <2>1. PICK b \in Nat : ScanOK(ip, b)
    BY DEF ScanInv
  <2>2. ScanOK(ip, b)'
    BY <2>1, ScanSame
  <2>3. PICK S : QueryOK(ip, S)
    BY DEF ScanInv
  <2>4. QueryOK(ip, S)'
    BY <2>3, QuerySame
  <2> QED BY <2>2, <2>4
<1>2. LastOK'
  BY LastSame DEF ScanInv
<1> QED BY <1>1, <1>2 DEF ScanInv

NetStep ==
  /\ WatchOK' /\ Grown /\ ScanInv'
  /\ \A k \in {"failure", "lockout", "request"}, i \in Addresses : Same(k, i)
  /\ \A r \in reports' : r.kind \in GuessAlerts => r \in reports

LEMMA RaisingFor ==
  ASSUME WatchOK, NEW ip, NEW alerts, RaiseFor(ip, alerts), \A a \in alerts : a.at = now /\ a.kind \notin GuessAlerts
  PROVE  /\ \A r \in reports' : r.at \in Int /\ r.at <= now
         /\ \A r \in reports' : r.kind \in GuessAlerts => r \in reports
         /\ \A kinds, i, rest : rest \in Int => DueIn(reports, kinds, i, rest) \subseteq DueIn(reports', kinds, i, rest)
         /\ \A r \in reports : \E s \in reports' : s.kind = r.kind /\ s.ip = r.ip /\ s.at >= r.at
         /\ \A a \in alerts : a \in reports'
<1> DEFINE all == {Alert("traffic_spike", a, now) : a \in Spikes(ip)} \cup alerts
<1>1. Raise(all)
  BY DEF RaiseFor
<1>2. \A a \in all : a.at = now /\ a.kind \notin GuessAlerts
  <2>1. \A a : Alert("traffic_spike", a, now).at = now /\ Alert("traffic_spike", a, now).kind = "traffic_spike"
    BY DEF Alert
  <2>2. "traffic_spike" \notin GuessAlerts
    BY DEF GuessAlerts
  <2>3. \A e \in {Alert("traffic_spike", a, now) : a \in Spikes(ip)} : e.at = now /\ e.kind = "traffic_spike"
    BY <2>1
  <2> QED BY <2>2, <2>3
<1>3. \A a \in alerts : a \in all
  OBVIOUS
<1> HIDE DEF all
<1>4. /\ \A r \in reports' : r.at \in Int /\ r.at <= now
      /\ \A r \in reports' : r \in reports \/ r \in all
      /\ \A kinds, i, rest : rest \in Int => DueIn(reports, kinds, i, rest) \subseteq DueIn(reports', kinds, i, rest)
      /\ \A r \in reports : \E s \in reports' : s.kind = r.kind /\ s.ip = r.ip /\ s.at >= r.at
      /\ \A a \in all : a \in reports'
  BY <1>1, <1>2, RaisingNow
<1>5. \A r \in reports' : r.kind \in GuessAlerts => r \in reports
  BY <1>2, <1>4
<1> QED BY <1>3, <1>4, <1>5

LEMMA HearPacketStep ==
  ASSUME WatchOK, ScanInv, NEW ip \in Addresses, HearPacket(ip)
  PROVE  NetStep
<1>1. Hear("packet", ip, 0) /\ RaiseFor(ip, {}) /\ now' = now /\ UNCHANGED <<syns, lastScan, queries>>
  BY DEF HearPacket
<1>2. /\ \A r \in reports' : r.at \in Int /\ r.at <= now
      /\ \A r \in reports' : r.kind \in GuessAlerts => r \in reports
      /\ \A kinds, i, rest : rest \in Int => DueIn(reports, kinds, i, rest) \subseteq DueIn(reports', kinds, i, rest)
      /\ \A r \in reports : \E s \in reports' : s.kind = r.kind /\ s.ip = r.ip /\ s.at >= r.at
  BY <1>1, RaisingFor
<1>3. 0 \in Said /\ "packet" \in Sorts
  BY DEF Said, Sorts
<1>4. /\ WatchOK' /\ Len(heard') = Len(heard) + 1
      /\ \A k \in Sorts, i \in Addresses : <<k, i>> # <<"packet", ip>> => Same(k, i)
  BY <1>1, <1>2, <1>3, Hearing
<1>5. Grown
  BY <1>1, <1>2, <1>4, Heard
<1>6. \A k \in {"failure", "lockout", "request", "syn", "query"}, i \in Addresses : Same(k, i)
  BY <1>4 DEF Sorts
<1>7. ScanInv'
  BY <1>1, <1>4, <1>5, <1>6, ScanSteady
<1> QED BY <1>2, <1>4, <1>5, <1>6, <1>7 DEF NetStep

LEMMA HearSynStep ==
  ASSUME WatchOK, ScanInv, NEW ip \in Addresses, NEW port \in Ports, HearSyn(ip, port)
  PROVE  NetStep
<1> DEFINE P == Of("syn", ip)
           x == Len(heard) + 1
           w == syns[ip]
           v == InWindow(w, port, now, ScanSpan)
           rested == Rested(lastScan[ip], now, ScanRest)
           found == Cardinality(v.kinds) >= ManyPorts /\ rested
           alerts == If(found, {Alert("port_scan", ip, now)})
<1>1. /\ Hear("syn", ip, port) /\ now' = now /\ queries' = queries /\ RaiseFor(ip, alerts)
      /\ syns' = [syns EXCEPT ![ip] = IF found THEN [Empty EXCEPT !.first = now] ELSE v]
      /\ lastScan' = [lastScan EXCEPT ![ip] = IF found THEN now ELSE lastScan[ip]]
  BY DEF HearSyn, DetectScan, ScanFound
<1> HIDE DEF v, rested
<1>2. (\A a \in alerts : a.at = now /\ a.kind = "port_scan") /\ (found => Alert("port_scan", ip, now) \in alerts)
  BY DEF Alert, If
<1>3. /\ syns'[ip] = (IF found THEN [Empty EXCEPT !.first = now] ELSE v)
      /\ lastScan'[ip] = (IF found THEN now ELSE lastScan[ip])
      /\ DOMAIN syns' = Addresses /\ DOMAIN lastScan' = Addresses
      /\ \A i \in Addresses : i # ip => syns'[i] = syns[i] /\ lastScan'[i] = lastScan[i]
  BY <1>1 DEF ScanInv
<1> HIDE DEF alerts, found
<1>4. now \in Nat /\ now # Never /\ x \in Nat /\ Len(heard) \in Nat
  BY WatchNumbers
<1>5. /\ \A r \in reports' : r.at \in Int /\ r.at <= now
      /\ \A r \in reports' : r.kind \in GuessAlerts => r \in reports
      /\ \A kinds, i, rest : rest \in Int => DueIn(reports, kinds, i, rest) \subseteq DueIn(reports', kinds, i, rest)
      /\ \A r \in reports : \E s \in reports' : s.kind = r.kind /\ s.ip = r.ip /\ s.at >= r.at
      /\ \A a \in alerts : a \in reports'
  <2>1. \A a \in alerts : a.at = now /\ a.kind \notin GuessAlerts
    BY <1>2 DEF GuessAlerts
  <2> QED BY <1>1, <2>1, RaisingFor
<1>6. port \in Said /\ "syn" \in Sorts
  BY DEF Said, Sorts
<1>7. /\ WatchOK' /\ Len(heard') = x /\ Extends(Whats(P)', heard', Whats(P), heard, x, now) /\ Whats(P)'[x] = port
      /\ \A k \in Sorts, i \in Addresses : <<k, i>> # <<"syn", ip>> => Same(k, i)
  BY <1>1, <1>5, <1>6, Hearing
<1>8. Grown
  BY <1>1, <1>5, <1>7, Heard
<1>9. IsTimeline(Whats(P), heard) /\ DOMAIN Whats(P) = P
  BY <1>6, Timelines
<1>10. found => \E r \in reports' : r.kind = "port_scan" /\ r.ip = ip /\ r.at = now
  BY <1>2, <1>5 DEF Alert
<1>11. LastOK'
  <2> SUFFICES ASSUME NEW i \in Addresses, lastScan'[i] # Never
               PROVE  lastScan'[i] \in Int /\ \E s \in reports' : s.kind = "port_scan" /\ s.ip = i /\ s.at >= lastScan'[i]
    BY DEF LastOK
  <2>1. CASE i = ip /\ found
    BY <2>1, <1>3, <1>4, <1>10
  <2>2. CASE ~(i = ip /\ found)
    <3>1. lastScan'[i] = lastScan[i]
      BY <2>2, <1>3
    <3>2. PICK r \in reports : r.kind = "port_scan" /\ r.ip = i /\ r.at >= lastScan[i] /\ lastScan[i] \in Int
      BY <3>1 DEF ScanInv, LastOK
    <3>3. PICK s \in reports' : s.kind = r.kind /\ s.ip = r.ip /\ s.at >= r.at
      BY <1>5
    <3>4. r.at \in Int /\ s.at \in Int
      BY <1>5, WatchNumbers
    <3>5. s.at >= lastScan[i]
      BY <3>2, <3>3, <3>4
    <3> QED BY <3>1, <3>2, <3>3, <3>5
  <2> QED BY <2>1, <2>2
<1>12. \E b \in Nat : ScanOK(ip, b)'
  <2>1. PICK b \in Nat : ScanOK(ip, b)
    BY DEF ScanInv
  <2>2. /\ Fits(w, Whats(P), x, now, b) /\ w.kinds = From(Whats(P), b) /\ w.first \in Int
        /\ Kept(Whats(P), heard, ManyPorts, ScanSpan, b, w.first, ScanDue(reports, ip))
    BY <2>1 DEF ScanOK, Fits
  <2> DEFINE c == Start(w, b, x, now, ScanSpan)
  <2> HIDE DEF w, c, P, x
  <2>3. Fits(v, Whats(P)', x + 1, now, c) /\ Moves(w, v, Whats(P), x, now, b, c, ScanSpan) /\ c \in Nat /\ v.first \in Int
    BY <1>4, <1>7, <2>2, ScanNumbers, StartFits DEF v, c
  <2>4. v.kinds = From(Whats(P)', c)
    BY <1>4, <1>7, <1>9, <2>2, ScanNumbers, StartLists DEF v, c, IsTimeline
  <2>5. IsDown(ScanDue(reports, ip)) /\ IsDown(ScanDue(reports', ip)) /\ ScanDue(reports, ip) \subseteq ScanDue(reports', ip)
    <3>1. \A r \in reports : r.at \in Int
      BY WatchNumbers
    <3> QED BY <3>1, <1>5, ScanNumbers, DueIsDown DEF ScanDue
  <2>6. CASE ~found
    <3>1. Cardinality(From(Whats(P)', c)) >= ManyPorts => now \in ScanDue(reports, ip)
      <4> SUFFICES ASSUME ~rested PROVE now \in ScanDue(reports, ip)
        BY <2>4, <2>6 DEF found
      <4>1. lastScan[ip] # Never /\ ~(now - lastScan[ip] >= ScanRest)
        BY DEF rested, Rested
      <4>2. PICK r \in reports : r.kind = "port_scan" /\ r.ip = ip /\ r.at >= lastScan[ip] /\ lastScan[ip] \in Int
        BY <4>1 DEF ScanInv, LastOK
      <4>3. r.at \in Int
        BY WatchNumbers
      <4>4. r.at > now - ScanRest /\ now \in Int
        BY <1>4, <4>1, <4>2, <4>3, ScanNumbers
      <4> QED BY <4>2, <4>4 DEF ScanDue, DueIn
    <3>2. Falls(Whats(P), heard, Whats(P)', heard', x, now, w, v, b, c, ScanSpan)
      BY <1>7, <1>9, <2>2, <2>3, ScanNumbers DEF Falls
    <3>3. Kept(Whats(P)', heard', ManyPorts, ScanSpan, c, v.first, ScanDue(reports, ip))
      BY <2>2, <2>5, <3>1, <3>2, ScanNumbers, FallsKept
    <3>4. Kept(Whats(P)', heard', ManyPorts, ScanSpan, c, v.first, ScanDue(reports', ip))
      BY <2>5, <3>3, KeptSame
    <3>5. PICK d \in Nat : d = c
      BY <2>3
    <3>6. syns'[ip] = v /\ Fits(syns'[ip], Whats(P)', Len(heard') + 1, now', c)
      BY <1>1, <1>3, <1>7, <2>3, <2>6
    <3>7. ScanOK(ip, d)'
      BY <2>4, <3>4, <3>5, <3>6 DEF ScanOK, P
    <3> QED BY <3>7
  <2>7. CASE found
    <3>1. syns'[ip].first = now /\ syns'[ip].kinds = {}
      BY <1>3, <2>7 DEF Empty
    <3>2. PICK d \in Nat : d = x + 1
      BY <1>4
    <3>3. From(Whats(P)', d) = {}
      <4>1. \A k \in DOMAIN Whats(P)' : k \in Nat /\ k < d
        BY <1>4, <1>7, <1>9, <3>2 DEF Extends, IsTimeline
      <4>2. {k \in DOMAIN Whats(P)' : k >= d} = {}
        BY <3>2, <4>1
      <4> QED BY <4>2 DEF From
    <3>4. now \in ScanDue(reports', ip)
      <4>1. PICK r \in reports' : r.kind = "port_scan" /\ r.ip = ip /\ r.at = now
        BY <1>10, <2>7
      <4>2. now > now - ScanRest /\ now \in Int
        BY <1>4, ScanNumbers
      <4> QED BY <4>1, <4>2 DEF ScanDue, DueIn
    <3>5. \A k \in DOMAIN Whats(P)' : heard'[k].at \in ScanDue(reports', ip)
      <4>1. \A k \in DOMAIN Whats(P)' : heard'[k].at \in Int /\ heard'[k].at <= now
        <5>1. IsTimeline(Whats(P)', heard')
          BY <1>7, <1>9, ExtendedTimeline
        <5> QED BY <1>7, <5>1 DEF Extends, IsTimeline
      <4> QED BY <4>1, <3>4, <2>5 DEF IsDown
    <3>6. Kept(Whats(P)', heard', ManyPorts, ScanSpan, d, now, ScanDue(reports', ip))
      BY <3>5, AllAreDue
    <3>7. Fits(syns'[ip], Whats(P)', Len(heard') + 1, now', d)
      BY <1>1, <1>4, <1>7, <3>1, <3>2 DEF Fits
    <3>8. ScanOK(ip, d)'
      BY <3>1, <3>3, <3>6, <3>7 DEF ScanOK, P
    <3> QED BY <3>8
  <2> QED BY <2>6, <2>7
<1>13. ASSUME NEW i \in Addresses PROVE (\E b \in Nat : ScanOK(i, b)') /\ (\E S : QueryOK(i, S)')
  <2>1. PICK S : QueryOK(i, S)
    BY DEF ScanInv
  <2>2. QueryOK(i, S)'
    <3>1. Same("query", i) /\ queries'[i] = queries[i]
      BY <1>1, <1>7 DEF Sorts
    <3> QED BY <1>8, <2>1, <3>1, QuerySame
  <2>3. CASE i = ip
    BY <1>12, <2>2, <2>3
  <2>4. CASE i # ip
    <3>1. PICK b \in Nat : ScanOK(i, b)
      BY DEF ScanInv
    <3>2. Same("syn", i) /\ syns'[i] = syns[i]
      BY <1>3, <1>6, <1>7, <2>4
    <3>3. ScanOK(i, b)'
      BY <1>8, <3>1, <3>2, ScanSame
    <3> QED BY <2>2, <3>3
  <2> QED BY <2>3, <2>4
<1>14. ScanInv'
  BY <1>1, <1>3, <1>11, <1>13 DEF ScanInv
<1>15. \A k \in {"failure", "lockout", "request"}, i \in Addresses : Same(k, i)
  BY <1>7 DEF Sorts
<1> QED BY <1>5, <1>7, <1>8, <1>14, <1>15 DEF NetStep

\* One query more, and those as old as the span forgotten.
LEMMA RememberMore ==
  ASSUME NEW P, NEW Q, NEW h, NEW g, NEW x, NEW t, IsTimeline(Each(P), h), Extends(Each(Q), g, Each(P), h, x, t),
         \A n \in P : g[n] = h[n], NEW S, NEW D, NEW E, IsDown(E), D \subseteq E, Remembered(P, h, S, D),
         NEW T, T = {n \in S \cup {x} : t - g[n].at < QuerySpan},
         (\A n \in Q : g[n].what) /\ Cardinality(T) >= ManyQueries => t \in E
  PROVE  Remembered(Q, g, T, E)
<1>1. /\ x \in Nat /\ t \in Int /\ g[x].at = t /\ Q = P \cup {x} /\ x \notin P
      /\ \A k \in P : k \in Nat /\ k < x /\ h[k].at \in Int /\ h[k].at <= t
  <2>1. DOMAIN Each(P) = P /\ DOMAIN Each(Q) = Q
    BY DEF Each
  <2> QED BY <2>1 DEF Extends, IsTimeline
<1>2. T \subseteq Q /\ S \subseteq P
  BY <1>1 DEF Remembered
<1>3. \A k \in Q : k \in Nat /\ k <= x /\ g[k].at \in Int /\ g[k].at <= t
  BY <1>1
<1>4. \A k \in P : g[k].at = h[k].at
  OBVIOUS
<1>5. IsTimeline(Each(Q), g) /\ DOMAIN Each(Q) = Q
  BY ExtendedTimeline DEF Each
<1>6. ASSUME \A n \in Q : g[n].what, NEW k \in Q
      PROVE  k \in T \/ g[k].at \in E \/ \E l \in Q : g[l].at - g[k].at >= QuerySpan
  <2>1. CASE k = x
    <3>1. t - g[x].at < QuerySpan
      BY <1>1, ScanNumbers
    <3> QED BY <2>1, <3>1
  <2>2. CASE k # x
    <3>1. k \in P /\ \A n \in P : h[n].what
      BY <2>2, <1>1, <1>6
    <3>2. k \in S \/ h[k].at \in D \/ \E l \in P : h[l].at - h[k].at >= QuerySpan
      BY <3>1 DEF Remembered
    <3>3. CASE k \in S
      <4>1. CASE t - g[k].at < QuerySpan
        BY <3>3, <4>1
      <4>2. CASE ~(t - g[k].at < QuerySpan)
        <5>1. x \in Q /\ g[x].at - g[k].at >= QuerySpan
          BY <1>1, <1>3, <4>2, ScanNumbers
        <5> QED BY <5>1
      <4> QED BY <4>1, <4>2
    <3>4. CASE h[k].at \in D
      BY <3>1, <3>4, <1>4
    <3>5. CASE \E l \in P : h[l].at - h[k].at >= QuerySpan
      <4>1. PICK l \in P : h[l].at - h[k].at >= QuerySpan
        BY <3>5
      <4>2. l \in Q /\ g[l].at - g[k].at >= QuerySpan
        BY <1>1, <1>4, <3>1, <4>1
      <4> QED BY <4>2
    <3> QED BY <3>2, <3>3, <3>4, <3>5
  <2> QED BY <2>1, <2>2
<1>7. ASSUME \A n \in Q : g[n].what, NEW m \in Q, NEW n \in Q, m <= n, g[n].at - g[m].at <= QuerySpan - 1,
             Cardinality(Between(Each(Q), m, n)) >= ManyQueries
      PROVE  g[m].at \in E
  <2>1. CASE n # x
    <3>1. m \in P /\ n \in P /\ n < x /\ m \in Nat /\ n \in Int
      BY <2>1, <1>1, <1>7
    <3>2. Between(Each(Q), m, n) = Between(Each(P), m, n)
      BY <3>1, EarlierPlaces
    <3>3. \A k \in P : h[k].what
      BY <1>1, <1>7
    <3> QED BY <3>1, <3>2, <3>3, <1>4, <1>7 DEF Remembered
  <2>2. CASE n = x /\ t \in E
    BY <2>2, <1>3 DEF IsDown
  <2>3. CASE n = x /\ t \notin E
    <3>1. ~(Cardinality(T) >= ManyQueries)
      BY <1>7, <2>3
    <3>2. Between(Each(Q), m, x) = {k \in Q : m <= k}
      BY <1>3, <1>5 DEF Between, Each
    <3>3. IsFiniteSet(T) /\ Cardinality(T) \in Nat
      <4>1. IsFiniteSet(Q)
        BY <1>5 DEF IsTimeline
      <4>2. IsFiniteSet(T)
        BY <1>2, <4>1, FS_Subset
      <4> QED BY <4>2, FS_CardinalityType
    <3>4. PICK k \in Q : m <= k /\ k \notin T
      <4> SUFFICES ASSUME \A k \in Q : m <= k => k \in T PROVE FALSE
        OBVIOUS
      <4>1. Between(Each(Q), m, x) \in SUBSET T
        BY <3>2
      <4>2. Cardinality(Between(Each(Q), m, x)) <= Cardinality(T) /\ IsFiniteSet(Between(Each(Q), m, x))
        BY <3>3, <4>1, FS_Subset
      <4>3. Cardinality(Between(Each(Q), m, x)) \in Nat
        BY <4>2, FS_CardinalityType
      <4> QED BY <1>7, <2>3, <3>1, <3>3, <4>2, <4>3, ScanNumbers
    <3>5. g[m].at <= g[k].at
      BY <1>5, <3>4 DEF IsTimeline
    <3>6. k \in T \/ g[k].at \in E \/ \E l \in Q : g[l].at - g[k].at >= QuerySpan
      BY <1>6, <1>7
    <3>7. ~\E l \in Q : g[l].at - g[k].at >= QuerySpan
      <4> SUFFICES ASSUME NEW l \in Q, g[l].at - g[k].at >= QuerySpan PROVE FALSE
        OBVIOUS
      <4>1. g[l].at \in Int /\ g[l].at <= t /\ g[k].at \in Int /\ g[m].at \in Int /\ t - g[m].at <= QuerySpan - 1
        BY <1>1, <1>3, <1>7, <2>3
      <4> QED BY <4>1, <3>5, <1>1, ScanNumbers
    <3>8. g[k].at \in E /\ g[m].at \in Int
      BY <3>4, <3>6, <3>7, <1>3
    <3> QED BY <3>5, <3>8 DEF IsDown
  <2> QED BY <2>1, <2>2, <2>3
<1> QED BY <1>2, <1>6, <1>7 DEF Remembered

LEMMA HearQueryStep ==
  ASSUME WatchOK, ScanInv, NEW ip \in Addresses, NEW high \in BOOLEAN, HearQuery(ip, high)
  PROVE  NetStep
<1> DEFINE P == Of("query", ip)
           x == Len(heard) + 1
           tunnels == Tunnels(ip, high)
           alerts == If(tunnels, {Alert("dns_tunneling", ip, now)})
<1>1. /\ Hear("query", ip, high) /\ now' = now /\ UNCHANGED <<syns, lastScan>> /\ RaiseFor(ip, alerts)
      /\ queries' = [queries EXCEPT ![ip] = IF tunnels THEN {} ELSE QueriesNow(ip, high)]
  BY DEF HearQuery, DetectTunnel
<1> HIDE DEF tunnels
<1>2. (\A a \in alerts : a.at = now /\ a.kind = "dns_tunneling") /\ (tunnels => Alert("dns_tunneling", ip, now) \in alerts)
  BY DEF Alert, If
<1>3. /\ queries'[ip] = (IF tunnels THEN {} ELSE QueriesNow(ip, high)) /\ DOMAIN queries' = Addresses
      /\ \A i \in Addresses : i # ip => queries'[i] = queries[i]
  BY <1>1 DEF ScanInv
<1> HIDE DEF alerts
<1>4. now \in Nat /\ now # Never /\ x \in Nat /\ Len(heard) \in Nat
  BY WatchNumbers
<1>5. /\ \A r \in reports' : r.at \in Int /\ r.at <= now
      /\ \A r \in reports' : r.kind \in GuessAlerts => r \in reports
      /\ \A kinds, i, rest : rest \in Int => DueIn(reports, kinds, i, rest) \subseteq DueIn(reports', kinds, i, rest)
      /\ \A r \in reports : \E s \in reports' : s.kind = r.kind /\ s.ip = r.ip /\ s.at >= r.at
      /\ \A a \in alerts : a \in reports'
  <2>1. \A a \in alerts : a.at = now /\ a.kind \notin GuessAlerts
    BY <1>2 DEF GuessAlerts
  <2> QED BY <1>1, <2>1, RaisingFor
<1>6. high \in Said /\ "query" \in Sorts
  BY DEF Said, Sorts
<1>7. /\ WatchOK' /\ Len(heard') = x /\ Extends(Each(P)', heard', Each(P), heard, x, now)
      /\ Extends(Whats(P)', heard', Whats(P), heard, x, now) /\ Whats(P)'[x] = high
      /\ \A k \in Sorts, i \in Addresses : <<k, i>> # <<"query", ip>> => Same(k, i)
  BY <1>1, <1>5, <1>6, Hearing
<1>8. Grown
  BY <1>1, <1>5, <1>7, Heard
<1>9. IsTimeline(Each(P), heard) /\ DOMAIN Each(P) = P /\ P \subseteq DOMAIN heard
  BY <1>6, Timelines
<1>10. /\ Extends(Each(P'), heard', Each(P), heard, x, now) /\ P' = P \cup {x}
       /\ \A n \in P : heard'[n] = heard[n]
       /\ heard'[x].at = now /\ heard'[x].what = high
  <2>1. Each(P)' = Each(P') /\ DOMAIN Each(P') = P' /\ DOMAIN Each(P) = P
    BY DEF Each
  <2>2. heard' = Append(heard, [kind |-> "query", ip |-> ip, what |-> high, at |-> now]) /\ heard \in Seq(Message)
    BY <1>1 DEF Hear, WatchOK
  <2>3. heard'[x] = [kind |-> "query", ip |-> ip, what |-> high, at |-> now] /\ \A n \in DOMAIN heard : heard'[n] = heard[n]
    BY <2>2
  <2>4. P' = P \cup {x}
    BY <1>7, <2>1 DEF Extends
  <2>5. Extends(Each(P'), heard', Each(P), heard, x, now)
    BY <1>7, <2>1
  <2> QED BY <1>9, <2>3, <2>4, <2>5
<1>11. PICK S : QueryOK(ip, S)
  BY DEF ScanInv
<1>12. queries[ip] = {Query(heard, n) : n \in S} /\ Remembered(P, heard, S, TunnelDue(reports, ip)) /\ S \subseteq P
  BY <1>11 DEF QueryOK, Remembered
<1>13. IsDown(TunnelDue(reports', ip)) /\ TunnelDue(reports, ip) \subseteq TunnelDue(reports', ip)
  BY <1>5, DueIsDown DEF TunnelDue
<1>14. \E T : QueryOK(ip, T)'
  <2>1. CASE tunnels
    <3>1. now \in TunnelDue(reports', ip)
      <4>1. PICK r \in reports' : r.kind = "dns_tunneling" /\ r.ip = ip /\ r.at = now
        BY <1>2, <1>5, <2>1 DEF Alert
      <4>2. now > now - 1 /\ now \in Int
        BY <1>4
      <4> QED BY <4>1, <4>2 DEF TunnelDue, DueIn
    <3>2. \A k \in P' : heard'[k].at \in TunnelDue(reports', ip)
      <4>1. \A k \in P' : heard'[k].at \in Int /\ heard'[k].at <= now
        BY <1>4, <1>9, <1>10 DEF Extends, IsTimeline
      <4> QED BY <4>1, <3>1, <1>13 DEF IsDown
    <3>3. Remembered(P', heard', {}, TunnelDue(reports', ip))
      BY <3>2 DEF Remembered
    <3>4. queries'[ip] = {Query(heard', n) : n \in {}}
      BY <1>3, <2>1
    <3>5. QueryOK(ip, {})'
      BY <3>3, <3>4 DEF QueryOK
    <3> QED BY <3>5
  <2>2. CASE ~tunnels
    <3> DEFINE U == {n \in S \cup {x} : now - heard'[n].at < QuerySpan}
               q == QueriesNow(ip, high)
    <3>1. q = {Query(heard', n) : n \in U}
      <4>1. \A n \in S : Query(heard', n) = Query(heard, n)
        BY <1>10, <1>12 DEF Query
      <4>2. [no |-> Len(heard) + 1, at |-> now, high |-> high] = Query(heard', x)
        BY <1>10 DEF Query
      <4>3. queries[ip] \cup {[no |-> Len(heard) + 1, at |-> now, high |-> high]} = {Query(heard', n) : n \in S \cup {x}}
        BY <1>12, <4>1, <4>2
      <4>4. \A n : Query(heard', n).at = heard'[n].at
        BY DEF Query
      <4> HIDE DEF P, x
      <4>5. {e \in {Query(heard', n) : n \in S \cup {x}} : now - e.at < QuerySpan} = {Query(heard', n) : n \in U}
        BY <4>4
      <4> QED BY <4>3, <4>5 DEF QueriesNow
    <3>2. PICK T : T = U
      OBVIOUS
    <3>3. IsFiniteSet(T) /\ Cardinality(T) \in Nat
      <4>1. IsFiniteSet(P')
        BY <1>9, <1>10, FS_AddElement DEF IsTimeline
      <4>2. T \in SUBSET P'
        BY <1>10, <1>12, <3>2
      <4>3. IsFiniteSet(T)
        BY <4>1, <4>2, FS_Subset
      <4> QED BY <4>3, FS_CardinalityType
    <3>4. ~((\A n \in P' : heard'[n].what) /\ Cardinality(T) >= ManyQueries)
      <4> SUFFICES ASSUME \A n \in P' : heard'[n].what, Cardinality(T) >= ManyQueries PROVE FALSE
        OBVIOUS
      <4>1. q = {Query(heard', n) : n \in T}
        BY <3>1, <3>2
      <4>2. IsFiniteSet(q) /\ Cardinality(q) \in Nat /\ Cardinality(T) <= Cardinality(q)
        <5> DEFINE f == [n \in T |-> Query(heard', n)]
                   r == [e \in q |-> e.no]
        <5>1. q = {f[n] : n \in T}
          BY <4>1
        <5> HIDE DEF q, f
        <5>2. IsFiniteSet(q) /\ Cardinality(q) \in Nat
          BY <3>3, <5>1, ImageIsFinite
        <5>3. T = {r[e] : e \in q}
          <6>1. \A n : Query(heard', n).no = n
            BY DEF Query
          <6>2. \A n \in T : Query(heard', n) \in q
            BY <4>1
          <6>3. \A e \in q : e.no \in T
            BY <4>1, <6>1
          <6>4. \A e \in q : r[e] = e.no
            OBVIOUS
          <6> HIDE DEF r
          <6> QED BY <6>1, <6>2, <6>3, <6>4
        <5> HIDE DEF r
        <5>4. Cardinality(T) <= Cardinality(q)
          BY <5>2, <5>3, ImageIsFinite
        <5> QED BY <5>2, <5>4
      <4>3. {e \in q : e.high} = q
        <5>1. \A n \in T : n \in P'
          BY <1>10, <1>12, <3>2
        <5>2. \A n \in T : Query(heard', n).high
          BY <5>1 DEF Query
        <5> HIDE DEF q
        <5> QED BY <4>1, <5>2
      <4>4. Cardinality(q) >= ManyQueries /\ 2 * Cardinality({e \in q : e.high}) > Cardinality(q)
        <5> HIDE DEF q
        <5>1. Cardinality(q) >= ManyQueries
          <6>1. Cardinality(q) \in Nat /\ Cardinality(T) \in Nat /\ ManyQueries \in Nat
            BY <3>3, <4>2, ScanNumbers
          <6>2. Cardinality(T) >= ManyQueries /\ Cardinality(T) <= Cardinality(q)
            BY <4>2
          <6> QED BY <6>1, <6>2
        <5>2. 2 * Cardinality(q) > Cardinality(q)
          BY <4>2, <5>1, ScanNumbers
        <5> QED BY <4>3, <5>1, <5>2, ZenonT(30)
      <4> QED BY <2>2, <4>4 DEF tunnels, Tunnels
    <3>5. Remembered(P', heard', T, TunnelDue(reports', ip))
      <4> HIDE DEF P, x, q
      <4> QED BY <1>9, <1>10, <1>12, <1>13, <3>2, <3>4, RememberMore
    <3>6. queries'[ip] = {Query(heard', n) : n \in T}
      BY <1>3, <2>2, <3>1, <3>2
    <3>7. QueryOK(ip, T)'
      BY <3>5, <3>6 DEF QueryOK
    <3> QED BY <3>7
  <2> QED BY <2>1, <2>2
<1>15. ASSUME NEW i \in Addresses PROVE (\E b \in Nat : ScanOK(i, b)') /\ (\E T : QueryOK(i, T)')
  <2>1. PICK b \in Nat : ScanOK(i, b)
    BY DEF ScanInv
  <2>2. ScanOK(i, b)'
    <3>1. Same("syn", i) /\ syns'[i] = syns[i]
      BY <1>1, <1>7 DEF Sorts
    <3> QED BY <1>8, <2>1, <3>1, ScanSame
  <2>3. CASE i = ip
    BY <1>14, <2>2, <2>3
  <2>4. CASE i # ip
    <3>1. PICK T : QueryOK(i, T)
      BY DEF ScanInv
    <3>2. Same("query", i) /\ queries'[i] = queries[i]
      BY <1>3, <1>6, <1>7, <2>4
    <3>3. QueryOK(i, T)'
      BY <1>8, <3>1, <3>2, QuerySame
    <3> QED BY <2>2, <3>3
  <2> QED BY <2>3, <2>4
<1>16. LastOK'
  BY <1>1, <1>7, <1>8, LastSame DEF ScanInv
<1>17. ScanInv'
  BY <1>1, <1>3, <1>15, <1>16 DEF ScanInv
<1>18. \A k \in {"failure", "lockout", "request"}, i \in Addresses : Same(k, i)
  BY <1>7 DEF Sorts
<1> QED BY <1>5, <1>7, <1>8, <1>17, <1>18 DEF NetStep

LEMMA NetKeeps ==
  ASSUME WatchOK, ScanInv, NetMonNext
  PROVE  NetStep
<1>1. CASE NetMonTick
  <2>1. reports' = reports /\ heard' = heard /\ now' \in Nat /\ now <= now' /\ UNCHANGED <<syns, lastScan, queries>>
    BY <1>1 DEF NetMonTick, Tick, WatchOK
  <2>2. WatchOK' /\ Grown /\ (\A k \in Sorts, i \in Addresses : Same(k, i)) /\ \A r \in reports' : r \in reports
    BY <2>1, NothingRaised
  <2>3. ScanInv'
    BY <2>1, <2>2, ScanSteady DEF Sorts
  <2> QED BY <2>2, <2>3 DEF NetStep, Sorts
<1>2. CASE \E ip \in Addresses :
             \/ \E p \in Ports : HearSyn(ip, p)
             \/ \E high \in BOOLEAN : HearQuery(ip, high)
             \/ HearPacket(ip)
  BY <1>2, HearSynStep, HearQueryStep, HearPacketStep
<1> QED BY <1>1, <1>2 DEF NetMonNext

LEMMA ScansReported ==
  ASSUME ScanInv
  PROVE  ScansAreReported
<1> SUFFICES ASSUME NEW ip \in Addresses
             PROVE  /\ BurstsReported(Whats(Of("syn", ip)), 2 * ManyPorts - 1, ScanSpan, ScanRest, 0, {"port_scan"}, ip)
                    /\ (\A n \in Of("query", ip) : heard[n].what) =>
                         BurstsReported(Each(Of("query", ip)), ManyQueries, QuerySpan - 1, 1, 0, {"dns_tunneling"}, ip)
  BY DEF ScansAreReported
<1>1. BurstsReported(Whats(Of("syn", ip)), 2 * ManyPorts - 1, ScanSpan, ScanRest, 0, {"port_scan"}, ip)
  <2>1. PICK b \in Nat : ScanOK(ip, b)
    BY DEF ScanInv
  <2>2. Kept(Whats(Of("syn", ip)), heard, ManyPorts, ScanSpan, b, syns[ip].first, DueIn(reports, {"port_scan"}, ip, ScanRest))
    BY <2>1 DEF ScanOK, ScanDue
  <2> QED BY <2>2, KeptIsReported
<1>2. ASSUME \A n \in Of("query", ip) : heard[n].what
      PROVE  BurstsReported(Each(Of("query", ip)), ManyQueries, QuerySpan - 1, 1, 0, {"dns_tunneling"}, ip)
  <2> DEFINE P == Of("query", ip)
  <2>1. PICK S : QueryOK(ip, S)
    BY DEF ScanInv
  <2>2. \A m, n \in P : m <= n /\ heard[n].at - heard[m].at <= QuerySpan - 1 /\ Cardinality(Between(Each(P), m, n)) >= ManyQueries
                        => heard[m].at \in TunnelDue(reports, ip)
    BY <1>2, <2>1 DEF QueryOK, Remembered
  <2>3. DOMAIN Each(P) = P
    BY DEF Each
  <2> HIDE DEF P
  <2> SUFFICES ASSUME NEW m \in P, NEW n \in P, IsBurst(Each(P), m, n, ManyQueries, QuerySpan - 1)
               PROVE  AlertSince({"dns_tunneling"}, ip, heard[m].at - 1)
    BY <2>3 DEF BurstsReported, P
  <2>4. m <= n /\ heard[n].at - heard[m].at <= QuerySpan - 1 /\ Cardinality(Between(Each(P), m, n)) >= ManyQueries
    BY DEF IsBurst, Between
  <2>5. heard[m].at \in DueIn(reports, {"dns_tunneling"}, ip, 1)
    BY <2>2, <2>4 DEF TunnelDue
  <2> QED BY <2>5 DEF DueIn, AlertSince
<1> QED BY <1>1, <1>2

LEMMA NetStarts ==
  ASSUME NetMonInit
  PROVE  ScanInv
<1>1. /\ now = 0 /\ heard = <<>> /\ syns = [ip \in Addresses |-> Empty] /\ lastScan = [ip \in Addresses |-> Never]
      /\ queries = [ip \in Addresses |-> {}]
  BY DEF NetMonInit, WatchInit
<1>2. \A i : Of("query", i) = {} /\ DOMAIN Whats(Of("syn", i)) = {}
  BY <1>1 DEF Of, Whats
<1>3. \A i : From(Whats(Of("syn", i)), 0) = {}
  BY <1>2 DEF From
<1>4. Empty.first = Never /\ Empty.kinds = {}
  BY DEF Empty
<1>5. \A i : Fits(Empty, Whats(Of("syn", i)), Len(heard) + 1, now, 0)
  BY <1>1, <1>2, <1>4 DEF Fits, Never
<1> HIDE DEF Empty
<1>6. ASSUME NEW i \in Addresses PROVE ScanOK(i, 0) /\ QueryOK(i, {})
  <2>1. syns[i] = Empty /\ queries[i] = {}
    BY <1>1
  <2>2. Kept(Whats(Of("syn", i)), heard, ManyPorts, ScanSpan, 0, syns[i].first, ScanDue(reports, i))
    BY <1>2, AllAreDue
  <2>3. Remembered(Of("query", i), heard, {}, TunnelDue(reports, i)) /\ {Query(heard, n) : n \in {}} = {}
    BY <1>2 DEF Remembered
  <2> QED BY <1>3, <1>4, <1>5, <2>1, <2>2, <2>3 DEF ScanOK, QueryOK
<1>7. LastOK
  BY <1>1 DEF LastOK
<1>8. 0 \in Nat /\ DOMAIN syns = Addresses /\ DOMAIN lastScan = Addresses /\ DOMAIN queries = Addresses
  BY <1>1
<1> QED BY <1>6, <1>7, <1>8 DEF ScanInv

-----------------------------------------------------------------------------
(* The three of them *)

MonitorsInv == WatchOK /\ AuthInv /\ FloodInv /\ ScanInv

LEMMA MonitorsStart ==
  ASSUME MonitorsInit
  PROVE  MonitorsInv
BY AuthStarts, ApiStarts, NetStarts DEF MonitorsInit, MonitorsInv

LEMMA MonitorsKeep ==
  ASSUME MonitorsInv, [MonitorsNext]_monitorVars
  PROVE  MonitorsInv'
<1>1. CASE WatchLogins
  <2>1. AuthStep /\ UNCHANGED requestWindow /\ UNCHANGED <<syns, lastScan, queries>>
    BY <1>1, AuthKeeps DEF WatchLogins, MonitorsInv, netOnly
  <2>2. FloodInv'
    BY <2>1, FloodSteady DEF MonitorsInv, AuthStep
  <2>3. ScanInv'
    BY <2>1, ScanSteady DEF MonitorsInv, AuthStep
  <2> QED BY <2>1, <2>2, <2>3 DEF MonitorsInv, AuthStep
<1>2. CASE WatchRequests
  <2>1. ApiStep /\ UNCHANGED <<ipFailures, lockouts, rests, handling>> /\ UNCHANGED <<syns, lastScan, queries>>
    BY <1>2, ApiKeeps DEF WatchRequests, MonitorsInv, authOnly, netOnly
  <2>2. \A i \in Addresses : Same("failure", i) /\ Same("lockout", i) /\ Same("syn", i) /\ Same("query", i)
    BY <2>1 DEF ApiStep, Sorts
  <2>3. AuthInv'
    BY <2>1, <2>2, AuthSame DEF MonitorsInv, ApiStep
  <2>4. ScanInv'
    BY <2>1, <2>2, ScanSteady DEF MonitorsInv, ApiStep
  <2> QED BY <2>1, <2>3, <2>4 DEF MonitorsInv, ApiStep
<1>3. CASE WatchPackets
  <2>1. NetStep /\ UNCHANGED <<ipFailures, lockouts, rests, handling>> /\ UNCHANGED requestWindow
    BY <1>3, NetKeeps DEF WatchPackets, MonitorsInv, authOnly
  <2>2. AuthInv'
    BY <2>1, AuthSame DEF MonitorsInv, NetStep
  <2>3. FloodInv'
    BY <2>1, FloodSteady DEF MonitorsInv, NetStep
  <2> QED BY <2>1, <2>2, <2>3 DEF MonitorsInv, NetStep
<1>4. CASE UNCHANGED monitorVars
  <2>1. /\ UNCHANGED <<now, heard, reports>> /\ UNCHANGED <<ipFailures, lockouts, rests, handling>> /\ UNCHANGED requestWindow
        /\ UNCHANGED <<syns, lastScan, queries>>
    BY <1>4 DEF monitorVars, watchVars, authOnly, netOnly
  <2>2. now \in Nat /\ now <= now
    BY DEF MonitorsInv, WatchOK
  <2>3. WatchOK' /\ Grown /\ (\A k \in Sorts, i \in Addresses : Same(k, i)) /\ \A r \in reports' : r \in reports
    BY <2>1, <2>2, NothingRaised DEF MonitorsInv
  <2>4. AuthInv'
    BY <2>1, <2>3, AuthSame DEF MonitorsInv, Sorts
  <2>5. FloodInv'
    BY <2>1, <2>3, FloodSteady DEF MonitorsInv, Sorts
  <2>6. ScanInv'
    BY <2>1, <2>3, ScanSteady DEF MonitorsInv, Sorts
  <2> QED BY <2>3, <2>4, <2>5, <2>6 DEF MonitorsInv
<1> QED BY <1>1, <1>2, <1>3, <1>4 DEF MonitorsNext

LEMMA InvReportsBursts ==
  ASSUME MonitorsInv
  PROVE  BurstsAreReported
BY GuessingReported, FloodsReported, ScansReported DEF MonitorsInv, BurstsAreReported

\* What the monitors promise holds of every history of logins, requests and packets,
\* with resets anywhere: a burst of almost twice the threshold, which may lie across two
\* windows, is reported, or comes while a report rests; a flood, once its window is over.
THEOREM BurstsAlwaysReported == MonitorsSpec => []BurstsAreReported
<1>1. MonitorsInit => MonitorsInv
  BY MonitorsStart
<1>2. MonitorsInv /\ [MonitorsNext]_monitorVars => MonitorsInv'
  BY MonitorsKeep
<1>3. MonitorsInv => BurstsAreReported
  BY InvReportsBursts
<1> QED BY <1>1, <1>2, <1>3, PTL DEF MonitorsSpec
=============================================================================
