------------------------------ MODULE Induction ------------------------------
(***************************************************************************)
(* Induction and recursion over the natural numbers for sets instead of    *)
(* operators: a property of numbers is the set of those that have it, a    *)
(* step of a recursion a function.  What the models fold over sequences is *)
(* reasoned about with these lemmas.                                       *)
(***************************************************************************)
EXTENDS Integers, Sequences, WellFoundedInduction, FiniteSetTheorems, TLAPS

LEMMA LessIsWellFounded == IsWellFoundedOn({p \in Nat \X Nat : p[1] < p[2]}, Nat)
<1>1. OpToRel(<, Nat) = {p \in Nat \X Nat : p[1] < p[2]}
  BY DEF OpToRel
<1> QED BY <1>1, NatLessThanWellFounded

\* A set of numbers that is not empty has a least element.
LEMMA Least ==
  ASSUME NEW T \in SUBSET Nat, T # {}
  PROVE  \E n \in T : \A m \in T : n <= m
<1> DEFINE R == {p \in Nat \X Nat : p[1] < p[2]}
<1>1. \E n \in T : \A m \in T : ~(<<m, n>> \in R)
  <2>1. IsWellFoundedOn(R, Nat)
    BY LessIsWellFounded
  <2> HIDE DEF R
  <2> QED BY <2>1, WFMin
<1>2. PICK n \in T : \A m \in T : ~(<<m, n>> \in R)
  BY <1>1
<1>3. ASSUME NEW m \in T PROVE n <= m
  <2>1. ~(m < n)
    BY <1>2
  <2> QED BY <2>1
<1> QED BY <1>3

LEMMA Induction ==
  ASSUME NEW S \in SUBSET Nat, 0 \in S, \A n \in S : n + 1 \in S
  PROVE  S = Nat
<1> SUFFICES ASSUME Nat \ S # {} PROVE FALSE
  OBVIOUS
<1>1. PICK n \in Nat \ S : \A m \in Nat \ S : n <= m
  BY Least
<1>2. n - 1 \in Nat /\ n - 1 \notin Nat \ S
  BY <1>1
<1> QED BY <1>2

\* The same for the numbers up to k.
LEMMA InductionUpTo ==
  ASSUME NEW k \in Nat, NEW S, 0 \in S, \A n \in 1..k : n - 1 \in S => n \in S
  PROVE  \A n \in 0..k : n \in S
<1> DEFINE P == {n \in Nat : n <= k => n \in S}
<1>1. 0 \in P
  OBVIOUS
<1>2. ASSUME NEW n \in P PROVE n + 1 \in P
  OBVIOUS
<1>3. P = Nat
  <2> HIDE DEF P
  <2> QED BY <1>1, <1>2, Induction DEF P
<1> QED BY <1>3

\* A bounded set of numbers that is not empty has a greatest element.
LEMMA Greatest ==
  ASSUME NEW k \in Nat, NEW T \in SUBSET (0..k), T # {}
  PROVE  \E n \in T : \A m \in T : m <= n
<1>0. \A m \in T : m \in Nat
  OBVIOUS
<1> DEFINE U == {k - n : n \in T}
<1>1. U \in SUBSET Nat /\ U # {}
  <2>1. \A n \in T : k - n \in Nat
    OBVIOUS
  <2> QED BY <2>1
<1>2. PICK u \in U : \A v \in U : u <= v
  BY <1>1, Least
<1>3. k - u \in T
  BY <1>2
<1>4. ASSUME NEW m \in T PROVE m <= k - u
  <2>1. k - m \in U
    OBVIOUS
  <2>2. u <= k - m
    BY <2>1, <1>2
  <2>3. m \in Nat
    BY <1>0
  <2>4. u \in Nat
    BY <1>1
  <2> QED BY <2>2, <2>3, <2>4
<1> QED BY <1>3, <1>4

\* A finite set that is ordered, if only partly, has an element that none comes after.
LEMMA Topmost ==
  ASSUME NEW U, IsFiniteSet(U), U # {}, NEW R,
         \A x \in U : <<x, x>> \notin R,
         \A x, y, z \in U : <<x, y>> \in R /\ <<y, z>> \in R => <<x, z>> \in R
  PROVE  \E x \in U : \A y \in U : <<x, y>> \notin R
<1> DEFINE S == {n \in Nat : \A T \in SUBSET U :
                    IsFiniteSet(T) /\ Cardinality(T) = n + 1 => \E x \in T : \A y \in T : <<x, y>> \notin R}
<1>1. 0 \in S
  <2> SUFFICES ASSUME NEW T \in SUBSET U, IsFiniteSet(T), Cardinality(T) = 1
               PROVE  \E x \in T : \A y \in T : <<x, y>> \notin R
    OBVIOUS
  <2>1. PICK x : T = {x}
    BY FS_Singleton
  <2> QED BY <2>1
<1>2. ASSUME NEW n \in S PROVE n + 1 \in S
  <2> SUFFICES ASSUME NEW T \in SUBSET U, IsFiniteSet(T), Cardinality(T) = n + 2
               PROVE  \E x \in T : \A y \in T : <<x, y>> \notin R
    OBVIOUS
  <2>1. PICK x \in T : TRUE
    BY FS_EmptySet
  <2>2. IsFiniteSet(T \ {x}) /\ Cardinality(T \ {x}) = n + 1
    BY <2>1, FS_RemoveElement
  <2>3. PICK t \in T \ {x} : \A y \in T \ {x} : <<t, y>> \notin R
    BY <2>2
  <2>4. CASE <<t, x>> \in R
    <3>1. \A y \in T : <<x, y>> \notin R
      BY <2>3, <2>4
    <3> QED BY <3>1
  <2>5. CASE <<t, x>> \notin R
    BY <2>3, <2>5
  <2> QED BY <2>4, <2>5
<1>3. S = Nat
  <2> HIDE DEF S
  <2> QED BY <1>1, <1>2, Induction DEF S
<1>4. Cardinality(U) \in Nat /\ Cardinality(U) # 0
  BY FS_CardinalityType, FS_EmptySet
<1>5. Cardinality(U) - 1 \in S /\ (Cardinality(U) - 1) + 1 = Cardinality(U)
  <2> HIDE DEF S
  <2> QED BY <1>3, <1>4
<1> QED BY <1>5

\* f starts with base and goes on, k times, as F says.
IsRun(f, T, k, base, F) ==
  f \in [0..k -> T] /\ f[0] = base /\ \A n \in 1..k : f[n] = F[n][f[n - 1]]

LEMMA Recursion ==
  ASSUME NEW T, NEW k \in Nat, NEW base \in T, NEW F \in [1..k -> [T -> T]]
  PROVE  \E f : IsRun(f, T, k, base, F)
<1> DEFINE S == {m \in 0..k : \E f : IsRun(f, T, m, base, F)}
<1>1. 0 \in S
  <2> DEFINE g == [n \in 0..0 |-> base]
  <2>1. g \in [0..0 -> T] /\ g[0] = base /\ 1..0 = {}
    OBVIOUS
  <2> HIDE DEF g
  <2>2. IsRun(g, T, 0, base, F)
    BY <2>1 DEF IsRun
  <2> QED BY <2>2
<1>2. ASSUME NEW m \in 1..k, m - 1 \in S PROVE m \in S
  <2>1. PICK f : IsRun(f, T, m - 1, base, F)
    BY <1>2
  <2> DEFINE g == [n \in 0..m |-> IF n = m THEN F[m][f[m - 1]] ELSE f[n]]
  <2>2. f[m - 1] \in T
    BY <2>1 DEF IsRun
  <2>3. g \in [0..m -> T]
    BY <2>1, <2>2 DEF IsRun
  <2>4. g[0] = base
    BY <2>1 DEF IsRun
  <2>5. ASSUME NEW n \in 1..m PROVE g[n] = F[n][g[n - 1]]
    <3>1. CASE n = m
      BY <3>1
    <3>2. CASE n # m
      BY <3>2, <2>1 DEF IsRun
    <3> QED BY <3>1, <3>2
  <2> HIDE DEF g
  <2>6. IsRun(g, T, m, base, F)
    BY <2>3, <2>4, <2>5 DEF IsRun
  <2> QED BY <2>6
<1>3. \A m \in 0..k : m \in S
  <2>1. \A m \in 1..k : m - 1 \in S => m \in S
    BY <1>2
  <2> HIDE DEF S
  <2> QED BY <1>1, <2>1, InductionUpTo
<1>4. k \in S
  BY <1>3
<1> QED BY <1>4

\* What is defined by the same equations is the same.
Obeys(g, T, k, base, F) == g[0] = base /\ \A n \in 1..k : g[n - 1] \in T => g[n] = F[n][g[n - 1]]

LEMMA OneRun ==
  ASSUME NEW T, NEW k \in Nat, NEW base, NEW F, NEW f, IsRun(f, T, k, base, F),
         NEW g, Obeys(g, T, k, base, F)
  PROVE  \A n \in 0..k : g[n] = f[n]
<1> DEFINE S == {m \in 0..k : g[m] = f[m]}
<1>1. 0 \in S
  BY DEF IsRun, Obeys
<1>2. \A n \in 1..k : n - 1 \in S => n \in S
  BY DEF IsRun, Obeys
<1>3. \A n \in 0..k : n \in S
  <2> HIDE DEF S
  <2> QED BY <1>1, <1>2, InductionUpTo
<1> QED BY <1>3

-----------------------------------------------------------------------------
(* Choosing from a sequence *)

\* The elements of s at some places, in their order.
Sifted(s, places) ==
  LET upTo[n \in 0..Len(s)] ==
        IF n = 0 THEN <<>> ELSE IF n \in places THEN Append(upTo[n - 1], s[n]) ELSE upTo[n - 1]
  IN  upTo[Len(s)]

\* t has the elements of s at those of the places, in their order; at says where.
IsSifted(t, s, places, at) ==
  /\ at \in [1..Len(t) -> places]
  /\ \A n \in places : \E p \in 1..Len(t) : at[p] = n
  /\ \A p, q \in 1..Len(t) : p < q => at[p] < at[q]
  /\ \A p \in 1..Len(t) : t[p] = s[at[p]]

SiftedUpTo(t, U, s, places, n) == t \in Seq(U) /\ \E at : IsSifted(t, s, places \cap 1..n, at)

LEMMA SiftingOne ==
  ASSUME NEW U, NEW s \in Seq(U), NEW n \in 1..Len(s), NEW places,
         NEW t, SiftedUpTo(t, U, s, places, n - 1), n \in places
  PROVE  SiftedUpTo(Append(t, s[n]), U, s, places, n)
<1>0. t \in Seq(U)
  BY DEF SiftedUpTo
<1> PICK at : IsSifted(t, s, places \cap 1..(n - 1), at)
  BY DEF SiftedUpTo
<1> DEFINE u == Append(t, s[n])
           to == [p \in 1..Len(u) |-> IF p = Len(u) THEN n ELSE at[p]]
<1>1. /\ u \in Seq(U) /\ Len(u) = Len(t) + 1 /\ Len(t) \in Nat /\ u[Len(u)] = s[n]
      /\ \A p \in 1..Len(t) : u[p] = t[p]
  BY <1>0
<1> HIDE DEF u
<1>2. \A p \in 1..Len(t) : at[p] \in places /\ at[p] \in 1..(n - 1) /\ to[p] = at[p] /\ p \in 1..Len(u) /\ p # Len(u)
  BY <1>1 DEF IsSifted
<1>3. Len(u) \in 1..Len(u) /\ to[Len(u)] = n /\ \A p \in 1..Len(u) : p # Len(u) => p \in 1..Len(t)
  BY <1>1
<1>4. to \in [1..Len(u) -> places \cap 1..n]
  <2>1. \A p \in 1..Len(u) : to[p] \in places \cap 1..n
    <3> SUFFICES ASSUME NEW p \in 1..Len(u) PROVE to[p] \in places \cap 1..n
      OBVIOUS
    <3>1. CASE p = Len(u)
      BY <3>1
    <3>2. CASE p # Len(u)
      <4>1. p \in 1..Len(t)
        BY <3>2, <1>3
      <4>2. to[p] \in places /\ to[p] \in 1..(n - 1)
        BY <4>1, <1>2
      <4> QED BY <4>2
    <3> QED BY <3>1, <3>2
  <2> QED BY <2>1
<1> HIDE DEF to
<1>5. \A m \in places \cap 1..n : \E p \in 1..Len(u) : to[p] = m
  <2> SUFFICES ASSUME NEW m \in places \cap 1..n PROVE \E p \in 1..Len(u) : to[p] = m
    OBVIOUS
  <2>1. CASE m = n
    BY <2>1, <1>3
  <2>2. CASE m # n
    <3>1. m \in places \cap 1..(n - 1)
      BY <2>2
    <3>2. PICK p \in 1..Len(t) : at[p] = m
      BY <3>1 DEF IsSifted
    <3> QED BY <3>2, <1>2
  <2> QED BY <2>1, <2>2
<1>6. \A p, q \in 1..Len(u) : p < q => to[p] < to[q]
  <2> SUFFICES ASSUME NEW p \in 1..Len(u), NEW q \in 1..Len(u), p < q PROVE to[p] < to[q]
    OBVIOUS
  <2>1. p # Len(u) /\ p \in 1..Len(t)
    BY <1>1
  <2>2. CASE q = Len(u)
    BY <2>1, <2>2, <1>2, <1>3
  <2>3. CASE q # Len(u)
    <3>1. q \in 1..Len(t)
      BY <2>3, <1>3
    <3> QED BY <2>1, <3>1, <1>2 DEF IsSifted
  <2> QED BY <2>2, <2>3
<1>7. \A p \in 1..Len(u) : u[p] = s[to[p]]
  BY <1>1, <1>2, <1>3 DEF IsSifted
<1>8. IsSifted(u, s, places \cap 1..n, to)
  BY <1>4, <1>5, <1>6, <1>7 DEF IsSifted
<1> QED BY <1>1, <1>8 DEF u, SiftedUpTo

LEMMA Sifting ==
  ASSUME NEW U, NEW s \in Seq(U), NEW places
  PROVE  SiftedUpTo(Sifted(s, places), U, s, places, Len(s))
<1> DEFINE k == Len(s)
           next(p, n) == IF n \in places THEN Append(p, s[n]) ELSE p
           F == [n \in 1..k |-> [p \in Seq(U) |-> next(p, n)]]
           body(h) == [n \in 0..k |-> IF n = 0 THEN <<>> ELSE next(h[n - 1], n)]
           g == CHOOSE h : h = body(h)
<1>1. k \in Nat
  OBVIOUS
<1>2. \A p \in Seq(U), n \in 1..k : next(p, n) \in Seq(U)
  OBVIOUS
<1>3. F \in [1..k -> [Seq(U) -> Seq(U)]]
  BY <1>2
<1>4. \A n \in 1..k, p \in Seq(U) : F[n][p] = next(p, n)
  OBVIOUS
<1>5. PICK f : IsRun(f, Seq(U), k, <<>>, F)
  <2>1. <<>> \in Seq(U)
    OBVIOUS
  <2> HIDE DEF F, k
  <2> QED BY <2>1, <1>1, <1>3, Recursion
<1>6. \A n \in 1..k : f[n] = next(f[n - 1], n)
  <2> HIDE DEF F, next
  <2> QED BY <1>4, <1>5, <1>1 DEF IsRun
<1>7. f = body(f)
  <2> HIDE DEF next
  <2> QED BY <1>5, <1>6, <1>1 DEF IsRun
<1>8. g = body(g)
  <2> HIDE DEF body
  <2> QED BY <1>7
<1>9. g[0] = <<>> /\ \A n \in 1..k : g[n] = next(g[n - 1], n)
  <2>1. \A h : h = body(h) => h[0] = <<>> /\ \A n \in 1..k : h[n] = next(h[n - 1], n)
    <3> HIDE DEF next
    <3> QED BY <1>1
  <2> HIDE DEF g, body, next
  <2> QED BY <2>1, <1>8
<1>10. Sifted(s, places) = g[k]
  BY DEF Sifted
<1> DEFINE S == {n \in 0..k : SiftedUpTo(g[n], U, s, places, n)}
<1>11. SiftedUpTo(g[0], U, s, places, 0)
  <2>1. IsSifted(<<>>, s, places \cap 1..0, [p \in 1..0 |-> p])
    BY DEF IsSifted
  <2> HIDE DEF g
  <2> QED BY <2>1, <1>9 DEF SiftedUpTo
<1>12. ASSUME NEW n \in 1..k, SiftedUpTo(g[n - 1], U, s, places, n - 1) PROVE SiftedUpTo(g[n], U, s, places, n)
  <2>1. g[n] = next(g[n - 1], n)
    <3> HIDE DEF g, next
    <3> QED BY <1>9
  <2> HIDE DEF g
  <2>2. CASE n \in places
    <3>1. g[n] = Append(g[n - 1], s[n])
      BY <2>1, <2>2
    <3> HIDE DEF k
    <3> QED BY <2>2, <3>1, <1>12, SiftingOne DEF k
  <2>3. CASE n \notin places
    <3>1. g[n] = g[n - 1] /\ places \cap 1..n = places \cap 1..(n - 1)
      BY <2>1, <2>3, <1>1
    <3> QED BY <3>1, <1>12 DEF SiftedUpTo
  <2> QED BY <2>2, <2>3
<1>13. \A n \in 0..k : n \in S
  <2>1. 0 \in S
    <3> HIDE DEF g, k
    <3> QED BY <1>1, <1>11
  <2>2. \A n \in 1..k : n - 1 \in S => n \in S
    <3> HIDE DEF g, k
    <3> QED BY <1>1, <1>12
  <2> HIDE DEF S, k
  <2> QED BY <1>1, <2>1, <2>2, InductionUpTo
<1>14. SiftedUpTo(g[k], U, s, places, k)
  <2> HIDE DEF g, k
  <2> QED BY <1>1, <1>13
<1> HIDE DEF g
<1> QED BY <1>10, <1>14
=============================================================================
