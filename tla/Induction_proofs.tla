-------------------------- MODULE Induction_proofs --------------------------
(***************************************************************************)
(* Induction over the natural numbers without an operator parameter, from  *)
(* the well-foundedness of <, and what it says of a recursive function: a  *)
(* function that takes the same steps from the same start is the same.     *)
(* The same for sequences that grow at their end.                          *)
(***************************************************************************)
EXTENDS Naturals, Sequences, SequenceTheorems, WellFoundedInduction, TLAPS

LEMMA LeastElement ==
  ASSUME NEW T, T \subseteq Nat, T # {}
  PROVE  \E x \in T : \A y \in T : x <= y
<1> DEFINE R == OpToRel(<, Nat)
<1>1. IsWellFoundedOn(R, Nat)
  BY NatLessThanWellFounded
<1> HIDE DEF R
<1>2. PICK x \in T : \A y \in T : ~(<<y, x>> \in R)
  BY <1>1, WFMin
<1>3. \A m, n \in Nat : n < m => <<n, m>> \in R
  BY DEF R, OpToRel
<1>4. ASSUME NEW y \in T
      PROVE  x <= y
  <2>1. x \in Nat /\ y \in Nat
    OBVIOUS
  <2>2. ~(y < x)
    BY <1>2, <1>3, <2>1
  <2>3. QED
    BY <2>1, <2>2
<1>5. QED
  BY <1>4

LEMMA Induction ==
  ASSUME NEW S, 0 \in S, \A n \in Nat : n \in S => n + 1 \in S
  PROVE  Nat \subseteq S
<1> SUFFICES ASSUME Nat \ S # {}
             PROVE  FALSE
  OBVIOUS
<1>1. PICK x \in Nat \ S : \A y \in Nat \ S : x <= y
  BY LeastElement
<1>2. x - 1 \in Nat
  BY <1>1
<1>3. x - 1 \in S
  BY <1>1, <1>2
<1>4. QED
  BY <1>1, <1>2, <1>3

(* The values of a recursive function are those of any function that makes *)
(* the same steps.                                                         *)
LEMMA SameSteps ==
  ASSUME NEW n \in Nat, NEW f, NEW g, f[0] = g[0],
         \A k \in 1 .. n : f[k - 1] = g[k - 1] => f[k] = g[k]
  PROVE  \A k \in 0 .. n : f[k] = g[k]
<1> DEFINE S == {k \in Nat : k <= n => f[k] = g[k]}
<1>1. 0 \in S
  OBVIOUS
<1>2. ASSUME NEW k \in Nat, k \in S
      PROVE  k + 1 \in S
  <2>1. CASE k + 1 <= n
    <3>1. f[k] = g[k] /\ k + 1 \in 1 .. n /\ (k + 1) - 1 = k
      BY <1>2, <2>1
    <3>2. f[k + 1] = g[k + 1]
      BY <3>1
    <3>3. QED
      BY <3>2
  <2>2. CASE ~(k + 1 <= n)
    BY <2>2
  <2>3. QED
    BY <2>1, <2>2
<1> HIDE DEF S
<1>3. Nat \subseteq S
  BY <1>1, <1>2, Induction
<1>4. QED
  BY <1>3 DEF S

(* f repeats the step F from s, n times over.                              *)
Iterates(f, F, s, n) == f[0] = s /\ \A k \in 1 .. n : f[k] = F[f[k - 1]]

(* There is such a function.                                               *)
LEMMA Iteration ==
  ASSUME NEW D, NEW F \in [D -> D], NEW s \in D, NEW n \in Nat
  PROVE  \E f \in [0 .. n -> D] : Iterates(f, F, s, n)
<1> DEFINE Steps(f, m) == Iterates(f, F, s, m)
           N == {m \in Nat : \E f \in [0 .. m -> D] : Steps(f, m)}
<1> USE DEF Iterates
<1>1. 0 \in N
  <2>1. [k \in 0 .. 0 |-> s] \in [0 .. 0 -> D] /\ Steps([k \in 0 .. 0 |-> s], 0)
    OBVIOUS
  <2>2. QED
    BY <2>1
<1>2. ASSUME NEW m \in Nat, m \in N
      PROVE  m + 1 \in N
  <2>1. PICK f \in [0 .. m -> D] : Steps(f, m)
    BY <1>2
  <2> DEFINE g == [k \in 0 .. m + 1 |-> IF k = m + 1 THEN F[f[m]] ELSE f[k]]
  <2>2. f[m] \in D /\ F[f[m]] \in D
    OBVIOUS
  <2>3. g \in [0 .. m + 1 -> D]
    BY <2>2
  <2>4. ASSUME NEW k \in 1 .. m + 1
        PROVE  g[k] = F[g[k - 1]]
    <3>1. CASE k = m + 1
      <4>1. g[k] = F[f[m]] /\ g[k - 1] = f[m]
        BY <3>1
      <4>2. QED
        BY <4>1
    <3>2. CASE k # m + 1
      <4>1. k \in 1 .. m /\ g[k] = f[k] /\ g[k - 1] = f[k - 1]
        BY <3>2
      <4>2. f[k] = F[f[k - 1]]
        BY <2>1, <4>1
      <4>3. QED
        BY <4>1, <4>2
    <3>3. QED
      BY <3>1, <3>2
  <2>5. g[0] = s
    BY <2>1
  <2>6. Steps(g, m + 1)
    BY <2>4, <2>5
  <2> HIDE DEF g, Steps
  <2>7. QED
    BY <2>3, <2>6
<1> HIDE DEF N
<1>3. n \in N
  BY <1>1, <1>2, Induction
<1>4. QED
  BY <1>3 DEF N

(* g takes the steps F until it is in `stop'.                              *)
Loops(g, D, F, stop) == \A t \in D : g[t] = IF t \in stop THEN t ELSE g[F[t]]

(* The same, for what is at most m away from the end by the measure mu.    *)
LoopsBelow(g, D, F, stop, mu, m) ==
    g \in [D -> D] /\ \A t \in D : mu[t] < m => g[t] = IF t \in stop THEN t ELSE g[F[t]]

LEMMA LoopsBelowExists ==
  ASSUME NEW D, NEW F \in [D -> D], NEW stop, NEW mu \in [D -> Nat],
         \A t \in D \ stop : mu[F[t]] < mu[t], NEW m \in Nat
  PROVE  \E g : LoopsBelow(g, D, F, stop, mu, m)
<1> DEFINE N == {k \in Nat : \E g : LoopsBelow(g, D, F, stop, mu, k)}
<1>1. 0 \in N
  <2> DEFINE g == [t \in D |-> t]
  <2>1. g \in [D -> D]
    OBVIOUS
  <2> HIDE DEF g
  <2>2. \A t \in D : ~(mu[t] < 0)
    OBVIOUS
  <2>3. LoopsBelow(g, D, F, stop, mu, 0)
    BY <2>1, <2>2 DEF LoopsBelow
  <2>4. QED
    BY <2>3
<1>2. ASSUME NEW k \in Nat, k \in N
      PROVE  k + 1 \in N
  <2>1. PICK g : LoopsBelow(g, D, F, stop, mu, k)
    BY <1>2
  <2>2. g \in [D -> D] /\ \A t \in D : mu[t] < k => g[t] = IF t \in stop THEN t ELSE g[F[t]]
    BY <2>1 DEF LoopsBelow
  <2> DEFINE h == [t \in D |-> IF mu[t] < k THEN g[t] ELSE IF t \in stop THEN t ELSE g[F[t]]]
  <2>3. h \in [D -> D]
    BY <2>2
  <2>4. \A t \in D : mu[t] < k => h[t] = g[t]
    OBVIOUS
  <2>5. \A t \in D : h[t] = IF t \in stop THEN t ELSE g[F[t]]
    BY <2>2
  <2> HIDE DEF h
  <2>6. \A t \in D \ stop : mu[t] < k + 1 => F[t] \in D /\ mu[F[t]] < k
    OBVIOUS
  <2>7. \A t \in D : mu[t] < k + 1 => h[t] = IF t \in stop THEN t ELSE h[F[t]]
    BY <2>4, <2>5, <2>6
  <2>8. LoopsBelow(h, D, F, stop, mu, k + 1)
    BY <2>3, <2>7 DEF LoopsBelow
  <2>9. QED
    BY <2>8
<1> HIDE DEF N
<1>3. m \in N
  BY <1>1, <1>2, Induction
<1>4. QED
  BY <1>3 DEF N

LEMMA LoopsBelowUnique ==
  ASSUME NEW D, NEW F \in [D -> D], NEW stop, NEW mu \in [D -> Nat],
         \A t \in D \ stop : mu[F[t]] < mu[t],
         NEW m \in Nat, NEW n \in Nat, NEW g, NEW h,
         LoopsBelow(g, D, F, stop, mu, m), LoopsBelow(h, D, F, stop, mu, n)
  PROVE  \A t \in D : mu[t] < m /\ mu[t] < n => g[t] = h[t]
<1> DEFINE N == {k \in Nat : \A t \in D : mu[t] < k /\ mu[t] < m /\ mu[t] < n => g[t] = h[t]}
<1>1. /\ \A t \in D : mu[t] < m => g[t] = IF t \in stop THEN t ELSE g[F[t]]
      /\ \A t \in D : mu[t] < n => h[t] = IF t \in stop THEN t ELSE h[F[t]]
  BY DEF LoopsBelow
<1>2. 0 \in N
  OBVIOUS
<1>3. ASSUME NEW k \in Nat, k \in N
      PROVE  k + 1 \in N
  <2>1. SUFFICES ASSUME NEW t \in D, mu[t] < k + 1, mu[t] < m, mu[t] < n
                 PROVE  g[t] = h[t]
    OBVIOUS
  <2>2. CASE t \in stop
    BY <1>1, <2>1, <2>2
  <2>3. CASE t \notin stop
    <3> DEFINE u == F[t]
    <3>1. u \in D /\ mu[u] < mu[t] /\ mu[u] \in Nat /\ mu[t] \in Nat
      BY <2>3
    <3>2. mu[u] < k /\ mu[u] < m /\ mu[u] < n
      BY <2>1, <3>1
    <3>3. g[u] = h[u]
      BY <1>3, <3>1, <3>2
    <3>4. QED
      BY <1>1, <2>1, <2>3, <3>3
  <2>4. QED
    BY <2>2, <2>3
<1> HIDE DEF N
<1>4. Nat \subseteq N
  BY <1>2, <1>3, Induction
<1>5. ASSUME NEW t \in D, mu[t] < m, mu[t] < n
      PROVE  g[t] = h[t]
  <2>1. mu[t] + 1 \in N /\ mu[t] < mu[t] + 1
    BY <1>4
  <2>2. QED
    BY <1>5, <2>1 DEF N
<1>6. QED
  BY <1>5

(* A loop that a measure bounds has a result.                              *)
LEMMA LoopExists ==
  ASSUME NEW D, NEW F \in [D -> D], NEW stop, NEW mu \in [D -> Nat],
         \A t \in D \ stop : mu[F[t]] < mu[t]
  PROVE  \E g \in [D -> D] : Loops(g, D, F, stop)
<1> DEFINE c(t) == CHOOSE g : LoopsBelow(g, D, F, stop, mu, mu[t] + 1)
           G == [t \in D |-> c(t)[t]]
<1>1. ASSUME NEW t \in D
      PROVE  LoopsBelow(c(t), D, F, stop, mu, mu[t] + 1)
  <2> DEFINE m == mu[t] + 1
  <2>1. m \in Nat
    OBVIOUS
  <2> HIDE DEF m
  <2>2. \E g : LoopsBelow(g, D, F, stop, mu, m)
    BY <2>1, LoopsBelowExists
  <2>3. QED
    BY <2>2 DEF m
<1> HIDE DEF c
<1>2. \A t \in D : c(t) \in [D -> D]
  BY <1>1 DEF LoopsBelow
<1>3. G \in [D -> D]
  BY <1>2
<1>4. ASSUME NEW t \in D
      PROVE  G[t] = IF t \in stop THEN t ELSE G[F[t]]
  <2>1. c(t)[t] = IF t \in stop THEN t ELSE c(t)[F[t]]
    BY <1>1 DEF LoopsBelow
  <2>2. CASE t \in stop
    BY <2>1, <2>2
  <2>3. CASE t \notin stop
    <3> DEFINE u == F[t]
               m == mu[t] + 1
               n == mu[u] + 1
    <3>1. u \in D /\ m \in Nat /\ n \in Nat /\ mu[u] < m /\ mu[u] < n
      BY <2>3
    <3>2. LoopsBelow(c(t), D, F, stop, mu, m) /\ LoopsBelow(c(u), D, F, stop, mu, n)
      BY <1>1, <3>1
    <3> HIDE DEF m, n, u
    <3>3. c(t)[u] = c(u)[u]
      BY <3>1, <3>2, LoopsBelowUnique
    <3>4. G[t] = c(t)[t] /\ G[u] = c(u)[u]
      BY <3>1
    <3> HIDE DEF G
    <3>5. QED
      BY <2>1, <2>3, <3>3, <3>4 DEF u
  <2>4. QED
    BY <2>2, <2>3
<1> HIDE DEF G
<1>5. QED
  BY <1>3, <1>4 DEF Loops

(* What holds of the empty sequence and is kept by one more element holds  *)
(* of every sequence.                                                      *)
LEMMA SequenceInduction ==
  ASSUME NEW S, NEW T, <<>> \in T,
         \A s \in Seq(S), e \in S : s \in T => Append(s, e) \in T
  PROVE  Seq(S) \subseteq T
<1> DEFINE N == {n \in Nat : \A s \in Seq(S) : Len(s) = n => s \in T}
<1>1. 0 \in N
  BY EmptySeq
<1>2. ASSUME NEW n \in Nat, n \in N
      PROVE  n + 1 \in N
  <2>1. SUFFICES ASSUME NEW s \in Seq(S), Len(s) = n + 1
                 PROVE  s \in T
    OBVIOUS
  <2>2. s # <<>>
    BY <2>1, EmptySeq
  <2>3. PICK t \in Seq(S), e \in S : s = Append(t, e)
    BY <2>2, SequenceEmptyOrAppend
  <2>4. Len(t) = n
    BY <2>1, <2>3, AppendProperties, LenProperties
  <2>5. QED
    BY <1>2, <2>3, <2>4
<1> HIDE DEF N
<1>3. Nat \subseteq N
  BY <1>1, <1>2, Induction
<1>4. QED
  BY <1>3, LenProperties DEF N
=============================================================================
