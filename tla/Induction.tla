------------------------------ MODULE Induction ------------------------------
(***************************************************************************)
(* Induction over the natural numbers, and functions defined by recursion  *)
(* on them, in a form that the provers can use: sets instead of predicates, *)
(* functions instead of operators.  They follow from the well-foundedness   *)
(* of < on Nat.                                                            *)
(***************************************************************************)
EXTENDS WellFoundedInduction, TLAPS

\* A set of numbers that is not empty has a least element.
LEMMA WellOrdered ==
    ASSUME NEW T \in SUBSET Nat, T # {}
    PROVE  \E n \in T : \A m \in T : n <= m
<1> DEFINE R == {ss \in Nat \X Nat : ss[1] < ss[2]}
<1>1. IsWellFoundedOn(R, Nat)
    BY NatLessThanWellFounded DEF OpToRel
<1> HIDE DEF R
<1>2. PICK x \in T : \A y \in T : ~(<<y, x>> \in R)
    BY <1>1, WFMin
<1>3. \A y \in T : ~(y < x)
    BY <1>2 DEF R
<1>4. QED
    BY <1>3

\* A set with 0 and with the successor of each of its numbers has all numbers.
LEMMA SimpleInduction ==
    ASSUME NEW T, 0 \in T, \A n \in Nat : n \in T => n + 1 \in T
    PROVE  Nat \subseteq T
<1> DEFINE C == {n \in Nat : n \notin T}
<1>1. ASSUME C # {} PROVE FALSE
  <2>1. PICK n \in C : \A m \in C : n <= m
    BY <1>1, WellOrdered
  <2>2. n - 1 \in Nat /\ n - 1 \notin C
    BY <2>1
  <2>3. QED
    BY <2>1, <2>2
<1>2. QED
    BY <1>1

\* A set that has each number of D which all smaller ones of D precede in it.
LEMMA StrongInduction ==
    ASSUME NEW D \in SUBSET Nat, NEW T,
           \A n \in D : (\A m \in D : m < n => m \in T) => n \in T
    PROVE  D \subseteq T
<1> DEFINE C == {n \in D : n \notin T}
<1>1. ASSUME C # {} PROVE FALSE
  <2>1. PICK n \in C : \A m \in C : n <= m
    BY <1>1, WellOrdered
  <2>2. \A m \in D : m < n => m \in T
    BY <2>1
  <2>3. QED
    BY <2>1, <2>2
<1>2. QED
    BY <1>1

\* body gives the value of a function in [D -> S] at n by its values at smaller
\* numbers.
Determines(body, D, S) ==
    /\ D \subseteq Nat
    /\ body \in [D \X [D -> S] -> S]
    /\ \A n \in D : \A g, h \in [D -> S] :
         (\A m \in D : m < n => g[m] = h[m])
         => body[<<n, g>>] = body[<<n, h>>]

\* There is a function that takes, at each number, the value that body gives it.
LEMMA Recursion ==
    \A D, S, body : S # {} /\ Determines(body, D, S)
      => \E f \in [D -> S] : \A n \in D : f[n] = body[<<n, f>>]
<1> TAKE D, S, body
<1> HAVE S # {} /\ Determines(body, D, S)
<1> PICK any \in S : TRUE
    OBVIOUS
<1> USE DEF Determines
<1> DEFINE Below(n, g) == \A m \in D : m < n => g[m] = body[<<m, g>>]
           T == {n \in D : \E g \in [D -> S] : Below(n, g)}
<1>0. \A i, j, k \in D : i < j /\ j < k => i < k
  <2>1. \A i \in D : i \in Nat
    OBVIOUS
  <2>2. \A i, j, k \in Nat : i < j /\ j < k => i < k
    OBVIOUS
  <2>3. QED
    BY <2>1, <2>2
\* Two solutions below n have the same values there.
<1>1. ASSUME NEW n \in D, NEW g \in [D -> S], NEW h \in [D -> S],
             Below(n, g), Below(n, h)
      PROVE  \A m \in D : m < n => g[m] = h[m]
  <2> DEFINE E == {m \in D : m < n => g[m] = h[m]}
  <2>1. ASSUME NEW m \in D, \A k \in D : k < m => k \in E PROVE m \in E
    <3>1. SUFFICES ASSUME m < n PROVE g[m] = h[m]
      OBVIOUS
    <3>2. \A k \in D : k < m => g[k] = h[k]
      BY <2>1, <3>1
    <3>3. body[<<m, g>>] = body[<<m, h>>]
      BY <3>2
    <3>4. QED
      BY <1>1, <3>1, <3>3
  <2>2. D \subseteq E
    <3> HIDE DEF E
    <3>1. QED
      BY <2>1, StrongInduction
  <2>3. QED
    BY <2>2
<1> DEFINE G(m) == CHOOSE g \in [D -> S] : Below(m, g)
           F == [m \in D |-> IF m \in T THEN body[<<m, G(m)>>] ELSE any]
<1>2. \A m \in T : G(m) \in [D -> S] /\ Below(m, G(m))
    OBVIOUS
<1>3. F \in [D -> S]
  <2> HIDE DEF G, T
  <2>1. T \subseteq D
    BY DEF T
  <2>2. QED
    BY <1>2, <2>1
\* A solution below m has the values of F there, whose value at m it gives.
<1>4. ASSUME NEW m \in T, \A k \in D : k < m => k \in T
      PROVE  F[m] = body[<<m, F>>]
  <2>1. m \in D /\ F[m] = body[<<m, G(m)>>]
    OBVIOUS
  <2>2. ASSUME NEW k \in D, k < m PROVE G(m)[k] = F[k]
    <3>1. k \in T /\ F[k] = body[<<k, G(k)>>]
      BY <1>4, <2>2
    <3>2. G(m)[k] = body[<<k, G(m)>>]
      BY <1>2, <2>2
    <3>3. Below(k, G(m))
      <4>1. \A j \in D : j < k => j < m
        BY <1>0, <2>1, <2>2
      <4>2. \A j \in D : j < m => G(m)[j] = body[<<j, G(m)>>]
        BY <1>2
      <4> HIDE DEF G, T
      <4>3. QED
        BY <4>1, <4>2
    <3>4. Below(k, G(k)) /\ G(k) \in [D -> S] /\ G(m) \in [D -> S]
      BY <1>2, <3>1
    <3> HIDE DEF Below, G, F, T
    <3>5. \A j \in D : j < k => G(m)[j] = G(k)[j]
      BY <1>1, <2>2, <3>3, <3>4
    <3>6. body[<<k, G(m)>>] = body[<<k, G(k)>>]
      BY <3>4, <3>5
    <3>7. QED
      BY <3>1, <3>2, <3>6
  <2>3. G(m) \in [D -> S]
    BY <1>2
  <2> HIDE DEF Below, G, F, T
  <2>4. body[<<m, G(m)>>] = body[<<m, F>>]
    BY <1>3, <2>1, <2>2, <2>3
  <2>5. QED
    BY <2>1, <2>4
<1>5. ASSUME NEW n \in D, \A m \in D : m < n => m \in T PROVE n \in T
  <2>1. ASSUME NEW m \in D, m < n PROVE F[m] = body[<<m, F>>]
    <3> HIDE DEF F, T
    <3>1. \A k \in D : k < m => k < n
      BY <1>0, <2>1
    <3>2. m \in T /\ \A k \in D : k < m => k \in T
      BY <1>5, <2>1, <3>1
    <3>3. QED
      BY <1>4, <3>2
  <2> HIDE DEF F
  <2>2. QED
    BY <1>3, <2>1
<1> HIDE DEF F, T
<1>6. D \subseteq T
    BY <1>5, StrongInduction
<1>7. \A n \in D : F[n] = body[<<n, F>>]
    BY <1>4, <1>6
<1>8. QED
    BY <1>3, <1>7

\* The functions of a loop: a before its first step, and step gives the value
\* after the i-th from the one before.
Loop(D, S, a, step) ==
    /\ D \subseteq Nat /\ \A i \in D : i # 0 => i - 1 \in D
    /\ a \in S
    /\ step \in [(D \ {0}) \X S -> S]

Computes(f, D, S, a, step) ==
    /\ f \in [D -> S]
    /\ \A i \in D : f[i] = IF i = 0 THEN a ELSE step[<<i, f[i - 1]>>]

\* There is such a function,
LEMMA LoopExists ==
    \A D, S, a, step :
      Loop(D, S, a, step) => \E f : Computes(f, D, S, a, step)
<1> TAKE D, S, a, step
<1> HAVE Loop(D, S, a, step)
<1> DEFINE Body(i, f) == IF i = 0 THEN a ELSE step[<<i, f[i - 1]>>]
           body == [p \in D \X [D -> S] |-> Body(p[1], p[2])]
<1>1. \A i \in D, f \in [D -> S] : Body(i, f) \in S
    BY DEF Loop
<1>2. body \in [D \X [D -> S] -> S]
    BY <1>1
<1>3. ASSUME NEW i \in D, NEW f \in [D -> S], NEW g \in [D -> S],
             \A j \in D : j < i => f[j] = g[j]
      PROVE  body[<<i, f>>] = body[<<i, g>>]
  <2>1. i # 0 => i - 1 \in D /\ i - 1 < i
    BY DEF Loop
  <2>2. Body(i, f) = Body(i, g)
    BY <1>3, <2>1
  <2>3. QED
    BY <2>2
<1>4. \A i \in D, f \in [D -> S] : body[<<i, f>>] = Body(i, f)
    OBVIOUS
<1>5. S # {} /\ D \subseteq Nat
    BY DEF Loop
<1> HIDE DEF body
<1>6. Determines(body, D, S)
    BY <1>2, <1>3, <1>5 DEF Determines
<1>7. PICK f \in [D -> S] : \A i \in D : f[i] = body[<<i, f>>]
    BY <1>5, <1>6, Recursion
<1>8. \A i \in D : f[i] = Body(i, f)
    BY <1>4, <1>7
<1>9. QED
    BY <1>8 DEF Computes

\* and one whose steps are right as long as its values are in S is one.
Repeats(f, D, S, a, step) ==
    /\ f = [i \in D |-> f[i]]
    /\ \A i \in D : /\ i = 0 => f[i] = a
                    /\ i # 0 /\ f[i - 1] \in S
                         => f[i] = step[<<i, f[i - 1]>>]

LEMMA LoopType ==
    \A D, S, a, step, f :
      Loop(D, S, a, step) /\ Repeats(f, D, S, a, step)
        => Computes(f, D, S, a, step)
<1> TAKE D, S, a, step, f
<1> HAVE Loop(D, S, a, step) /\ Repeats(f, D, S, a, step)
<1> USE DEF Repeats
<1> DEFINE T == {i \in D : f[i] \in S}
<1>1. ASSUME NEW i \in D, \A j \in D : j < i => j \in T
      PROVE  i \in T
  <2>1. i # 0 => i - 1 \in D /\ i - 1 < i
    BY DEF Loop
  <2>2. CASE i = 0
    BY <2>2 DEF Loop
  <2>3. CASE i # 0
    <3>1. f[i - 1] \in S
      BY <1>1, <2>1, <2>3
    <3>2. QED
      BY <2>3, <3>1 DEF Loop
  <2>4. QED
    BY <2>2, <2>3
<1> HIDE DEF T
<1>2. D \subseteq T
    BY <1>1, StrongInduction DEF Loop
<1>3. ASSUME NEW i \in D
      PROVE  f[i] = IF i = 0 THEN a ELSE step[<<i, f[i - 1]>>]
  <2>1. i # 0 => f[i - 1] \in S
    BY <1>2 DEF T, Loop
  <2>2. QED
    BY <2>1
<1>4. f \in [D -> S]
    BY <1>2 DEF T
<1>5. QED
    BY <1>3, <1>4 DEF Computes
==============================================================================
