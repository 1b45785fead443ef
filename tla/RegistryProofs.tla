--------------------------- MODULE RegistryProofs ---------------------------
(***************************************************************************)
(* What registrationsQuery finds, for any collection and any request, what *)
(* cleanResponses leaves of the responses to an update, and the facts      *)
(* about numbers and sequences that this needs.  Induction is over the set *)
(* of the numbers that have a property.                                    *)
(***************************************************************************)
EXTENDS Registry, UpdateResponses, WellFoundedInduction, TLAPS

-----------------------------------------------------------------------------
(* Induction and recursion.                                                *)

\* A set of natural numbers has a least element.
LEMMA LeastNumber ==
  ASSUME NEW T \in SUBSET Nat, T # {}
  PROVE  \E n \in T : \A m \in T : n <= m
<1> DEFINE R == OpToRel(<, Nat)
<1>1. IsWellFoundedOn(R, Nat)
  BY NatLessThanWellFounded, Zenon
<1>2. \A x, y \in Nat : <<x, y>> \in R <=> x < y
  BY Zenon DEF OpToRel
<1> HIDE DEF R
<1>3. \E x \in T : \A y \in T : ~(<<y, x>> \in R)
  BY <1>1, WFMin, Zenon
<1>4. PICK n \in T : \A y \in T : <<y, n>> \notin R
  BY <1>3, Zenon
<1>5. ASSUME NEW m \in T PROVE n <= m
  <2>1. m \in Nat /\ n \in Nat
    BY Zenon
  <2>2. ~(m < n)
    BY <1>2, <1>4, <2>1, Zenon
  <2> QED
    BY <2>1, <2>2
<1> QED
  BY <1>5, Zenon

\* Every number is in a set that has 0 and, with a number, the next one.
LEMMA InductionSet ==
  ASSUME NEW T \in SUBSET Nat, 0 \in T, \A n \in T : n + 1 \in T
  PROVE  T = Nat
<1> SUFFICES ASSUME T # Nat PROVE FALSE
  BY Zenon
<1>1. PICK n \in Nat \ T : \A m \in Nat \ T : n <= m
  BY LeastNumber, Zenon
<1>2. n # 0 /\ n - 1 \in Nat /\ n - 1 \in T
  BY <1>1
<1> QED
  BY <1>1, <1>2

\* A function on the numbers, on 0 .. N or on 1 .. N that starts with x and goes on
\* with h.
StepFunction(S) == [Nat \X S -> S]

Iterates(f, S, x, h) ==
  f \in [Nat -> S] /\ f[0] = x /\ \A n \in Nat : f[n + 1] = h[<<n, f[n]>>]

IteratesFrom0(f, N, S, x, h) ==
  f \in [0 .. N -> S] /\ f[0] = x /\ \A i \in 1 .. N : f[i] = h[<<i, f[i - 1]>>]

IteratesFrom1(f, N, S, x, h) ==
  f \in [1 .. N -> S] /\ \A i \in 1 .. N : f[i] = IF i = 1 THEN x ELSE h[<<i, f[i - 1]>>]

\* There is one.
LEMMA Recursion ==
  ASSUME NEW S, NEW x \in S, NEW h \in StepFunction(S)
  PROVE  \E f : Iterates(f, S, x, h)
<1> USE DEF StepFunction
<1> DEFINE Upto(g, k) == /\ g \in [Nat -> S]
                         /\ g[0] = x
                         /\ \A n \in Nat : n < k => g[n + 1] = h[<<n, g[n]>>]
           T == {k \in Nat : \E g : Upto(g, k)}
<1>1. 0 \in T
  <2>1. Upto([n \in Nat |-> x], 0)
    OBVIOUS
  <2> QED
    BY <2>1, Zenon
<1>2. ASSUME NEW k \in T PROVE k + 1 \in T
  <2>1. PICK g : Upto(g, k)
    BY Zenon
  <2> DEFINE g1 == [n \in Nat |-> IF n = k + 1 THEN h[<<k, g[k]>>] ELSE g[n]]
  <2>2. k \in Nat /\ g[k] \in S /\ h[<<k, g[k]>>] \in S
    BY <2>1, Zenon
  <2>3. g1 \in [Nat -> S] /\ g1[0] = x
    BY <2>1, <2>2
  <2>4. ASSUME NEW n \in Nat, n < k + 1 PROVE g1[n + 1] = h[<<n, g1[n]>>]
    <3>1. CASE n = k
      BY <2>2, <3>1
    <3>2. CASE n < k
      <4>1. g1[n + 1] = g[n + 1] /\ g1[n] = g[n]
        BY <2>2, <3>2
      <4> QED
        BY <2>1, <3>2, <4>1, Zenon
    <3> QED
      BY <2>2, <2>4, <3>1, <3>2
  <2>5. Upto(g1, k + 1)
    BY <2>3, <2>4, Zenon
  <2>6. \E g2 : Upto(g2, k + 1)
    <3> HIDE DEF Upto, g1
    <3> QED
      BY <2>5, Zenon
  <2> QED
    BY <2>2, <2>6
<1>3. T = Nat
  <2> HIDE DEF T
  <2>1. T \in SUBSET Nat
    BY Zenon DEF T
  <2> QED
    BY <1>1, <1>2, <2>1, InductionSet, Zenon
<1>4. \A k \in Nat : \E g : Upto(g, k)
  BY <1>3, Zenon
\* Two such functions agree as far as both go.
<1>5. ASSUME NEW k1 \in Nat, NEW k2 \in Nat, k1 <= k2, NEW g1, NEW g2, Upto(g1, k1), Upto(g2, k2)
      PROVE  g1[k1] = g2[k1]
  <2> DEFINE U == {n \in Nat : n <= k1 => g1[n] = g2[n]}
  <2>1. 0 \in U
    BY <1>5, Zenon
  <2>2. ASSUME NEW n \in U PROVE n + 1 \in U
    <3>1. ASSUME n + 1 <= k1 PROVE g1[n + 1] = g2[n + 1]
      <4>1. n \in Nat /\ n < k1 /\ n < k2 /\ g1[n] = g2[n]
        BY <1>5, <3>1
      <4> QED
        BY <1>5, <4>1, Zenon
    <3> QED
      BY <3>1
  <2>3. U = Nat
    <3> HIDE DEF U
    <3>1. U \in SUBSET Nat
      BY Zenon DEF U
    <3> QED
      BY <2>1, <2>2, <3>1, InductionSet, Zenon
  <2> QED
    BY <2>3
<1> DEFINE G(k) == CHOOSE g : Upto(g, k)
           f == [k \in Nat |-> G(k)[k]]
<1>6. \A k \in Nat : Upto(G(k), k)
  BY <1>4, Zenon
<1> HIDE DEF G
<1>7. f \in [Nat -> S] /\ f[0] = x
  BY <1>6, Zenon
<1>8. ASSUME NEW n \in Nat PROVE f[n + 1] = h[<<n, f[n]>>]
  <2>1. Upto(G(n), n) /\ Upto(G(n + 1), n + 1) /\ n + 1 \in Nat /\ n <= n + 1 /\ n < n + 1
    BY <1>6
  <2>2. G(n)[n] = G(n + 1)[n]
    BY <1>5, <2>1
  <2>3. G(n + 1)[n + 1] = h[<<n, G(n + 1)[n]>>]
    BY <2>1, Zenon
  <2> QED
    BY <2>2, <2>3
<1> HIDE DEF f
<1> QED
  BY <1>7, <1>8, Zenon DEF Iterates

\* A recursive function on 0 .. N, the form in which loops are modelled, satisfies its
\* defining equations.
LEMMA RecursionFrom0 ==
  ASSUME NEW S, NEW N \in Nat, NEW x \in S, NEW h \in StepFunction(S)
  PROVE  \E f : IteratesFrom0(f, N, S, x, h)
<1> DEFINE k == [p \in Nat \X S |-> h[<<p[1] + 1, p[2]>>]]
<1>1. k \in StepFunction(S)
  BY DEF StepFunction
<1>2. PICK g : Iterates(g, S, x, k)
  <2> HIDE DEF k
  <2> QED
    BY <1>1, Recursion, Zenon
<1>3. g \in [Nat -> S] /\ g[0] = x /\ \A n \in Nat : g[n + 1] = h[<<n + 1, g[n]>>]
  BY <1>2, Zenon DEF Iterates
<1> DEFINE f == [i \in 0 .. N |-> g[i]]
<1>4. f \in [0 .. N -> S] /\ f[0] = x
  BY <1>3
<1>5. ASSUME NEW i \in 1 .. N PROVE f[i] = h[<<i, f[i - 1]>>]
  <2>1. i - 1 \in Nat /\ (i - 1) + 1 = i /\ i - 1 \in 0 .. N /\ i \in 0 .. N
    OBVIOUS
  <2>2. g[i] = h[<<i, g[i - 1]>>]
    BY <1>3, <2>1, Zenon
  <2> QED
    BY <2>1, <2>2, Zenon
<1> HIDE DEF f
<1> QED
  BY <1>4, <1>5, Zenon DEF IteratesFrom0

\* The same from 1.
LEMMA RecursionFrom1 ==
  ASSUME NEW S, NEW N \in Nat, NEW x \in S, NEW h \in StepFunction(S)
  PROVE  \E f : IteratesFrom1(f, N, S, x, h)
<1> DEFINE k == [p \in Nat \X S |-> IF p[1] = 1 THEN x ELSE h[p]]
<1>1. k \in StepFunction(S)
  BY Zenon DEF StepFunction
<1>2. PICK g : IteratesFrom0(g, N, S, x, k)
  <2> HIDE DEF k
  <2> QED
    BY <1>1, RecursionFrom0, Zenon
<1>3. /\ g \in [0 .. N -> S]
      /\ \A i \in 1 .. N : g[i] = IF i = 1 THEN x ELSE h[<<i, g[i - 1]>>]
  <2>1. g \in [0 .. N -> S] /\ \A i \in 1 .. N : g[i] = k[<<i, g[i - 1]>>]
    BY <1>2, Zenon DEF IteratesFrom0
  <2>2. ASSUME NEW i \in 1 .. N PROVE <<i, g[i - 1]>> \in Nat \X S
    BY <2>1
  <2> QED
    BY <2>1, <2>2, Zenon
<1> DEFINE f == [i \in 1 .. N |-> g[i]]
<1>4. f \in [1 .. N -> S]
  BY <1>3
<1>5. ASSUME NEW i \in 1 .. N PROVE f[i] = IF i = 1 THEN x ELSE h[<<i, f[i - 1]>>]
  <2>1. i # 1 => i - 1 \in 1 .. N
    OBVIOUS
  <2> QED
    BY <1>3, <2>1, Zenon
<1> HIDE DEF f
<1> QED
  BY <1>4, <1>5, Zenon DEF IteratesFrom1

-----------------------------------------------------------------------------
(* Sequences.                                                              *)

\* What the provers know of sequences.
LEMMA LenProperties ==
  ASSUME NEW S, NEW s \in Seq(S)
  PROVE  Len(s) \in Nat /\ DOMAIN s = 1 .. Len(s) /\ s \in [1 .. Len(s) -> S]
OBVIOUS

\* The elements of a sequence.
LEMMA ElementOfSeq ==
  ASSUME NEW S, NEW s \in Seq(S), NEW i \in 1 .. Len(s)
  PROVE  s[i] \in S
OBVIOUS

\* The empty sequence.
LEMMA EmptySeq ==
  ASSUME NEW S
  PROVE  <<>> \in Seq(S) /\ \A s \in Seq(S) : s = <<>> <=> Len(s) = 0
OBVIOUS

\* Concatenation.
LEMMA ConcatProperties ==
  ASSUME NEW S, NEW s \in Seq(S), NEW t \in Seq(S)
  PROVE  /\ s \o t \in Seq(S)
         /\ Len(s \o t) = Len(s) + Len(t)
         /\ \A i \in 1 .. Len(s) + Len(t) : (s \o t)[i] = IF i <= Len(s) THEN s[i] ELSE t[i - Len(s)]
OBVIOUS

\* The elements of s, by their places.
LEMMA ToSetSeq ==
  ASSUME NEW S, NEW s \in Seq(S)
  PROVE  /\ ToSet(s) \subseteq S
         /\ \A x : x \in ToSet(s) <=> \E i \in 1 .. Len(s) : x = s[i]
         /\ Len(s) = 0 <=> ToSet(s) = {}
<1>1. s \in [1 .. Len(s) -> S] /\ DOMAIN s = 1 .. Len(s) /\ Len(s) \in Nat
  BY LenProperties, Zenon
<1>2. \A x : x \in ToSet(s) <=> \E i \in 1 .. Len(s) : x = s[i]
  BY <1>1, Zenon DEF ToSet
<1>3. ToSet(s) \subseteq S
  BY <1>1, <1>2, Zenon
<1>4. Len(s) # 0 => s[1] \in ToSet(s)
  BY <1>1, <1>2
<1>5. Len(s) = 0 => \A x : x \notin ToSet(s)
  BY <1>1, <1>2
<1> QED
  BY <1>2, <1>3, <1>4, <1>5, Zenon

\* The elements of a concatenation.
LEMMA ToSetConcat ==
  ASSUME NEW S, NEW s \in Seq(S), NEW t \in Seq(S)
  PROVE  ToSet(s \o t) = ToSet(s) \cup ToSet(t)
<1>0. \A v \in Seq(S) : \A x : x \in ToSet(v) <=> \E i \in 1 .. Len(v) : x = v[i]
  BY ToSetSeq, Zenon
<1> PICK u : u = s \o t
  BY Zenon
<1>1. /\ u \in Seq(S) /\ Len(u) = Len(s) + Len(t) /\ Len(s) \in Nat /\ Len(t) \in Nat
      /\ \A i \in 1 .. Len(s) + Len(t) : u[i] = IF i <= Len(s) THEN s[i] ELSE t[i - Len(s)]
  BY ConcatProperties, LenProperties, Zenon
<1>2. \A x : x \in ToSet(u) <=> \E i \in 1 .. Len(u) : x = u[i]
  BY <1>0, <1>1, Zenon
<1>3. \A x : x \in ToSet(s) <=> \E i \in 1 .. Len(s) : x = s[i]
  BY <1>0, Zenon
<1>4. \A x : x \in ToSet(t) <=> \E i \in 1 .. Len(t) : x = t[i]
  BY <1>0, Zenon
<1>5. ASSUME NEW x \in ToSet(u) PROVE x \in ToSet(s) \cup ToSet(t)
  <2>1. PICK i \in 1 .. Len(s) + Len(t) : x = u[i]
    BY <1>1, <1>2, Zenon
  <2>2. CASE i <= Len(s)
    BY <1>1, <1>3, <2>1, <2>2
  <2>3. CASE i > Len(s)
    <3>1. i - Len(s) \in 1 .. Len(t) /\ x = t[i - Len(s)]
      BY <1>1, <2>1, <2>3
    <3> QED
      BY <1>4, <3>1, Zenon
  <2> QED
    BY <1>1, <2>2, <2>3
<1>6. ASSUME NEW x \in ToSet(s) PROVE x \in ToSet(u)
  <2>1. PICK i \in 1 .. Len(s) : x = s[i]
    BY <1>3, Zenon
  <2>2. i \in 1 .. Len(u) /\ x = u[i]
    BY <1>1, <2>1
  <2> QED
    BY <1>2, <2>2, Zenon
<1>7. ASSUME NEW x \in ToSet(t) PROVE x \in ToSet(u)
  <2>1. PICK i \in 1 .. Len(t) : x = t[i]
    BY <1>4, Zenon
  <2>2. i + Len(s) \in 1 .. Len(u) /\ x = u[i + Len(s)]
    BY <1>1, <2>1
  <2> QED
    BY <1>2, <2>2, Zenon
<1> QED
  BY <1>5, <1>6, <1>7, Zenon

\* FlattenSeq is the last of the concatenations of the first sequences.
LEMMA FlattenSteps ==
  ASSUME NEW S, NEW seqs \in Seq(Seq(S)), Len(seqs) # 0
  PROVE  \E f \in [1 .. Len(seqs) -> Seq(S)] :
            /\ \A i \in 1 .. Len(seqs) : f[i] = IF i = 1 THEN seqs[i] ELSE f[i - 1] \o seqs[i]
            /\ FlattenSeq(seqs) = f[Len(seqs)]
<1>1. PICK N \in Nat : N = Len(seqs) /\ N # 0 /\ seqs \in [1 .. N -> Seq(S)]
  BY LenProperties, Zenon
<1> DEFINE h == [p \in Nat \X Seq(S) |-> IF p[1] \in 1 .. N THEN p[2] \o seqs[p[1]] ELSE p[2]]
<1>2. h \in StepFunction(Seq(S))
  BY <1>1, ConcatProperties, Zenon DEF StepFunction
<1>3. ASSUME NEW i \in 1 .. N, NEW t \in Seq(S) PROVE h[<<i, t>>] = t \o seqs[i]
  <2>1. <<i, t>> \in Nat \X Seq(S)
    OBVIOUS
  <2> QED
    BY <2>1, Zenon
<1>4. seqs[1] \in Seq(S)
  BY <1>1
<1> HIDE DEF h
<1>5. PICK f0 : IteratesFrom1(f0, N, Seq(S), seqs[1], h)
  BY <1>2, <1>4, RecursionFrom1, Zenon
<1> DEFINE Eq(f) == f = [i \in 1 .. N |-> IF i = 1 THEN seqs[i] ELSE f[i - 1] \o seqs[i]]
           flatten == CHOOSE f : Eq(f)
<1>6. Eq(f0)
  <2>1. /\ f0 \in [1 .. N -> Seq(S)]
        /\ \A i \in 1 .. N : f0[i] = IF i = 1 THEN seqs[1] ELSE h[<<i, f0[i - 1]>>]
    BY <1>5, Zenon DEF IteratesFrom1
  <2>2. ASSUME NEW i \in 1 .. N PROVE f0[i] = IF i = 1 THEN seqs[i] ELSE f0[i - 1] \o seqs[i]
    <3>1. CASE i = 1
      BY <2>1, <3>1, Zenon
    <3>2. CASE i # 1
      <4>1. i - 1 \in 1 .. N
        BY <3>2
      <4>2. f0[i - 1] \in Seq(S) /\ f0[i] = h[<<i, f0[i - 1]>>]
        BY <2>1, <3>2, <4>1, Zenon
      <4> QED
        BY <1>3, <3>2, <4>2, Zenon
    <3> QED
      BY <3>1, <3>2, Zenon
  <2> QED
    BY <2>1, <2>2, Zenon
<1>7. Eq(flatten)
  <2> HIDE DEF Eq
  <2> QED
    BY <1>6, Zenon
<1>8. FlattenSeq(seqs) = flatten[N]
  BY <1>1 DEF FlattenSeq
<1> HIDE DEF flatten
<1>9. flatten \in [1 .. N -> Seq(S)]
  <2> DEFINE T == {n \in Nat : n + 1 \in 1 .. N => flatten[n + 1] \in Seq(S)}
  <2>1. 0 \in T
    BY <1>4, <1>7
  <2>2. ASSUME NEW n \in T PROVE n + 1 \in T
    <3>1. ASSUME n + 2 \in 1 .. N PROVE flatten[n + 2] \in Seq(S)
      <4>1. n \in Nat /\ flatten[n + 1] \in Seq(S) /\ seqs[n + 2] \in Seq(S)
        BY <1>1, <3>1
      <4>2. flatten[n + 2] = flatten[n + 1] \o seqs[n + 2]
        <5>1. n + 2 # 1 /\ (n + 2) - 1 = n + 1
          BY <4>1
        <5> QED
          BY <1>7, <3>1, <5>1, Zenon
      <4> QED
        BY <4>1, <4>2, ConcatProperties, ZenonT(30)
    <3> QED
      BY <3>1
  <2>3. T = Nat
    <3> HIDE DEF T
    <3>1. T \in SUBSET Nat
      BY Zenon DEF T
    <3> QED
      BY <2>1, <2>2, <3>1, InductionSet, Zenon
  <2>4. ASSUME NEW n \in 1 .. N PROVE flatten[n] \in Seq(S)
    <3>1. n - 1 \in Nat /\ (n - 1) + 1 = n
      OBVIOUS
    <3>2. n - 1 \in T
      <4> HIDE DEF T
      <4> QED
        BY <2>3, <3>1, Zenon
    <3> QED
      BY <3>1, <3>2, Zenon
  <2> QED
    BY <1>7, <2>4, Zenon
<1>10. \A i \in 1 .. N : flatten[i] = IF i = 1 THEN seqs[i] ELSE flatten[i - 1] \o seqs[i]
  BY <1>7, Zenon
<1> QED
  BY <1>1, <1>8, <1>9, <1>10, Zenon

\* It has the elements of all of them.
LEMMA FlattenMembers ==
  ASSUME NEW S, NEW seqs \in Seq(Seq(S))
  PROVE  /\ FlattenSeq(seqs) \in Seq(S)
         /\ \A x : x \in ToSet(FlattenSeq(seqs)) <=> \E i \in 1 .. Len(seqs) : x \in ToSet(seqs[i])
         /\ Len(seqs) = 1 => FlattenSeq(seqs) = seqs[1]
<1>1. CASE Len(seqs) = 0
  <2>1. FlattenSeq(seqs) = <<>> /\ <<>> \in Seq(S)
    BY <1>1, EmptySeq, Zenon DEF FlattenSeq
  <2>2. ToSet(<<>>) = {}
    BY EmptySeq, ToSetSeq, Zenon
  <2>3. 1 .. Len(seqs) = {}
    BY <1>1
  <2> QED
    BY <1>1, <2>1, <2>2, <2>3
<1>2. CASE Len(seqs) # 0
  <2>1. PICK N \in Nat : N = Len(seqs) /\ N # 0 /\ seqs \in [1 .. N -> Seq(S)]
    BY <1>2, LenProperties, Zenon
  <2>2. PICK f \in [1 .. N -> Seq(S)] :
          /\ \A i \in 1 .. N : f[i] = IF i = 1 THEN seqs[i] ELSE f[i - 1] \o seqs[i]
          /\ FlattenSeq(seqs) = f[N]
    BY <1>2, <2>1, FlattenSteps, Zenon
  <2> DEFINE Has(n) == \A x : x \in ToSet(f[n]) <=> \E i \in 1 .. n : x \in ToSet(seqs[i])
             T == {n \in Nat : n + 1 \in 1 .. N => Has(n + 1)}
  <2>3. 0 \in T
    <3>1. f[1] = seqs[1] /\ 1 .. 1 = {1} /\ 0 + 1 = 1
      BY <2>1, <2>2
    <3>2. Has(1)
      BY <3>1, Zenon
    <3> HIDE DEF Has
    <3> QED
      BY <3>1, <3>2, Zenon
  <2>4. ASSUME NEW n \in T PROVE n + 1 \in T
    <3>1. ASSUME n + 2 \in 1 .. N PROVE Has(n + 2)
      <4>1. n \in Nat /\ n + 1 \in 1 .. N /\ Has(n + 1) /\ n + 2 # 1 /\ (n + 2) - 1 = n + 1
        BY <3>1
      <4>2. f[n + 1] \in Seq(S) /\ seqs[n + 2] \in Seq(S) /\ f[n + 2] = f[n + 1] \o seqs[n + 2]
        BY <2>1, <2>2, <3>1, <4>1, Zenon
      <4>3. ToSet(f[n + 2]) = ToSet(f[n + 1]) \cup ToSet(seqs[n + 2])
        BY <4>2, ToSetConcat
      <4>4. 1 .. n + 2 = (1 .. n + 1) \cup {n + 2}
        BY <4>1
      <4> QED
        BY <4>1, <4>3, <4>4, Zenon
    <3>2. (n + 1) + 1 = n + 2 /\ n + 1 \in Nat
      OBVIOUS
    <3> HIDE DEF Has
    <3> QED
      BY <3>1, <3>2, Zenon
  <2>5. T = Nat
    <3> HIDE DEF T
    <3>1. T \in SUBSET Nat
      BY Zenon DEF T
    <3> QED
      BY <2>3, <2>4, <3>1, InductionSet, Zenon
  <2>6. Has(N)
    <3>1. N - 1 \in Nat /\ (N - 1) + 1 = N /\ N \in 1 .. N
      BY <2>1
    <3>2. N - 1 \in T
      <4> HIDE DEF T
      <4> QED
        BY <2>5, <3>1, Zenon
    <3> HIDE DEF Has
    <3> QED
      BY <3>1, <3>2, Zenon
  <2>7. 1 \in 1 .. N /\ N \in 1 .. N
    BY <2>1
  <2>8. f[1] = seqs[1] /\ f[N] \in Seq(S)
    BY <2>2, <2>7, Zenon
  <2>9. \A x : x \in ToSet(FlattenSeq(seqs)) <=> \E i \in 1 .. Len(seqs) : x \in ToSet(seqs[i])
    BY <2>1, <2>2, <2>6, Zenon
  <2>10. Len(seqs) = 1 => FlattenSeq(seqs) = seqs[1]
    BY <2>1, <2>2, <2>8, Zenon
  <2> QED
    BY <2>2, <2>8, <2>9, <2>10, Zenon
<1> QED
  BY <1>1, <1>2, Zenon

\* It is no longer than the number of the sequences, when these have at most one element.
LEMMA FlattenLength ==
  ASSUME NEW S, NEW seqs \in Seq(Seq(S)), \A i \in 1 .. Len(seqs) : Len(seqs[i]) <= 1
  PROVE  Len(FlattenSeq(seqs)) <= Len(seqs)
<1>1. CASE Len(seqs) = 0
  BY <1>1, EmptySeq DEF FlattenSeq
<1>2. CASE Len(seqs) # 0
  <2>1. PICK N \in Nat : N = Len(seqs) /\ N # 0 /\ seqs \in [1 .. N -> Seq(S)]
    BY <1>2, LenProperties, Zenon
  <2>2. PICK f \in [1 .. N -> Seq(S)] :
          /\ \A i \in 1 .. N : f[i] = IF i = 1 THEN seqs[i] ELSE f[i - 1] \o seqs[i]
          /\ FlattenSeq(seqs) = f[N]
    BY <1>2, <2>1, FlattenSteps, Zenon
  <2> DEFINE T == {n \in Nat : n + 1 \in 1 .. N => Len(f[n + 1]) <= n + 1}
  <2>3. 0 \in T
    <3>1. f[1] = seqs[1] /\ 0 + 1 = 1 /\ 1 \in 1 .. N
      BY <2>1, <2>2
    <3>2. Len(f[0 + 1]) <= 0 + 1
      BY <2>1, <3>1, Zenon
    <3> QED
      BY <3>2, Zenon
  <2>4. ASSUME NEW n \in T PROVE n + 1 \in T
    <3>1. ASSUME n + 2 \in 1 .. N PROVE Len(f[n + 2]) <= n + 2
      <4>1. n \in Nat /\ n + 1 \in 1 .. N /\ Len(f[n + 1]) <= n + 1 /\ n + 2 # 1 /\ (n + 2) - 1 = n + 1
        BY <3>1
      <4>2. /\ f[n + 1] \in Seq(S) /\ seqs[n + 2] \in Seq(S) /\ f[n + 2] = f[n + 1] \o seqs[n + 2]
            /\ Len(seqs[n + 2]) <= 1
        BY <2>1, <2>2, <3>1, <4>1, Zenon
      <4>3. Len(f[n + 2]) = Len(f[n + 1]) + Len(seqs[n + 2])
        BY <4>2, ConcatProperties
      <4>4. Len(f[n + 1]) \in Nat /\ Len(seqs[n + 2]) \in Nat
        BY <4>2, LenProperties, Zenon
      <4>5. \A k, a, b \in Nat : a <= k + 1 /\ b <= 1 => a + b <= k + 2
        OBVIOUS
      <4> QED
        BY ONLY <4>1, <4>2, <4>3, <4>4, <4>5, Zenon
    <3>2. (n + 1) + 1 = n + 2 /\ n + 1 \in Nat
      OBVIOUS
    <3> QED
      BY <3>1, <3>2, Zenon
  <2>5. T = Nat
    <3> HIDE DEF T
    <3>1. T \in SUBSET Nat
      BY Zenon DEF T
    <3> QED
      BY <2>3, <2>4, <3>1, InductionSet, Zenon
  <2>6. N - 1 \in Nat /\ (N - 1) + 1 = N /\ N \in 1 .. N
    BY <2>1
  <2>7. N - 1 \in T
    <3> HIDE DEF T
    <3> QED
      BY <2>5, <2>6, Zenon
  <2> QED
    BY <2>1, <2>2, <2>6, <2>7, Zenon
<1> QED
  BY <1>1, <1>2, Zenon

\* The places of the elements when the k-th sequence has two and the others have one;
\* with k too large all have one.
LEMMA FlattenPlaces ==
  ASSUME NEW S, NEW seqs \in Seq(Seq(S)), NEW k \in Nat \ {0},
         \A i \in 1 .. Len(seqs) : Len(seqs[i]) = IF i = k THEN 2 ELSE 1
  PROVE  /\ Len(FlattenSeq(seqs)) = IF k <= Len(seqs) THEN Len(seqs) + 1 ELSE Len(seqs)
         /\ \A i \in 1 .. Len(seqs) : FlattenSeq(seqs)[IF k < i THEN i + 1 ELSE i] = seqs[i][1]
         /\ k <= Len(seqs) => FlattenSeq(seqs)[k + 1] = seqs[k][2]
<1>1. CASE Len(seqs) = 0
  <2>1. FlattenSeq(seqs) = seqs
    BY <1>1 DEF FlattenSeq
  <2> QED
    BY <1>1, <2>1
<1>2. CASE Len(seqs) # 0
  <2>1. PICK N \in Nat : N = Len(seqs) /\ N # 0 /\ seqs \in [1 .. N -> Seq(S)]
    BY <1>2, LenProperties, Zenon
  <2>2. PICK f \in [1 .. N -> Seq(S)] :
          /\ \A i \in 1 .. N : f[i] = IF i = 1 THEN seqs[i] ELSE f[i - 1] \o seqs[i]
          /\ FlattenSeq(seqs) = f[N]
    BY <1>2, <2>1, FlattenSteps, Zenon
  <2> DEFINE P(n, v) == /\ Len(v) = IF k <= n THEN n + 1 ELSE n
                        /\ \A i \in 1 .. n : v[IF k < i THEN i + 1 ELSE i] = seqs[i][1]
                        /\ k <= n => v[k + 1] = seqs[k][2]
             T == {n \in Nat : n + 1 \in 1 .. N => P(n + 1, f[n + 1])}
  <2>3. 0 \in T
    <3>1. f[1] = seqs[1] /\ 1 \in 1 .. N /\ Len(seqs[1]) = IF 1 = k THEN 2 ELSE 1
      <4>1. 1 \in 1 .. N
        BY ONLY <2>1
      <4> QED
        BY ONLY <2>1, <2>2, <4>1, \A i \in 1 .. Len(seqs) : Len(seqs[i]) = IF i = k THEN 2 ELSE 1, Zenon
    <3>2. (k <= 1 <=> k = 1) /\ ~(k < 1)
      BY ONLY k \in Nat \ {0}
    <3>3. P(1, f[1])
      BY <3>1, <3>2
    <3>4. P(0 + 1, f[0 + 1])
      BY <3>3
    <3> HIDE DEF P
    <3> QED
      BY <3>4, Zenon
  <2>4. ASSUME NEW n \in T PROVE n + 1 \in T
    <3>1. ASSUME n + 2 \in 1 .. N PROVE P(n + 2, f[n + 2])
      <4>1. n \in Nat /\ n + 1 \in 1 .. N /\ n + 2 # 1 /\ (n + 2) - 1 = n + 1 /\ k \in Nat
        BY <3>1
      <4> PICK u, q, v : u = f[n + 1] /\ q = seqs[n + 2] /\ v = f[n + 2]
        BY Zenon
      <4>2. u \in Seq(S) /\ q \in Seq(S) /\ v = u \o q /\ Len(q) = IF n + 2 = k THEN 2 ELSE 1
        BY <2>1, <2>2, <3>1, <4>1, Zenon
      <4>3. P(n + 1, u)
        BY <4>1, Zenon
      <4> PICK lu, lq : lu = Len(u) /\ lq = Len(q)
        BY Zenon
      <4>4. /\ lu = (IF k <= n + 1 THEN n + 2 ELSE n + 1) /\ lq = (IF n + 2 = k THEN 2 ELSE 1)
            /\ n \in Nat /\ k \in Nat
        BY <4>1, <4>2, <4>3
      <4>5. Len(v) = lu + lq /\ \A j \in 1 .. lu + lq : v[j] = IF j <= lu THEN u[j] ELSE q[j - lu]
        <5>1. /\ Len(v) = Len(u) + Len(q)
              /\ \A j \in 1 .. Len(u) + Len(q) : v[j] = IF j <= Len(u) THEN u[j] ELSE q[j - Len(u)]
          BY ONLY <4>2, ConcatProperties, ZenonT(30)
        <5> QED
          BY ONLY <5>1, lu = Len(u), lq = Len(q), Zenon
      <4>6. Len(v) = IF k <= n + 2 THEN n + 3 ELSE n + 2
        BY ONLY <4>4, <4>5
      <4>7. ASSUME NEW i \in 1 .. n + 1 PROVE v[IF k < i THEN i + 1 ELSE i] = seqs[i][1]
        <5> PICK j : j = IF k < i THEN i + 1 ELSE i
          BY Zenon
        <5>1. j \in 1 .. lu + lq /\ j <= lu
          BY ONLY <4>4, <4>7, j = IF k < i THEN i + 1 ELSE i
        <5>2. v[j] = u[j]
          BY ONLY <4>5, <5>1, Zenon
        <5>3. u[j] = seqs[i][1]
          BY <4>3, Zenon
        <5> QED
          BY <5>2, <5>3, Zenon
      <4>8. v[IF k < n + 2 THEN n + 3 ELSE n + 2] = q[1]
        <5> PICK j : j = IF k < n + 2 THEN n + 3 ELSE n + 2
          BY Zenon
        <5>1. j \in 1 .. lu + lq /\ ~(j <= lu) /\ j - lu = 1
          BY ONLY <4>4, j = IF k < n + 2 THEN n + 3 ELSE n + 2
        <5> QED
          BY <4>5, <5>1, ZenonT(30)
      <4>9. ASSUME k <= n + 2 PROVE v[k + 1] = seqs[k][2]
        <5>1. CASE k <= n + 1
          <6>1. k + 1 \in 1 .. lu + lq /\ k + 1 <= lu
            BY ONLY <4>4, <5>1
          <6>2. v[k + 1] = u[k + 1]
            BY ONLY <4>5, <6>1, Zenon
          <6> QED
            BY <4>3, <5>1, <6>2, Zenon
        <5>2. CASE k = n + 2
          <6>1. k + 1 \in 1 .. lu + lq /\ ~(k + 1 <= lu) /\ (k + 1) - lu = 2
            BY ONLY <4>4, <5>2
          <6> QED
            BY <4>5, <5>2, <6>1, ZenonT(30)
        <5> QED
          BY ONLY <4>4, <4>9, <5>1, <5>2
      <4>10. \A i \in 1 .. n + 2 : i \in 1 .. n + 1 \/ i = n + 2
        BY <4>1
      <4>11. (n + 2) + 1 = n + 3
        BY <4>1
      <4>12. \A i \in 1 .. n + 2 : v[IF k < i THEN i + 1 ELSE i] = seqs[i][1]
        BY <4>7, <4>8, <4>10, <4>11, Zenon
      <4> QED
        BY <4>6, <4>9, <4>11, <4>12, Zenon
    <3>2. (n + 1) + 1 = n + 2 /\ n + 1 \in Nat
      OBVIOUS
    <3> HIDE DEF P
    <3> QED
      BY <3>1, <3>2, Zenon
  <2>5. T = Nat
    <3> HIDE DEF T
    <3>1. T \in SUBSET Nat
      BY Zenon DEF T
    <3> QED
      BY <2>3, <2>4, <3>1, InductionSet, Zenon
  <2>6. N - 1 \in Nat /\ (N - 1) + 1 = N /\ N \in 1 .. N
    BY <2>1
  <2>7. N - 1 \in T
    <3> HIDE DEF T
    <3> QED
      BY <2>5, <2>6, Zenon
  <2>8. P(N, f[N])
    <3> HIDE DEF P
    <3> QED
      BY <2>6, <2>7, Zenon
  <2> QED
    BY <2>1, <2>2, <2>8, Zenon
<1> QED
  BY <1>1, <1>2, Zenon

\* The first elements.
LEMMA FirstSeq ==
  ASSUME NEW S, NEW s \in Seq(S), NEW n \in 0 .. Len(s)
  PROVE  /\ SubSeq(s, 1, n) \in Seq(S)
         /\ Len(SubSeq(s, 1, n)) = n
         /\ \A i \in 1 .. n : SubSeq(s, 1, n)[i] = s[i]
         /\ n = Len(s) => SubSeq(s, 1, n) = s
<1> PICK t : t = SubSeq(s, 1, n)
  BY Zenon
<1>1. t \in Seq(S) /\ Len(t) = n /\ \A i \in 1 .. n : t[i] = s[i]
  OBVIOUS
<1>2. n = Len(s) => t = s
  BY <1>1
<1> QED
  BY <1>1, <1>2, Zenon

\* An element is removed.
LEMMA RemovedSeq ==
  ASSUME NEW S, NEW s \in Seq(S), NEW i \in 1 .. Len(s)
  PROVE  /\ RemoveAt(s, i) \in Seq(S)
         /\ Len(RemoveAt(s, i)) = Len(s) - 1
         /\ \A j \in 1 .. Len(s) - 1 : RemoveAt(s, i)[j] = IF j < i THEN s[j] ELSE s[j + 1]
<1> PICK n \in Nat : n = Len(s)
  BY LenProperties, Zenon
<1> PICK a, b : a = SubSeq(s, 1, i - 1) /\ b = SubSeq(s, i + 1, n)
  BY Zenon
<1>1. a \in Seq(S) /\ Len(a) = i - 1 /\ \A j \in 1 .. i - 1 : a[j] = s[j]
  <2>1. i - 1 \in 1 - 1 .. Len(s) /\ 1 \in 1 .. Len(s) + 1
    OBVIOUS
  <2>2. a \in Seq(S)
    OBVIOUS
  <2>3. Len(a) = IF 1 <= i - 1 THEN (i - 1) - 1 + 1 ELSE 0
    OBVIOUS
  <2>4. Len(a) = i - 1
    BY ONLY <2>3, i \in 1 .. n, n \in Nat
  <2>5. \A j \in 1 .. i - 1 : a[j] = s[j]
    OBVIOUS
  <2> QED
    BY <2>2, <2>4, <2>5, Zenon
<1>2. b \in Seq(S) /\ Len(b) = n - i /\ \A j \in 1 .. n - i : b[j] = s[i + j]
  <2>1. b \in Seq(S)
    OBVIOUS
  <2>2. Len(b) = n - i
    OBVIOUS
  <2>3. \A j \in 1 .. n - i : b[j] = s[(i + 1) + j - 1]
    OBVIOUS
  <2>4. \A j \in 1 .. n - i : (i + 1) + j - 1 = i + j
    OBVIOUS
  <2> QED
    BY <2>1, <2>2, <2>3, <2>4, Zenon
<1> PICK t : t = a \o b
  BY Zenon
<1>3. t = RemoveAt(s, i)
  BY Zenon DEF RemoveAt
<1>4. /\ t \in Seq(S) /\ Len(t) = Len(a) + Len(b)
      /\ \A j \in 1 .. Len(a) + Len(b) : t[j] = IF j <= Len(a) THEN a[j] ELSE b[j - Len(a)]
  BY ONLY <1>1, <1>2, t = a \o b, ConcatProperties, Zenon
<1>5. i \in 1 .. n /\ n \in Nat /\ Len(a) = i - 1 /\ Len(a) + Len(b) = n - 1
  <2>1. \A k, m \in Nat : k \in 1 .. m => (k - 1) + (m - k) = m - 1
    OBVIOUS
  <2>2. i \in 1 .. n /\ n \in Nat /\ i \in Nat
    OBVIOUS
  <2> QED
    BY ONLY <1>1, <1>2, <2>1, <2>2, Zenon
<1>6. ASSUME NEW j \in 1 .. n - 1 PROVE t[j] = IF j < i THEN s[j] ELSE s[j + 1]
  <2>1. t[j] = IF j <= i - 1 THEN a[j] ELSE b[j - (i - 1)]
    BY ONLY <1>4, <1>5, <1>6, Zenon
  <2>2. CASE j < i
    <3>1. j \in 1 .. i - 1 /\ j <= i - 1
      BY ONLY <1>5, <1>6, <2>2
    <3> QED
      BY ONLY <1>1, <2>1, <2>2, <3>1, Zenon
  <2>3. CASE ~(j < i)
    <3>1. j - (i - 1) \in 1 .. n - i /\ ~(j <= i - 1) /\ i + (j - (i - 1)) = j + 1
      BY ONLY <1>5, <1>6, <2>3
    <3> QED
      BY ONLY <1>2, <2>1, <2>3, <3>1, Zenon
  <2> QED
    BY ONLY <2>2, <2>3, Zenon
<1>7. Len(t) = n - 1
  BY ONLY <1>4, <1>5, Zenon
<1> QED
  BY <1>3, <1>4, <1>6, <1>7, Zenon

-----------------------------------------------------------------------------
(* The queries on the registrations.                                       *)

\* What an answer has of a context registration.
Crr == [entities : SUBSET Entity, attrs : SUBSET STRING, prApp : STRING]

\* The answer has x for the context registration cr.
Yields(cr, enV, attrL, x) ==
  x = crrOf(cr, enV, attrL) /\ x.entities # {} /\ (x.attrs # {} \/ attrL = {})

\* What processContextRegistrationElement contributes for one context registration.
LEMMA ElementMembers ==
  ASSUME NEW cr \in ContextRegistration, NEW enV, NEW attrL
  PROVE  /\ processContextRegistrationElement(cr, enV, attrL) \in Seq(Crr)
         /\ \A x : x \in ToSet(processContextRegistrationElement(cr, enV, attrL)) <=> Yields(cr, enV, attrL, x)
<1> PICK crr : crr = crrOf(cr, enV, attrL)
  BY Zenon
<1>1. crr \in Crr
  BY Zenon DEF crrOf, Crr, ContextRegistration
<1>2. ToSet(<<crr>>) = {crr} /\ <<crr>> \in Seq(Crr)
  BY <1>1 DEF ToSet
<1>3. ToSet(<<>>) = {} /\ <<>> \in Seq(Crr)
  BY EmptySeq DEF ToSet
<1>4. CASE crr.entities # {} /\ (crr.attrs # {} \/ attrL = {})
  <2>1. processContextRegistrationElement(cr, enV, attrL) = <<crr>>
    BY <1>4, Zenon DEF processContextRegistrationElement
  <2> QED
    BY <1>2, <1>4, <2>1, Zenon DEF Yields
<1>5. CASE ~(crr.entities # {} /\ (crr.attrs # {} \/ attrL = {}))
  <2>1. processContextRegistrationElement(cr, enV, attrL) = <<>>
    BY <1>5, Zenon DEF processContextRegistrationElement
  <2> QED
    BY <1>3, <1>5, <2>1, Zenon DEF Yields
<1> QED
  BY <1>4, <1>5, Zenon

\* What a document contributes to an answer.
LEMMA DocMembers ==
  ASSUME NEW doc \in RegDoc, NEW enV, NEW attrL
  PROVE  /\ DocCrrs(doc, enV, attrL) \in Seq(Crr)
         /\ \A x : x \in ToSet(DocCrrs(doc, enV, attrL)) <=> \E cr \in ToSet(doc.crs) : Yields(cr, enV, attrL, x)
<1> DEFINE E(i) == processContextRegistrationElement(doc.crs[i], enV, attrL)
<1>1. doc.crs \in Seq(ContextRegistration)
  BY Zenon DEF RegDoc
<1>2. PICK n \in Nat : n = Len(doc.crs) /\ DOMAIN doc.crs = 1 .. n /\ doc.crs \in [1 .. n -> ContextRegistration]
  BY <1>1, LenProperties, Zenon
<1>3. \A i \in 1 .. n : E(i) \in Seq(Crr) /\ \A x : x \in ToSet(E(i)) <=> Yields(doc.crs[i], enV, attrL, x)
  BY <1>2, ElementMembers, Zenon
<1> PICK seqs : seqs = [i \in 1 .. n |-> E(i)]
  BY Zenon
<1>4. seqs \in Seq(Seq(Crr)) /\ Len(seqs) = n
  BY <1>3
<1>5. DocCrrs(doc, enV, attrL) = FlattenSeq(seqs)
  BY <1>2, Zenon DEF DocCrrs
<1>6. /\ FlattenSeq(seqs) \in Seq(Crr)
      /\ \A x : x \in ToSet(FlattenSeq(seqs)) <=> \E i \in 1 .. n : x \in ToSet(seqs[i])
  BY <1>4, FlattenMembers, Zenon
<1>7. \A cr : cr \in ToSet(doc.crs) <=> \E i \in 1 .. n : cr = doc.crs[i]
  BY <1>1, <1>2, ToSetSeq, Zenon
<1>8. \A i \in 1 .. n : seqs[i] = E(i)
  BY Zenon
<1> HIDE DEF E
<1>9. ASSUME NEW x
      PROVE  x \in ToSet(FlattenSeq(seqs)) <=> \E i \in 1 .. n : Yields(doc.crs[i], enV, attrL, x)
  <2>1. \A i \in 1 .. n : x \in ToSet(seqs[i]) <=> Yields(doc.crs[i], enV, attrL, x)
    BY <1>3, <1>8, Zenon
  <2> QED
    BY <1>6, <2>1, Zenon
<1>10. ASSUME NEW x
       PROVE  (\E i \in 1 .. n : Yields(doc.crs[i], enV, attrL, x)) <=> \E cr \in ToSet(doc.crs) : Yields(cr, enV, attrL, x)
  BY <1>7, Zenon
<1> QED
  BY <1>5, <1>6, <1>9, <1>10, Zenon

\* The documents that the query finds are the matching ones, each at most once.
LEMMA MatchingMembers ==
  ASSUME NEW docs \in Seq(RegDoc), NEW enV, NEW attrL, NEW paths, NEW time,
         NEW found, found = MatchingDocs(docs, enV, attrL, paths, time)
  PROVE  /\ found \in Seq(RegDoc)
         /\ \A d : d \in ToSet(found) <=>
                    \E i \in DOMAIN docs : d = docs[i] /\ RegistrationMatches(docs[i], enV, attrL, paths, time)
         /\ Len(found) <= Len(docs)
<1> DEFINE M(i) == RegistrationMatches(docs[i], enV, attrL, paths, time)
           E(i) == IF M(i) THEN <<docs[i]>> ELSE <<>>
<1>1. PICK n \in Nat : n = Len(docs) /\ DOMAIN docs = 1 .. n /\ docs \in [1 .. n -> RegDoc]
  BY LenProperties, Zenon
<1> HIDE DEF M
<1>2. ASSUME NEW i \in 1 .. n
      PROVE  E(i) \in Seq(RegDoc) /\ Len(E(i)) <= 1 /\ \A d : d \in ToSet(E(i)) <=> d = docs[i] /\ M(i)
  <2> PICK d0 : d0 = docs[i] /\ d0 \in RegDoc
    BY <1>1, Zenon
  <2>1. <<d0>> \in Seq(RegDoc) /\ Len(<<d0>>) = 1 /\ ToSet(<<d0>>) = {d0}
    BY DEF ToSet
  <2>2. <<>> \in Seq(RegDoc) /\ Len(<<>>) = 0 /\ ToSet(<<>>) = {}
    BY EmptySeq DEF ToSet
  <2>3. CASE M(i)
    BY <2>1, <2>3
  <2>4. CASE ~M(i)
    BY <2>2, <2>4
  <2> QED
    BY <2>3, <2>4, Zenon
<1> PICK seqs : seqs = [i \in 1 .. n |-> E(i)]
  BY Zenon
<1>3. \A i \in 1 .. n : seqs[i] = E(i)
  BY Zenon
<1>4. found = FlattenSeq(seqs)
  BY <1>1, Zenon DEF MatchingDocs, M
<1> HIDE DEF E
<1>5. seqs \in Seq(Seq(RegDoc)) /\ Len(seqs) = n
  BY <1>2
<1>6. \A i \in 1 .. Len(seqs) : Len(seqs[i]) <= 1
  BY <1>2, <1>3, <1>5, Zenon
<1>7. /\ FlattenSeq(seqs) \in Seq(RegDoc)
      /\ \A d : d \in ToSet(FlattenSeq(seqs)) <=> \E i \in 1 .. n : d \in ToSet(seqs[i])
      /\ Len(FlattenSeq(seqs)) <= n
  BY <1>5, <1>6, FlattenMembers, FlattenLength, Zenon
<1>8. ASSUME NEW d
      PROVE  d \in ToSet(found) <=> \E i \in 1 .. n : d = docs[i] /\ M(i)
  <2>1. \A i \in 1 .. n : d \in ToSet(seqs[i]) <=> d = docs[i] /\ M(i)
    BY <1>2, <1>3, Zenon
  <2> QED
    BY <1>4, <1>7, <2>1, Zenon
<1> QED
  BY <1>1, <1>4, <1>7, <1>8, Zenon DEF M

\* The first n documents found.
LEMMA PageMembers ==
  ASSUME NEW found \in Seq(RegDoc), NEW n \in 0 .. Len(found),
         NEW page, page = SubSeq(found, 1, n)
  PROVE  /\ page \in Seq(RegDoc) /\ Len(page) = n
         /\ ToSet(page) \subseteq ToSet(found)
         /\ n = Len(found) => page = found
         /\ n = 1 => page[1] = found[1]
<1>1. Len(found) \in Nat /\ \A i \in 1 .. Len(found) : found[i] \in RegDoc
  BY LenProperties, ElementOfSeq, Zenon
<1>3. page \in Seq(RegDoc) /\ n \in Nat
  BY <1>1, FirstSeq
<1>4. Len(page) = n /\ \A i \in 1 .. n : page[i] = found[i]
  BY FirstSeq, Zenon
<1>5. ASSUME NEW x \in ToSet(page) PROVE x \in ToSet(found)
  <2>1. PICK i \in 1 .. n : x = page[i]
    BY ONLY <1>3, <1>4, ToSetSeq, Zenon
  <2>2. i \in 1 .. Len(found) /\ x = found[i]
    BY <1>1, <1>4, <2>1
  <2> QED
    BY <2>2, ToSetSeq, Zenon
<1>6. n = Len(found) => page = found
  BY FirstSeq, Zenon
<1> QED
  BY <1>3, <1>4, <1>5, <1>6

\* registrationsQuery without offset: what is in its answer is what the context
\* registrations of matching documents yield, and all of it when there is room; with
\* limit 1 it is the answer of the first matching document.
LEMMA QueryMembers ==
  ASSUME NEW docs \in Seq(RegDoc), NEW enV, NEW attrL, NEW paths, NEW time, NEW limit \in Nat,
         NEW found, found = MatchingDocs(docs, enV, attrL, paths, time),
         NEW answer, answer = registrationsQuery(docs, enV, attrL, paths, time, 0, limit)
  PROVE  /\ answer \in Seq(Crr)
         /\ \A x \in ToSet(answer) :
              \E i \in DOMAIN docs : /\ RegistrationMatches(docs[i], enV, attrL, paths, time)
                                     /\ \E cr \in ToSet(docs[i].crs) : Yields(cr, enV, attrL, x)
         /\ Len(found) <= limit =>
              \A i \in DOMAIN docs : RegistrationMatches(docs[i], enV, attrL, paths, time) =>
                \A cr \in ToSet(docs[i].crs) : \A x : Yields(cr, enV, attrL, x) => x \in ToSet(answer)
         /\ limit = 1 /\ Len(found) # 0 => answer = DocCrrs(found[1], enV, attrL)
<1>1. /\ found \in Seq(RegDoc) /\ Len(found) \in Nat
      /\ \A d : d \in ToSet(found) <=>
                 \E i \in DOMAIN docs : d = docs[i] /\ RegistrationMatches(docs[i], enV, attrL, paths, time)
  <2>1. found \in Seq(RegDoc)
    BY MatchingMembers, Zenon
  <2> QED
    BY <2>1, MatchingMembers, LenProperties
<1> DEFINE n == IF limit < Len(found) THEN limit ELSE Len(found)
<1>2. /\ n \in 0 .. Len(found) /\ (Len(found) <= limit => n = Len(found))
      /\ (limit = 1 /\ Len(found) # 0 => n = 1)
  <2>1. \A k, m \in Nat : LET l == IF k < m THEN k ELSE m IN l \in 0 .. m /\ (m <= k => l = m) /\ (k = 1 /\ m # 0 => l = 1)
    OBVIOUS
  <2> QED
    BY ONLY <1>1, <2>1, limit \in Nat, Zenon
<1>3. n = IF 0 + limit < Len(found) THEN 0 + limit ELSE Len(found)
  BY <1>1
<1> HIDE DEF n
<1> PICK page : page = SubSeq(found, 1, n)
  BY Zenon
<1>4. /\ page \in Seq(RegDoc) /\ Len(page) = n
      /\ ToSet(page) \subseteq ToSet(found)
      /\ n = Len(found) => page = found
      /\ n = 1 => page[1] = found[1]
  <2>1. page = SubSeq(found, 1, n) /\ found \in Seq(RegDoc) /\ n \in 0 .. Len(found)
    BY <1>1, <1>2, Zenon
  <2> QED
    BY ONLY <2>1, PageMembers, ZenonT(30)
<1> PICK seqs : seqs = [i \in DOMAIN page |-> DocCrrs(page[i], enV, attrL)]
  BY Zenon
<1>5. answer = FlattenSeq(seqs)
  BY <1>3 DEF registrationsQuery
<1>6. DOMAIN page = 1 .. n /\ n \in Nat /\ \A i \in 1 .. n : page[i] \in RegDoc
  BY <1>2, <1>4, LenProperties, ElementOfSeq, Zenon
<1>7. \A i \in 1 .. n : /\ seqs[i] = DocCrrs(page[i], enV, attrL) /\ seqs[i] \in Seq(Crr)
                         /\ \A x : x \in ToSet(seqs[i]) <=> \E cr \in ToSet(page[i].crs) : Yields(cr, enV, attrL, x)
  BY <1>6, DocMembers, Zenon
<1>8. seqs \in Seq(Seq(Crr)) /\ Len(seqs) = n
  BY <1>6, <1>7
<1>9. /\ answer \in Seq(Crr)
      /\ \A x : x \in ToSet(answer) <=> \E i \in 1 .. n : x \in ToSet(seqs[i])
      /\ n = 1 => answer = seqs[1]
  BY ONLY <1>5, <1>8, FlattenMembers, Zenon
<1>10. \A d : d \in ToSet(page) <=> \E i \in 1 .. n : d = page[i]
  BY ONLY <1>4, ToSetSeq, Zenon
<1>11. ASSUME NEW x
       PROVE  x \in ToSet(answer) <=> \E d \in ToSet(page) : \E cr \in ToSet(d.crs) : Yields(cr, enV, attrL, x)
  <2>1. \A i \in 1 .. n : x \in ToSet(seqs[i]) <=> \E cr \in ToSet(page[i].crs) : Yields(cr, enV, attrL, x)
    BY ONLY <1>7, Zenon
  <2> QED
    BY ONLY <1>9, <1>10, <2>1
<1>12. ASSUME NEW x \in ToSet(answer)
       PROVE  \E i \in DOMAIN docs : /\ RegistrationMatches(docs[i], enV, attrL, paths, time)
                                     /\ \E cr \in ToSet(docs[i].crs) : Yields(cr, enV, attrL, x)
  <2>1. PICK d \in ToSet(page) : \E cr \in ToSet(d.crs) : Yields(cr, enV, attrL, x)
    BY <1>11, Zenon
  <2>2. d \in ToSet(found)
    BY <1>4, <2>1, Zenon
  <2> QED
    BY ONLY <1>1, <2>1, <2>2, Zenon
<1>13. ASSUME Len(found) <= limit, NEW i \in DOMAIN docs, RegistrationMatches(docs[i], enV, attrL, paths, time),
              NEW cr \in ToSet(docs[i].crs), NEW x, Yields(cr, enV, attrL, x)
       PROVE  x \in ToSet(answer)
  <2>1. page = found /\ docs[i] \in ToSet(found)
    BY ONLY <1>1, <1>2, <1>4, <1>13, Zenon
  <2> QED
    BY ONLY <1>11, <1>13, <2>1, Zenon
<1>14. ASSUME limit = 1, Len(found) # 0 PROVE answer = DocCrrs(found[1], enV, attrL)
  <2>1. n = 1 /\ 1 \in 1 .. n
    BY ONLY <1>2, <1>14
  <2> QED
    BY ONLY <1>4, <1>7, <1>9, <2>1, Zenon
<1> QED
  BY <1>9, <1>12, <1>13, <1>14, Zenon

-----------------------------------------------------------------------------
(* The loop of postUpdateContext that removes the garbage.                 *)

\* The responses of an update.
Resp == [elem : Nat, code : Nat, prApp : STRING \cup {""}]

\* The states of the loop, for responses of S.
Removing(S) == [v : Seq(S), ix : Nat \ {0}]

\* A pass keeps the responses among S, and the index runs.
LEMMA PassKeeps ==
  ASSUME NEW S, NEW s \in Removing(S)
  PROVE  RemovePass(s) \in Removing(S)
<1>1. PICK v \in Seq(S) : v = s.v
  BY Zenon DEF Removing
<1>2. PICK ix \in Nat \ {0} : ix = s.ix
  BY Zenon DEF Removing
<1>3. Len(v) \in Nat
  OBVIOUS
<1>4. CASE ix >= Len(v)
  BY <1>1, <1>2, <1>4, Zenon DEF RemovePass
<1>5. CASE ~(ix >= Len(v))
  <2>1. ix \in 1 .. Len(v) /\ ix + 1 \in 1 .. Len(v) /\ ix + 1 \in Nat \ {0} /\ ix + 2 \in Nat \ {0}
    BY <1>3, <1>5
  <2>2. RemoveAt(v, ix) \in Seq(S) /\ RemoveAt(v, ix + 1) \in Seq(S)
    BY <2>1, RemovedSeq, Zenon
  <2>3. [s EXCEPT !.ix = ix + 1] \in Removing(S)
    BY <2>1, Zenon DEF Removing
  <2>4. /\ [v |-> RemoveAt(v, ix), ix |-> ix + 1] \in Removing(S)
        /\ [v |-> RemoveAt(v, ix + 1), ix |-> ix + 2] \in Removing(S)
    BY <2>1, <2>2, Zenon DEF Removing
  <2> QED
    BY <1>1, <1>2, <1>5, <2>3, <2>4, Zenon DEF RemovePass
<1> QED
  BY <1>4, <1>5, Zenon

\* The states the loop goes through.
LEMMA GarbageSteps ==
  ASSUME NEW S, NEW v \in Seq(S)
  PROVE  \E f \in [0 .. Len(v) -> Removing(S)] :
           /\ f[0] = [v |-> v, ix |-> 1]
           /\ \A i \in 1 .. Len(v) : f[i] = RemovePass(f[i - 1])
           /\ removeGarbage(v) = f[Len(v)].v
<1>1. PICK N \in Nat : N = Len(v)
  OBVIOUS
<1>2. PICK R : R = Removing(S)
  BY Zenon
<1>3. PICK x \in R : x = [v |-> v, ix |-> 1]
  <2>1. 1 \in Nat \ {0}
    OBVIOUS
  <2> QED
    BY <1>2, <2>1, Zenon DEF Removing
<1>4. \A t \in R : RemovePass(t) \in R
  BY <1>2, PassKeeps, Zenon
<1> DEFINE h == [p \in Nat \X R |-> RemovePass(p[2])]
<1>5. h \in StepFunction(R)
  BY <1>4, Zenon DEF StepFunction
<1>6. ASSUME NEW i \in Nat, NEW t \in R PROVE h[<<i, t>>] = RemovePass(t)
  <2>1. <<i, t>> \in Nat \X R
    BY Zenon
  <2> QED
    BY <2>1, Zenon
<1> HIDE DEF h
<1>7. PICK f0 : IteratesFrom0(f0, N, R, x, h)
  BY <1>5, RecursionFrom0, Zenon
<1> DEFINE Eq(f) == f = [n \in 0 .. N |-> IF n = 0 THEN [v |-> v, ix |-> 1] ELSE RemovePass(f[n - 1])]
           loop == CHOOSE f : Eq(f)
<1>8. Eq(f0)
  <2>1. /\ f0 \in [0 .. N -> R]
        /\ f0[0] = x
        /\ \A i \in 1 .. N : f0[i] = h[<<i, f0[i - 1]>>]
    BY <1>7, Zenon DEF IteratesFrom0
  <2>2. ASSUME NEW i \in 0 .. N
        PROVE  f0[i] = IF i = 0 THEN [v |-> v, ix |-> 1] ELSE RemovePass(f0[i - 1])
    <3>1. CASE i = 0
      BY <1>3, <2>1, <3>1, Zenon
    <3>2. CASE i # 0
      <4>1. i - 1 \in 0 .. N /\ i \in 1 .. N /\ i \in Nat
        BY <3>2
      <4>2. f0[i - 1] \in R /\ f0[i] = h[<<i, f0[i - 1]>>]
        BY <2>1, <4>1, Zenon
      <4> QED
        BY <1>6, <3>2, <4>1, <4>2, Zenon
    <3> QED
      BY <3>1, <3>2, Zenon
  <2> QED
    BY <2>1, <2>2, Zenon
<1>9. Eq(loop)
  <2> HIDE DEF Eq
  <2> QED
    BY <1>8, Zenon
<1>10. removeGarbage(v) = loop[N].v
  BY <1>1, Zenon DEF removeGarbage
<1> HIDE DEF loop
<1>11. loop[0] = x /\ \A i \in 1 .. N : loop[i] = RemovePass(loop[i - 1])
  <2>1. 0 \in 0 .. N /\ \A i \in 1 .. N : i \in 0 .. N /\ i # 0
    OBVIOUS
  <2> QED
    BY <1>3, <1>9, <2>1, Zenon
<1>12. loop \in [0 .. N -> R]
  <2> DEFINE Typed == {n \in Nat : n \in 0 .. N => loop[n] \in R}
  <2>1. 0 \in Typed
    BY <1>11, Zenon
  <2>2. ASSUME NEW n \in Typed PROVE n + 1 \in Typed
    <3>1. ASSUME n + 1 \in 0 .. N PROVE loop[n + 1] \in R
      <4>1. n \in 0 .. N /\ n + 1 \in 1 .. N /\ (n + 1) - 1 = n /\ loop[n] \in R
        BY <3>1
      <4>2. loop[n + 1] = RemovePass(loop[n])
        BY <1>11, <4>1, Zenon
      <4> QED
        BY <1>4, <4>1, <4>2, Zenon
    <3> QED
      BY <3>1
  <2>3. Typed = Nat
    <3> HIDE DEF Typed
    <3>1. Typed \in SUBSET Nat
      BY Zenon DEF Typed
    <3> QED
      BY <2>1, <2>2, <3>1, InductionSet, Zenon
  <2>4. \A n \in 0 .. N : loop[n] \in R
    BY <2>3
  <2> QED
    BY <1>9, <2>4, Zenon
<1> QED
  <2> HIDE DEF Eq
  <2> QED
    BY <1>1, <1>2, <1>3, <1>10, <1>11, <1>12, Zenon

\* What the loop leaves are responses of the update.
LEMMA GarbageRemoved ==
  ASSUME NEW S, NEW v \in Seq(S)
  PROVE  removeGarbage(v) \in Seq(S)
<1>1. PICK f \in [0 .. Len(v) -> Removing(S)] : removeGarbage(v) = f[Len(v)].v
  BY GarbageSteps, Zenon
<1>2. Len(v) \in 0 .. Len(v)
  OBVIOUS
<1>3. f[Len(v)] \in Removing(S)
  BY <1>2, Zenon
<1> QED
  BY <1>1, <1>3, Zenon DEF Removing

-----------------------------------------------------------------------------
(* An update with at most one element answered 472.                        *)

\* The only 472 is at k, and a response of a search for a provider follows it.
OneMissing(v, k) ==
  /\ \A j \in 1 .. Len(v) : v[j].code = 472 <=> j = k
  /\ v[k + 1].code = 302 \/ v[k + 1].code = 404

\* The loop removes one of the two and nothing else.
LEMMA OneRemoved ==
  ASSUME NEW v \in Seq(Resp), NEW k \in 1 .. Len(v) - 1, OneMissing(v, k)
  PROVE  removeGarbage(v) = RemoveAt(v, k) \/ removeGarbage(v) = RemoveAt(v, k + 1)
<1>1. PICK N \in Nat : N = Len(v)
  OBVIOUS
<1>2. k \in 1 .. N /\ k + 1 \in 1 .. N /\ k \in Nat /\ k < N
  BY <1>1
<1>3. PICK f \in [0 .. N -> Removing(Resp)] :
        /\ f[0] = [v |-> v, ix |-> 1]
        /\ \A i \in 1 .. N : f[i] = RemovePass(f[i - 1])
        /\ removeGarbage(v) = f[N].v
  BY <1>1, GarbageSteps, Zenon
<1>4. PICK a, b : a = RemoveAt(v, k) /\ b = RemoveAt(v, k + 1)
  BY Zenon
<1>5. /\ a \in Seq(Resp) /\ Len(a) = N - 1 /\ \A j \in 1 .. N - 1 : a[j] = IF j < k THEN v[j] ELSE v[j + 1]
      /\ b \in Seq(Resp) /\ Len(b) = N - 1 /\ \A j \in 1 .. N - 1 : b[j] = IF j < k + 1 THEN v[j] ELSE v[j + 1]
  BY <1>1, <1>2, <1>4, RemovedSeq, Zenon
<1>6. /\ \A j \in 1 .. N : v[j].code = 472 <=> j = k
      /\ v[k + 1].code = 302 \/ v[k + 1].code = 404
  BY <1>1, Zenon DEF OneMissing
<1> DEFINE Before(m) == f[m].v = v /\ f[m].ix = m + 1
           After(m)  == (f[m].v = a \/ f[m].v = b) /\ f[m].ix > k /\ f[m].ix \in Nat
           Reached == {m \in Nat : m \in 0 .. N => (m < k => Before(m)) /\ (m >= k => After(m))}
<1>7. 0 \in Reached
  <2>1. Before(0)
    BY <1>3
  <2>2. ~(0 >= k)
    BY <1>2
  <2> HIDE DEF Before, After
  <2> QED
    BY <2>1, <2>2, Zenon
<1>8. ASSUME NEW m \in Reached PROVE m + 1 \in Reached
  <2>1. ASSUME m + 1 \in 0 .. N PROVE (m + 1 < k => Before(m + 1)) /\ (m + 1 >= k => After(m + 1))
    <3>1. m \in Nat /\ m \in 0 .. N /\ m + 1 \in 1 .. N /\ (m + 1) - 1 = m
      BY <2>1
    <3>2. f[m + 1] = RemovePass(f[m]) /\ f[m] \in Removing(Resp)
      BY <1>3, <3>1, Zenon
    <3>3. (m < k => Before(m)) /\ (m >= k => After(m))
      BY <3>1, Zenon
    <3>4. CASE m + 1 < k
      <4>1. f[m].v = v /\ f[m].ix = m + 1
        BY <3>1, <3>3, <3>4
      <4>2. ~(m + 1 >= Len(v)) /\ v[m + 1].code # 472
        BY <1>1, <1>2, <1>6, <3>1, <3>4
      <4>3. f[m + 1] = [f[m] EXCEPT !.ix = (m + 1) + 1]
        BY <3>2, <4>1, <4>2 DEF RemovePass
      <4> QED
        BY <3>1, <3>2, <3>4, <4>1, <4>3 DEF Removing
    <3>5. CASE m + 1 = k
      <4>1. f[m].v = v /\ f[m].ix = k
        BY <3>1, <3>3, <3>5
      <4>2. ~(k >= Len(v)) /\ v[k].code = 472
        BY <1>1, <1>2, <1>6
      <4>3. f[k] = [v |-> a, ix |-> k + 1] \/ f[k] = [v |-> b, ix |-> k + 2]
        BY <1>4, <1>6, <3>2, <3>5, <4>1, <4>2 DEF RemovePass
      <4> QED
        BY <1>2, <3>5, <4>3
    <3>6. CASE m >= k
      <4>1. PICK u, ix : u = f[m].v /\ ix = f[m].ix
        BY Zenon
      <4>2. (u = a \/ u = b) /\ ix > k /\ ix \in Nat
        BY <3>3, <3>6, <4>1, Zenon
      <4>3. ASSUME ~(ix >= Len(u)) PROVE u[ix].code # 472
        <5>1. ix \in 1 .. N - 1 /\ ix + 1 \in 1 .. N /\ ix + 1 # k
          BY <1>2, <1>5, <4>2, <4>3
        <5>2. u[ix] = v[ix + 1]
          BY <1>2, <1>5, <4>2, <5>1
        <5> QED
          BY <1>6, <5>1, <5>2
      <4>4. f[m + 1] = f[m] \/ f[m + 1] = [f[m] EXCEPT !.ix = ix + 1]
        BY <3>2, <4>1, <4>3, Zenon DEF RemovePass
      <4>5. f[m + 1].v = u /\ (f[m + 1].ix = ix \/ f[m + 1].ix = ix + 1)
        BY <3>2, <4>1, <4>4, Zenon DEF Removing
      <4>6. After(m + 1)
        BY <1>2, <4>2, <4>5
      <4>7. ~(m + 1 < k)
        BY <1>2, <3>1, <3>6
      <4> HIDE DEF Before, After
      <4> QED
        BY <4>6, <4>7, Zenon
    <3> HIDE DEF Before, After
    <3> QED
      BY <1>2, <3>1, <3>4, <3>5, <3>6
  <2> HIDE DEF Before, After
  <2> QED
    BY <2>1
<1>9. Reached = Nat
  <2> HIDE DEF Reached
  <2>1. Reached \in SUBSET Nat
    BY Zenon DEF Reached
  <2> QED
    BY <1>7, <1>8, <2>1, InductionSet, Zenon
<1>10. After(N)
  <2>1. N \in 0 .. N /\ N >= k /\ N \in Reached
    <3> HIDE DEF Reached
    <3> QED
      BY <1>2, <1>9
  <2> HIDE DEF Before, After
  <2> QED
    BY <2>1, Zenon
<1> QED
  BY <1>3, <1>4, <1>10, Zenon

\* The responses to element k: one, or a 472 and the result of a search for a provider.
Shape(k, s) ==
  /\ s \in Seq(Resp)
  /\ \A i \in 1 .. Len(s) : s[i].elem = k
  /\ \/ Len(s) = 1
     \/ Len(s) = 2 /\ s[1].code = 472 /\ (s[2].code = 302 \/ s[2].code = 404)

\* ss are the responses to the elements of an update, and w is one response to each.
Shapes(ss) == \A k \in 1 .. Len(ss) : Shape(k, ss[k])

AllTheSame(A) == \A a, b \in A : a = b

InOrder(w, n) == w \in Seq(Resp) /\ Len(w) = n /\ \A k \in 1 .. n : w[k].elem = k

\* The elements answered 472 first, among which are the ones with two responses.
LEMMA InvalidElements ==
  ASSUME NEW ss \in Seq(Seq(Resp)), Shapes(ss)
  PROVE  /\ InvalidParameter(FlattenSeq(ss)) \subseteq 1 .. Len(ss)
         /\ \A k \in 1 .. Len(ss) : ss[k][1].code = 472 => k \in InvalidParameter(FlattenSeq(ss))
<1>1. PICK v \in Seq(Resp) : v = FlattenSeq(ss)
  BY FlattenMembers, Zenon
<1>2. \A x : x \in ToSet(v) <=> \E i \in 1 .. Len(ss) : x \in ToSet(ss[i])
  BY <1>1, FlattenMembers, Zenon
<1>3. ASSUME NEW ix \in DOMAIN v PROVE v[ix].elem \in 1 .. Len(ss)
  <2>1. PICK i \in 1 .. Len(ss) : v[ix] \in ToSet(ss[i])
    BY <1>2, Zenon DEF ToSet
  <2>2. Shape(i, ss[i])
    BY Zenon DEF Shapes
  <2>3. PICK j \in 1 .. Len(ss[i]) : v[ix] = ss[i][j]
    BY <2>1, <2>2 DEF ToSet, Shape
  <2> QED
    BY <2>2, <2>3 DEF Shape
<1>4. ASSUME NEW k \in 1 .. Len(ss), ss[k][1].code = 472 PROVE k \in InvalidParameter(v)
  <2>1. Shape(k, ss[k])
    BY Zenon DEF Shapes
  <2>2. ss[k] \in Seq(Resp) /\ 1 \in 1 .. Len(ss[k]) /\ ss[k][1].elem = k /\ ss[k][1].code = 472
    BY <1>4, <2>1 DEF Shape
  <2>3. ss[k][1] \in ToSet(ss[k])
    BY <2>2 DEF ToSet
  <2>4. PICK ix \in DOMAIN v : v[ix] = ss[k][1]
    BY <1>2, <2>3, Zenon DEF ToSet
  <2> QED
    BY <2>2, <2>4 DEF InvalidParameter
<1> QED
  BY <1>1, <1>3, <1>4 DEF InvalidParameter

\* v are the responses one of the elements and, after the one of element k, another: two.
Placed(v, n, k, one, two) ==
  /\ Len(v) = n + 1
  /\ \A i \in 1 .. n : i <= k => v[i] = one[i]
  /\ \A i \in 1 .. n : i > k => v[i + 1] = one[i]
  /\ v[k + 1] = two
  /\ \A i \in 1 .. n : one[i].elem = i
  /\ \A i \in 1 .. n : one[i].code = 472 <=> i = k
  /\ two.elem = k /\ (two.code = 302 \/ two.code = 404)

\* The loop removes one of the two responses to element k.
LEMMA PlacesAfter ==
  ASSUME NEW n \in Nat, NEW k \in 1 .. n, NEW v \in Seq(Resp), NEW one, NEW two, Placed(v, n, k, one, two)
  PROVE  InOrder(removeGarbage(v), n)
<1>1. /\ Len(v) = n + 1
      /\ \A i \in 1 .. n : i <= k => v[i] = one[i]
      /\ \A i \in 1 .. n : i > k => v[i + 1] = one[i]
      /\ v[k + 1] = two
      /\ \A i \in 1 .. n : one[i].elem = i
      /\ \A i \in 1 .. n : one[i].code = 472 <=> i = k
      /\ two.elem = k /\ (two.code = 302 \/ two.code = 404)
  BY Zenon DEF Placed
<1>2. k \in 1 .. Len(v) /\ k + 1 \in 1 .. Len(v) /\ Len(v) - 1 = n /\ k \in 1 .. Len(v) - 1
  BY <1>1
<1>3. OneMissing(v, k)
  <2>1. \A j \in 1 .. Len(v) : v[j].code = 472 <=> j = k
    <3> TAKE j \in 1 .. Len(v)
    <3>1. CASE j <= k
      BY <1>1, <3>1
    <3>2. CASE j = k + 1
      BY <1>1, <3>2
    <3>3. CASE j > k + 1
      <4>1. PICK i \in 1 .. n : j = i + 1 /\ i > k
        <5>1. j - 1 \in 1 .. n /\ j = (j - 1) + 1 /\ j - 1 > k
          BY <1>1, <3>3
        <5> QED
          BY <5>1, Zenon
      <4>2. v[j] = one[i] /\ one[i].code # 472
        BY <1>1, <4>1
      <4> QED
        BY <3>3, <4>2
    <3> QED
      BY <1>1, <3>1, <3>2, <3>3
  <2> QED
    BY <1>1, <2>1, Zenon DEF OneMissing
<1>4. PICK a, b : a = RemoveAt(v, k) /\ b = RemoveAt(v, k + 1)
  BY Zenon
<1>5. /\ a \in Seq(Resp) /\ Len(a) = n /\ \A j \in 1 .. n : a[j] = IF j < k THEN v[j] ELSE v[j + 1]
      /\ b \in Seq(Resp) /\ Len(b) = n /\ \A j \in 1 .. n : b[j] = IF j < k + 1 THEN v[j] ELSE v[j + 1]
  BY <1>2, <1>4, RemovedSeq, Zenon
<1>6. ASSUME NEW j \in 1 .. n PROVE a[j].elem = j /\ b[j].elem = j
  <2>1. CASE j < k
    <3>1. j <= k /\ j < k + 1
      BY ONLY <2>1, n \in Nat, k \in 1 .. n, j \in 1 .. n
    <3>2. a[j] = v[j] /\ b[j] = v[j]
      BY <1>5, <2>1, <3>1, Zenon
    <3>3. v[j] = one[j] /\ one[j].elem = j
      BY <1>1, <3>1, ZenonT(30)
    <3> QED
      BY <3>2, <3>3, Zenon
  <2>2. CASE j = k
    BY <1>1, <1>5, <2>2
  <2>3. CASE j > k
    <3>1. v[j + 1] = one[j] /\ one[j].elem = j
      BY <1>1, <2>3
    <3>2. a[j] = v[j + 1] /\ b[j] = v[j + 1]
      BY <1>5, <2>3
    <3> QED
      BY <3>1, <3>2, Zenon
  <2> QED
    BY <2>1, <2>2, <2>3
<1>7. removeGarbage(v) = a \/ removeGarbage(v) = b
  BY <1>2, <1>3, <1>4, OneRemoved, Zenon
<1> QED
  BY <1>5, <1>6, <1>7, Zenon DEF InOrder

\* With at most one element answered 472, the loop leaves one response to
\* each element, in their order.
LEMMA PlacesKept ==
  ASSUME NEW ss \in Seq(Seq(Resp)), Shapes(ss), AllTheSame(InvalidParameter(FlattenSeq(ss))),
         NEW r, Len(r.elements) = Len(ss)
  PROVE  InOrder(cleanResponses(FlattenSeq(ss), r), Len(ss))
<1>1. PICK n \in Nat : n = Len(ss)
  OBVIOUS
<1>2. PICK v \in Seq(Resp) : v = FlattenSeq(ss)
  BY FlattenMembers, Zenon
<1>3. PICK A : A = InvalidParameter(v)
  BY Zenon
<1>4. \A k \in 1 .. n : ss[k][1].code = 472 => k \in A
  BY <1>1, <1>2, <1>3, InvalidElements, Zenon
<1>5. \A a, b \in A : a = b
  BY <1>2, <1>3, Zenon DEF AllTheSame
<1>6. PICK one, two, len : /\ one = [k \in 1 .. n |-> ss[k][1]]
                           /\ two = [k \in 1 .. n |-> ss[k][2]]
                           /\ len = [k \in 1 .. n |-> Len(ss[k])]
  BY Zenon
<1>7. ASSUME NEW k \in 1 .. n
      PROVE  /\ one[k].elem = k /\ (len[k] = 1 \/ len[k] = 2)
             /\ len[k] = 2 => one[k].code = 472
             /\ len[k] = 2 => two[k].elem = k /\ (two[k].code = 302 \/ two[k].code = 404)
  <2>1. PICK s : s = ss[k] /\ Shape(k, s)
    BY <1>1, Zenon DEF Shapes
  <2>2. s[1] = one[k] /\ s[2] = two[k] /\ Len(s) = len[k]
    BY <1>6, <2>1, Zenon
  <2> QED
    BY ONLY <2>1, <2>2, n \in Nat, k \in 1 .. n, SMTT(20) DEF Shape
<1>0. \A i, j \in 1 .. n : one[i].code = 472 /\ one[j].code = 472 => i = j
  BY <1>4, <1>5, <1>6, Zenon
<1>70. ASSUME NEW i \in 1 .. n, len[i] = 2 PROVE one[i].code = 472
  BY ONLY <1>7, <1>70, n \in Nat, i \in 1 .. n
<1>8. \A i, j \in 1 .. n : len[i] = 2 /\ len[j] = 2 => i = j
  <2> SUFFICES ASSUME NEW i \in 1 .. n, NEW j \in 1 .. n, len[i] = 2, len[j] = 2 PROVE i = j
    BY Zenon
  <2>1. one[i].code = 472 /\ one[j].code = 472
    BY ONLY <1>70, n \in Nat, i \in 1 .. n, j \in 1 .. n, len[i] = 2, len[j] = 2
  <2> QED
    BY ONLY <1>0, <2>1, n \in Nat, i \in 1 .. n, j \in 1 .. n
<1>9. PICK k \in 1 .. n + 1 : \A i \in 1 .. n : len[i] = IF i = k THEN 2 ELSE 1
  <2>1. CASE \E k \in 1 .. n : len[k] = 2
    <3>1. PICK k \in 1 .. n : len[k] = 2
      BY <2>1, Zenon
    <3>2. k \in 1 .. n + 1
      OBVIOUS
    <3>3. ASSUME NEW i \in 1 .. n PROVE len[i] = IF i = k THEN 2 ELSE 1
      <4>1. len[i] = 1 \/ len[i] = 2
        BY <1>7, Zenon
      <4>2. len[i] = 2 => i = k
        BY <1>8, <3>1, Zenon
      <4> QED
        BY <3>1, <4>1, <4>2, Zenon
    <3> QED
      BY <3>2, <3>3, Zenon
  <2>2. CASE ~\E k \in 1 .. n : len[k] = 2
    <3>1. n + 1 \in 1 .. n + 1 /\ \A i \in 1 .. n : i # n + 1
      OBVIOUS
    <3>2. ASSUME NEW i \in 1 .. n PROVE len[i] = IF i = n + 1 THEN 2 ELSE 1
      <4>1. len[i] = 1 \/ len[i] = 2
        BY <1>7, Zenon
      <4> QED
        BY <2>2, <3>1, <4>1, Zenon
    <3> QED
      BY <3>1, <3>2, Zenon
  <2> QED
    BY <2>1, <2>2, Zenon
<1>10. /\ Len(v) = IF k <= n THEN n + 1 ELSE n
       /\ \A i \in 1 .. n : v[IF k < i THEN i + 1 ELSE i] = one[i]
       /\ k <= n => v[k + 1] = two[k]
  <2>1. \A i \in 1 .. Len(ss) : Len(ss[i]) = IF i = k THEN 2 ELSE 1
    BY <1>1, <1>6, <1>9, Zenon
  <2>2. k \in Nat \ {0}
    OBVIOUS
  <2>3. /\ Len(v) = IF k <= n THEN n + 1 ELSE n
        /\ \A i \in 1 .. n : v[IF k < i THEN i + 1 ELSE i] = ss[i][1]
        /\ k <= n => v[k + 1] = ss[k][2]
    BY <1>1, <1>2, <2>1, <2>2, FlattenPlaces, Zenon
  <2>4. \A i \in 1 .. n : ss[i][1] = one[i] /\ ss[i][2] = two[i]
    BY <1>6, Zenon
  <2>5. k <= n => k \in 1 .. n
    OBVIOUS
  <2> QED
    BY ONLY <2>3, <2>4, <2>5, Zenon
<1>11. CASE k = n + 1
  <2>1. cleanResponses(v, r) = v /\ Len(v) = n
    BY <1>1, <1>10, <1>11 DEF cleanResponses
  <2>2. \A i \in 1 .. n : v[i].elem = i
    BY ONLY <1>7, <1>10, <1>11, n \in Nat
  <2> QED
    BY <1>1, <1>2, <2>1, <2>2, Zenon DEF InOrder
<1>12. CASE k <= n
  <2>1. Len(v) = n + 1 /\ k \in 1 .. n /\ len[k] = 2 /\ n + 1 # n
    BY ONLY <1>9, <1>10, <1>12, n \in Nat, k \in 1 .. n + 1
  <2>2. cleanResponses(v, r) = removeGarbage(v)
    BY <1>1, <2>1, Zenon DEF cleanResponses
  <2>3. Placed(v, n, k, one, two[k])
    <3>1. /\ \A i \in 1 .. n : i <= k => v[i] = one[i]
          /\ \A i \in 1 .. n : i > k => v[i + 1] = one[i]
          /\ v[k + 1] = two[k]
      <4>1. ASSUME NEW i \in 1 .. n PROVE (i <= k => ~(k < i)) /\ (i > k => k < i)
        BY <2>1
      <4> QED
        BY <1>10, <1>12, <4>1, Zenon
    <3>2. \A i \in 1 .. n : one[i].code = 472 <=> i = k
      BY ONLY <1>0, <1>70, <2>1, n \in Nat
    <3> QED
      BY ONLY <1>7, <2>1, <3>1, <3>2 DEF Placed
  <2> QED
    BY <1>1, <1>2, <2>1, <2>2, <2>3, PlacesAfter, Zenon
<1> QED
  BY <1>11, <1>12

\* A response that gets another code stays in its place.
LEMMA RecodedInOrder ==
  ASSUME NEW v \in Seq(Resp), NEW ix, NEW code \in Nat
  PROVE  /\ [v EXCEPT ![ix].code = code] \in Seq(Resp)
         /\ \A n : InOrder(v, n) => InOrder([v EXCEPT ![ix].code = code], n)
<1>1. PICK w : w = [v EXCEPT ![ix].code = code]
  BY Zenon
<1>2. PICK N \in Nat : N = Len(v) /\ DOMAIN v = 1 .. N
  OBVIOUS
<1>3. \A i \in 1 .. N : v[i] \in Resp
  BY <1>2
<1>4. \A i \in 1 .. N : w[i] \in Resp /\ w[i].elem = v[i].elem
  BY <1>1, <1>2, <1>3, Zenon DEF Resp
<1>5. w \in [1 .. N -> Resp]
  BY <1>1, <1>2, <1>4, Zenon
<1>6. w \in Seq(Resp) /\ Len(w) = N
  BY ONLY <1>5, N \in Nat
<1> QED
  BY <1>1, <1>2, <1>4, <1>6, Zenon DEF InOrder
=============================================================================
