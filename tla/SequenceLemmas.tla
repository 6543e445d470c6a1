---------------------------- MODULE SequenceLemmas ----------------------------
(***************************************************************************)
(* Lemmas about numbers, about the operators on sequences that the models  *)
(* are built from, and about trees, cited by the proofs about them.        *)
(***************************************************************************)
EXTENDS Integers, SequencesExt, SequenceTheorems, FiniteSetTheorems, WellFoundedInduction, TLAPS

-----------------------------------------------------------------------------
(* Numbers.                                                                *)

(* A set of natural numbers that is not empty has a least element.         *)
LEMMA LeastNumber ==
  ASSUME NEW T \in SUBSET Nat, T # {}
  PROVE  \E x \in T : \A y \in T : x <= y
<1>1. IsWellFoundedOn(OpToRel(<, Nat), Nat)
  BY NatLessThanWellFounded
<1>2. PICK x \in T : \A y \in T : ~(<<y, x>> \in OpToRel(<, Nat))
  BY <1>1, WFMin
<1>3. \A y \in T : y \in Nat /\ x \in Nat /\ ~(y < x)
  BY <1>2, Zenon DEF OpToRel
<1>4. QED
  BY <1>3

(* Induction, for a set instead of a predicate.                            *)
LEMMA NatInduct ==
  ASSUME NEW T, 0 \in T, \A n \in Nat : n \in T => n + 1 \in T
  PROVE  \A n \in Nat : n \in T
<1> DEFINE M == {n \in Nat : n \notin T}
<1>1. CASE M = {}
  BY <1>1
<1>2. CASE M # {}
  <2>1. PICK x \in M : \A y \in M : x <= y
    <3>1. M \in SUBSET Nat
      OBVIOUS
    <3> HIDE DEF M
    <3>2. QED
      BY <3>1, <1>2, LeastNumber
  <2>2. x \in Nat /\ x # 0 /\ x \notin T
    OBVIOUS
  <2>3. x - 1 \in Nat /\ x - 1 \notin M
    BY <2>1, <2>2
  <2>4. (x - 1) + 1 \in T
    BY <2>3
  <2>5. QED
    BY <2>2, <2>4
<1>3. QED
  BY <1>1, <1>2

(* Numbers that grow do not come twice.                                    *)
LEMMA IncreasingOnce ==
  ASSUME NEW n \in Nat, NEW f \in [1..n -> Nat], \A j \in 1..n : j > 1 => f[j - 1] < f[j]
  PROVE  \A i, j \in 1..n : f[i] = f[j] => i = j
<1> DEFINE U == {j \in Nat : \A i \in 1..n : j \in 1..n /\ i < j => f[i] < f[j]}
<1>1. 0 \in U
  OBVIOUS
<1>2. ASSUME NEW j \in Nat, j \in U
      PROVE  j + 1 \in U
  <2>1. SUFFICES ASSUME NEW i \in 1..n, j + 1 \in 1..n, i < j + 1
                 PROVE  f[i] < f[j + 1]
    OBVIOUS
  <2>2. j \in 1..n /\ f[j] < f[j + 1]
    <3>1. j \in 1..n /\ j + 1 > 1 /\ (j + 1) - 1 = j
      BY <2>1
    <3>2. f[(j + 1) - 1] < f[j + 1]
      BY <2>1, <3>1
    <3>3. QED
      BY <3>1, <3>2
  <2>3. i = j \/ f[i] < f[j]
    BY <1>2, <2>1, <2>2
  <2>4. f[i] \in Nat /\ f[j] \in Nat /\ f[j + 1] \in Nat
    BY <2>1, <2>2
  <2>5. QED
    BY <2>2, <2>3, <2>4
<1>3. \A j \in Nat : j \in U
  <2> HIDE DEF U
  <2>1. QED
    BY <1>1, <1>2, NatInduct
<1>4. ASSUME NEW i \in 1..n, NEW j \in 1..n, i < j
      PROVE  f[i] < f[j]
  BY <1>3, <1>4
<1>5. ASSUME NEW i \in 1..n, NEW j \in 1..n, f[i] = f[j]
      PROVE  i = j
  <2>1. f[i] \in Nat /\ f[j] \in Nat
    OBVIOUS
  <2>2. ~(i < j) /\ ~(j < i)
    BY <1>4, <1>5, <2>1
  <2>3. QED
    BY <2>2
<1>6. QED
  BY <1>5

-----------------------------------------------------------------------------
(* Sequences.                                                              *)

(* Last and Front take a nonempty sequence apart.                          *)
LEMMA FrontLast ==
  ASSUME NEW S, NEW s \in Seq(S), s # <<>>
  PROVE  /\ Len(s) \in Nat /\ Len(s) >= 1
         /\ Front(s) \in Seq(S)
         /\ Len(Front(s)) = Len(s) - 1
         /\ \A i \in 1..(Len(s) - 1) : Front(s)[i] = s[i]
         /\ Last(s) = s[Len(s)]
         /\ Last(s) \in S
<1>1. Len(s) \in Nat /\ Len(s) >= 1
  BY EmptySeq, LenProperties
<1>2. \A i \in 1..(Len(s) - 1) : s[i] \in S
  BY <1>1, ElementOfSeq
<1>3. /\ Front(s) \in Seq(S)
      /\ Len(Front(s)) = Len(s) - 1
      /\ \A i \in 1..(Len(s) - 1) : Front(s)[i] = s[i]
  <2> DEFINE n == Len(s) - 1
  <2>1. n \in Nat /\ \A i \in 1..n : s[i] \in S
    BY <1>1, <1>2
  <2> HIDE DEF n
  <2>2. /\ SubSeq(s, 1, n) \in Seq(S)
        /\ Len(SubSeq(s, 1, n)) = n
        /\ \A i \in 1..n : SubSeq(s, 1, n)[i] = s[i]
    BY <2>1, SubSeqProperties
  <2>3. Front(s) = SubSeq(s, 1, n)
    BY DEF Front, n
  <2>4. QED
    BY <2>2, <2>3 DEF n
<1>4. Last(s) = s[Len(s)] /\ Last(s) \in S
  BY <1>1, ElementOfSeq DEF Last
<1>5. QED
  BY <1>1, <1>3, <1>4

(* Append puts one element behind a sequence.                              *)
LEMMA AppendLast ==
  ASSUME NEW S, NEW s \in Seq(S), NEW e \in S
  PROVE  /\ Append(s, e) \in Seq(S)
         /\ Len(s) \in Nat
         /\ Len(Append(s, e)) = Len(s) + 1
         /\ \A i \in 1..Len(s) : Append(s, e)[i] = s[i]
         /\ Append(s, e)[Len(s) + 1] = e
         /\ Append(s, e) # <<>>
  BY AppendProperties, LenProperties

(* The last element of a longer sequence, and what is before it.           *)
LEMMA AppendLastFront ==
  ASSUME NEW S, NEW s \in Seq(S), NEW e \in S
  PROVE  /\ Append(s, e) \in Seq(S) /\ Append(s, e) # <<>>
         /\ Last(Append(s, e)) = e
         /\ Front(Append(s, e)) = s
<1> DEFINE t == Append(s, e)
           n == Len(s)
<1>1. /\ t \in Seq(S) /\ t # <<>> /\ n \in Nat /\ Len(t) = n + 1
      /\ \A i \in 1..n : t[i] = s[i]
      /\ t[n + 1] = e
  BY AppendLast
<1> HIDE DEF t, n
<1>2. /\ Front(t) \in Seq(S) /\ Len(Front(t)) = n
      /\ \A i \in 1..n : Front(t)[i] = t[i]
      /\ Last(t) = e
  <2>1. /\ Front(t) \in Seq(S) /\ Len(Front(t)) = Len(t) - 1
        /\ \A i \in 1..(Len(t) - 1) : Front(t)[i] = t[i]
        /\ Last(t) = t[Len(t)]
    BY <1>1, FrontLast
  <2>2. Len(t) - 1 = n
    BY <1>1
  <2>3. QED
    BY <1>1, <2>1, <2>2
<1>3. Front(t) = s
  <2>1. \A i \in 1..Len(s) : Front(t)[i] = s[i]
    BY <1>1, <1>2 DEF n
  <2>2. Len(Front(t)) = Len(s)
    BY <1>2 DEF n
  <2>3. QED
    BY <1>2, <2>1, <2>2, SeqEqual
<1>4. QED
  BY <1>1, <1>2, <1>3 DEF t

(* One sequence behind another.                                            *)
LEMMA ConcatFacts ==
  ASSUME NEW S, NEW s \in Seq(S), NEW t \in Seq(S)
  PROVE  /\ s \o t \in Seq(S)
         /\ Len(s) \in Nat /\ Len(t) \in Nat
         /\ Len(s \o t) = Len(s) + Len(t)
         /\ DOMAIN (s \o t) = 1..(Len(s) + Len(t))
         /\ \A i \in 1..Len(s) : (s \o t)[i] = s[i]
         /\ \A i \in 1..Len(t) : (s \o t)[Len(s) + i] = t[i]
         /\ s \o t = [i \in 1..(Len(s) + Len(t)) |-> IF i <= Len(s) THEN s[i] ELSE t[i - Len(s)]]
<1>1. Len(s) \in Nat /\ Len(t) \in Nat
  BY LenProperties
<1>2. /\ s \o t \in Seq(S) /\ Len(s \o t) = Len(s) + Len(t)
      /\ \A i \in 1..(Len(s) + Len(t)) : (s \o t)[i] = IF i <= Len(s) THEN s[i] ELSE t[i - Len(s)]
  BY ConcatProperties
<1> DEFINE u == s \o t
           k == Len(s) + Len(t)
           g == [i \in 1..k |-> IF i <= Len(s) THEN s[i] ELSE t[i - Len(s)]]
<1>3. k \in Nat /\ u \in Seq(S) /\ Len(u) = k
  BY <1>1, <1>2
<1>4. \A i \in 1..k : g[i] = u[i]
  BY <1>2
<1> HIDE DEF u
<1>5. DOMAIN u = 1..k /\ \A i \in 1..k : u[i] \in S
  BY <1>3, LenProperties, ElementOfSeq
<1>6. g \in [1..k -> S]
  <2> HIDE DEF k
  <2>1. \A i \in 1..k : g[i] \in S
    BY <1>4, <1>5
  <2>2. QED
    BY <2>1
<1>7. g = u
  <2> HIDE DEF k, g
  <2>1. g \in Seq(S) /\ Len(g) = k
    BY <1>3, <1>6
  <2>2. QED
    BY <2>1, <1>3, <1>4, SeqEqual
<1>8. \A i \in 1..Len(s) : u[i] = s[i]
  <2>1. \A i \in 1..Len(s) : i \in 1..k /\ i <= Len(s)
    BY <1>1
  <2>2. QED
    BY <1>2, <2>1 DEF u
<1>9. \A i \in 1..Len(t) : u[Len(s) + i] = t[i]
  <2>1. \A i \in 1..Len(t) : /\ Len(s) + i \in 1..k /\ ~(Len(s) + i <= Len(s))
                              /\ (Len(s) + i) - Len(s) = i
    BY <1>1
  <2>2. QED
    BY <1>2, <2>1 DEF u
<1>10. QED
  BY <1>1, <1>2, <1>5, <1>7, <1>8, <1>9 DEF u

LEMMA ConcatIs ==
  ASSUME NEW S, NEW s \in Seq(S), NEW t \in Seq(S)
  PROVE  s \o t = [i \in 1..(Len(s) + Len(t)) |-> IF i <= Len(s) THEN s[i] ELSE t[i - Len(s)]]
  BY ConcatFacts

LEMMA AppendElements ==
  ASSUME NEW S, NEW s \in Seq(S), NEW e \in S
  PROVE  /\ Append(s, e) \in Seq(S)
         /\ \A i \in DOMAIN Append(s, e) :
              Append(s, e)[i] = e \/ (i \in DOMAIN s /\ Append(s, e)[i] = s[i])
<1>1. /\ Append(s, e) \in Seq(S) /\ Len(s) \in Nat /\ DOMAIN s = 1..Len(s)
      /\ DOMAIN Append(s, e) = 1..(Len(s) + 1)
      /\ \A i \in 1..Len(s) : Append(s, e)[i] = s[i]
      /\ Append(s, e)[Len(s) + 1] = e
  BY AppendProperties, LenProperties
<1>2. \A i \in 1..(Len(s) + 1) : i = Len(s) + 1 \/ i \in 1..Len(s)
  BY <1>1
<1>3. QED
  BY <1>1, <1>2

(* An element of two sequences, one after the other, is one of either.     *)
LEMMA EitherOf ==
  ASSUME NEW S, NEW s \in Seq(S), NEW t \in Seq(S), NEW i \in DOMAIN (s \o t)
  PROVE  \/ i \in DOMAIN s /\ (s \o t)[i] = s[i]
         \/ /\ i > Len(s) /\ i - Len(s) \in DOMAIN t
            /\ (s \o t)[i] = t[i - Len(s)]
<1> DEFINE m == Len(s)
           n == Len(t)
           u == s \o t
<1>1. /\ m \in Nat /\ n \in Nat /\ DOMAIN u = 1..(m + n)
      /\ \A j \in 1..m : u[j] = s[j]
      /\ \A j \in 1..n : u[m + j] = t[j]
      /\ DOMAIN s = 1..m /\ DOMAIN t = 1..n
  BY ConcatFacts, LenProperties
<1> HIDE DEF m, n
<1>2. CASE i <= m
  BY <1>1, <1>2
<1>3. CASE ~(i <= m)
  <2>1. i - m \in 1..n /\ i = m + (i - m) /\ i > m
    BY <1>1, <1>3
  <2>2. u[m + (i - m)] = t[i - m]
    BY <1>1, <2>1
  <2>3. QED
    BY <1>1, <2>1, <2>2 DEF m
<1>4. QED
  BY <1>2, <1>3

(* Sequences without repetition that share nothing, one after the other.   *)
LEMMA ConcatApart ==
  ASSUME NEW S, NEW s \in Seq(S), NEW t \in Seq(S), IsInjective(s), IsInjective(t),
         \A i \in DOMAIN s, j \in DOMAIN t : s[i] # t[j]
  PROVE  IsInjective(s \o t)
<1> DEFINE m == Len(s)
           n == Len(t)
           u == s \o t
<1>1. /\ m \in Nat /\ n \in Nat /\ DOMAIN u = 1..(m + n)
      /\ \A i \in 1..m : u[i] = s[i]
      /\ \A i \in 1..n : u[m + i] = t[i]
      /\ DOMAIN s = 1..m /\ DOMAIN t = 1..n
  BY ConcatFacts, LenProperties
<1> HIDE DEF m, n, u
<1>2. ASSUME NEW i \in 1..(m + n)
      PROVE  \/ i \in 1..m /\ u[i] = s[i]
             \/ i - m \in 1..n /\ u[i] = t[i - m] /\ i = m + (i - m)
  <2>1. i \in DOMAIN (s \o t) /\ i = m + (i - m)
    BY <1>1 DEF u
  <2>2. \/ i \in DOMAIN s /\ (s \o t)[i] = s[i]
        \/ i - m \in DOMAIN t /\ (s \o t)[i] = t[i - m]
    BY <2>1, EitherOf DEF m
  <2>3. QED
    BY <1>1, <2>1, <2>2 DEF u
<1>3. ASSUME NEW i \in 1..(m + n), NEW j \in 1..(m + n), u[i] = u[j]
      PROVE  i = j
  <2>1. CASE i \in 1..m /\ u[i] = s[i] /\ j \in 1..m /\ u[j] = s[j]
    BY <1>1, <1>3, <2>1 DEF IsInjective
  <2>2. CASE /\ i - m \in 1..n /\ u[i] = t[i - m] /\ i = m + (i - m)
             /\ j - m \in 1..n /\ u[j] = t[j - m] /\ j = m + (j - m)
    <3>1. i - m = j - m
      BY <1>1, <1>3, <2>2 DEF IsInjective
    <3>2. QED
      BY <2>2, <3>1
  <2>3. ~(i \in 1..m /\ u[i] = s[i] /\ j - m \in 1..n /\ u[j] = t[j - m])
    BY <1>1, <1>3
  <2>4. ~(j \in 1..m /\ u[j] = s[j] /\ i - m \in 1..n /\ u[i] = t[i - m])
    BY <1>1, <1>3
  <2>5. QED
    BY <1>2, <2>1, <2>2, <2>3, <2>4
<1>4. QED
  BY <1>1, <1>3 DEF IsInjective, u

(* A sequence whose elements are the first ones of another.                *)
LEMMA PrefixOf ==
  ASSUME NEW V, NEW s \in Seq(V), NEW t \in Seq(V), Len(s) <= Len(t), \A k \in 1..Len(s) : t[k] = s[k]
  PROVE  IsPrefix(s, t)
<1> DEFINE n == Len(s)
<1>1. n \in Nat /\ DOMAIN s = 1..n /\ DOMAIN t = 1..Len(t) /\ Len(t) \in Nat
  BY LenProperties
<1>2. \A k \in 1..n : s[k] \in V /\ t[k] \in V
  BY <1>1, ElementOfSeq
<1> HIDE DEF n
<1>3. /\ SubSeq(s, 1, n) \in Seq(V) /\ SubSeq(t, 1, n) \in Seq(V)
      /\ Len(SubSeq(s, 1, n)) = n /\ Len(SubSeq(t, 1, n)) = n
      /\ \A k \in 1..n : SubSeq(s, 1, n)[k] = s[k] /\ SubSeq(t, 1, n)[k] = t[k]
  BY <1>1, <1>2, SubSeqProperties
<1>4. SubSeq(s, 1, n) = SubSeq(t, 1, n)
  BY <1>3, SeqEqual DEF n
<1>5. QED
  BY <1>4 DEF IsPrefix, n

(* Taking the last element off and putting it back.                        *)
LEMMA AppendFrontLast ==
  ASSUME NEW S, NEW s \in Seq(S), s # <<>>
  PROVE  Append(Front(s), Last(s)) = s
<1> DEFINE t == Append(Front(s), Last(s))
<1>1. /\ Len(s) \in Nat /\ Len(s) >= 1
      /\ Front(s) \in Seq(S) /\ Len(Front(s)) = Len(s) - 1
      /\ \A i \in 1..(Len(s) - 1) : Front(s)[i] = s[i]
      /\ Last(s) = s[Len(s)] /\ Last(s) \in S
  BY FrontLast
<1>2. /\ t \in Seq(S) /\ Len(t) = Len(s)
      /\ \A i \in 1..(Len(s) - 1) : t[i] = s[i]
      /\ t[Len(s)] = s[Len(s)]
  BY <1>1, AppendLast
<1> HIDE DEF t
<1>3. \A i \in 1..Len(s) : t[i] = s[i]
  <2>1. \A i \in 1..Len(s) : i \in 1..(Len(s) - 1) \/ i = Len(s)
    BY <1>1
  <2>2. QED
    BY <2>1, <1>2
<1>4. t = s
  BY <1>2, <1>3, SeqEqual
<1>5. QED
  BY <1>4 DEF t

(* Sequences written as functions: the first elements of a longer one.     *)
LEMMA FrontOfFunction ==
  ASSUME NEW m \in Nat, NEW f, NEW g, f = [j \in 1..m |-> f[j]],
         g = [j \in 1..(m + 1) |-> g[j]], \A j \in 1..m : g[j] = f[j]
  PROVE  g # <<>> /\ Front(g) = f
<1> DEFINE S == {g[j] : j \in 1..(m + 1)}
<1>1. g \in [1..(m + 1) -> S] /\ f \in [1..m -> S]
  <2>1. \A j \in 1..m : j \in 1..(m + 1)
    OBVIOUS
  <2>2. QED
    BY <2>1
<1>2. m + 1 \in Nat
  OBVIOUS
<1> HIDE DEF S
<1>3. g \in Seq(S) /\ Len(g) = m + 1 /\ f \in Seq(S) /\ Len(f) = m
  BY <1>1, <1>2
<1>4. g # <<>>
  BY <1>3, EmptySeq
<1>5. Front(g) \in Seq(S) /\ Len(Front(g)) = m /\ \A j \in 1..m : Front(g)[j] = g[j]
  <2>1. /\ Front(g) \in Seq(S) /\ Len(Front(g)) = Len(g) - 1
        /\ \A j \in 1..(Len(g) - 1) : Front(g)[j] = g[j]
    BY <1>3, <1>4, FrontLast
  <2>2. Len(g) - 1 = m
    BY <1>3
  <2>3. QED
    BY <2>1, <2>2
<1>6. Front(g) = f
  BY <1>3, <1>5, SeqEqual
<1>7. QED
  BY <1>4, <1>6

-----------------------------------------------------------------------------
(* FlattenSeq.                                                             *)

(* What its recursive function computes for the first n sequences.         *)
Flattens(f, ss, n) == \A i \in 1..n : f[i] = IF i = 1 THEN ss[i] ELSE f[i - 1] \o ss[i]

(* There is such a function.                                               *)
LEMMA FlattenExists ==
  ASSUME NEW S, NEW ss \in Seq(Seq(S))
  PROVE  \A n \in Nat : n <= Len(ss) => \E f \in [1..n -> Seq(S)] : Flattens(f, ss, n)
<1> DEFINE P(n) == n <= Len(ss) => \E f \in [1..n -> Seq(S)] : Flattens(f, ss, n)
           T == {n \in Nat : P(n)}
<1>0. Len(ss) \in Nat
  BY LenProperties
<1>1. 0 \in T
  <2>1. [i \in 1..0 |-> <<>>] \in [1..0 -> Seq(S)]
    OBVIOUS
  <2>2. Flattens([i \in 1..0 |-> <<>>], ss, 0)
    BY DEF Flattens
  <2>3. P(0)
    BY <2>1, <2>2
  <2>4. QED
    BY <2>3
<1>2. ASSUME NEW n \in Nat, n \in T
      PROVE  n + 1 \in T
  <2>1. SUFFICES ASSUME n + 1 <= Len(ss)
                 PROVE  \E f \in [1..(n + 1) -> Seq(S)] : Flattens(f, ss, n + 1)
    OBVIOUS
  <2>2. PICK g \in [1..n -> Seq(S)] : Flattens(g, ss, n)
    BY <1>0, <1>2, <2>1
  <2>3. ss[n + 1] \in Seq(S)
    BY <1>0, <2>1, ElementOfSeq
  <2> DEFINE e == IF n + 1 = 1 THEN ss[n + 1] ELSE g[n] \o ss[n + 1]
             f == [i \in 1..(n + 1) |-> IF i = n + 1 THEN e ELSE g[i]]
  <2>4. e \in Seq(S)
    <3>1. CASE n = 0
      BY <3>1, <2>3
    <3>2. CASE n # 0
      <4>1. g[n] \in Seq(S)
        BY <3>2, <2>2
      <4>2. g[n] \o ss[n + 1] \in Seq(S)
        BY <4>1, <2>3, ConcatProperties
      <4>3. QED
        BY <4>2, <3>2
    <3>3. QED
      BY <3>1, <3>2
  <2>5. f \in [1..(n + 1) -> Seq(S)]
    <3> HIDE DEF e
    <3>1. \A i \in 1..(n + 1) : i = n + 1 \/ i \in 1..n
      OBVIOUS
    <3>2. QED
      BY <3>1, <2>2, <2>4
  <2>6. Flattens(f, ss, n + 1)
    <3>1. ASSUME NEW i \in 1..(n + 1)
          PROVE  f[i] = IF i = 1 THEN ss[i] ELSE f[i - 1] \o ss[i]
      <4>1. CASE i = n + 1
        <5>1. f[i] = e
          BY <4>1
        <5>2. i # 1 => f[i - 1] = g[n]
          BY <4>1
        <5>3. QED
          BY <4>1, <5>1, <5>2
      <4>2. CASE i # n + 1
        <5>1. i \in 1..n /\ f[i] = g[i]
          BY <4>2
        <5>2. g[i] = IF i = 1 THEN ss[i] ELSE g[i - 1] \o ss[i]
          BY <5>1, <2>2 DEF Flattens
        <5>3. i # 1 => f[i - 1] = g[i - 1]
          BY <5>1
        <5>4. QED
          BY <5>1, <5>2, <5>3
      <4>3. QED
        BY <4>1, <4>2
    <3> HIDE DEF f
    <3>2. QED
      BY <3>1 DEF Flattens
  <2>7. QED
    BY <2>5, <2>6
<1> HIDE DEF T
<1>3. \A n \in Nat : n \in T
  BY <1>1, <1>2, NatInduct
<1>4. QED
  BY <1>3 DEF T

(* And no other.                                                           *)
LEMMA FlattenUnique ==
  ASSUME NEW ss, NEW f, NEW g, NEW m \in Nat, Flattens(f, ss, m), Flattens(g, ss, m)
  PROVE  \A i \in 1..m : f[i] = g[i]
<1> DEFINE T == {n \in Nat : n \in 1..m => f[n] = g[n]}
<1>1. 0 \in T
  OBVIOUS
<1>2. ASSUME NEW n \in Nat, n \in T
      PROVE  n + 1 \in T
  <2>1. SUFFICES ASSUME n + 1 \in 1..m
                 PROVE  f[n + 1] = g[n + 1]
    OBVIOUS
  <2>2. /\ f[n + 1] = IF n + 1 = 1 THEN ss[n + 1] ELSE f[(n + 1) - 1] \o ss[n + 1]
        /\ g[n + 1] = IF n + 1 = 1 THEN ss[n + 1] ELSE g[(n + 1) - 1] \o ss[n + 1]
    BY <2>1 DEF Flattens
  <2>3. (n + 1) - 1 = n
    OBVIOUS
  <2>4. n # 0 => n \in 1..m
    BY <2>1
  <2>5. n # 0 => f[n] = g[n]
    BY <1>2, <2>4
  <2>6. QED
    BY <2>2, <2>3, <2>5
<1> HIDE DEF T
<1>3. \A n \in Nat : n \in T
  BY <1>1, <1>2, NatInduct
<1>4. QED
  BY <1>3 DEF T

(* FlattenSeq is the last value of that function.                          *)
LEMMA FlattenIs ==
  ASSUME NEW S, NEW ss \in Seq(Seq(S)), NEW f \in [1..Len(ss) -> Seq(S)],
         Flattens(f, ss, Len(ss)), Len(ss) # 0
  PROVE  FlattenSeq(ss) = f[Len(ss)]
<1> DEFINE n == Len(ss)
           Is(h) == h = [i \in 1..n |-> IF i = 1 THEN ss[i] ELSE h[i - 1] \o ss[i]]
           h0 == CHOOSE h : Is(h)
<1>1. n \in Nat
  BY LenProperties
<1>2. Is(f)
  BY DEF Flattens
<1>3. Is(h0)
  BY <1>2
<1>4. Flattens(h0, ss, n)
  <2> HIDE DEF h0
  <2>1. QED
    BY <1>3 DEF Flattens
<1>5. h0[n] = f[n]
  <2> HIDE DEF h0
  <2>1. n \in 1..n
    BY <1>1
  <2> HIDE DEF n
  <2>2. \A i \in 1..n : h0[i] = f[i]
    BY <1>1, <1>4, FlattenUnique DEF n
  <2>3. QED
    BY <2>1, <2>2
<1>6. FlattenSeq(ss) = h0[n]
  BY DEF FlattenSeq
<1>7. QED
  BY <1>5, <1>6

(* What FlattenSeq does to one more sequence; its elements are those of    *)
(* the sequences.                                                          *)
LEMMA FlattenAppend ==
  ASSUME NEW S, NEW ss \in Seq(Seq(S)), NEW s \in Seq(S)
  PROVE  /\ FlattenSeq(ss) \in Seq(S)
         /\ FlattenSeq(Append(ss, s)) = FlattenSeq(ss) \o s
<1> DEFINE n == Len(ss)
           tt == Append(ss, s)
<1>1. n \in Nat
  BY LenProperties
<1>2. /\ tt \in Seq(Seq(S)) /\ Len(tt) = n + 1 /\ tt[n + 1] = s
      /\ \A i \in 1..n : tt[i] = ss[i]
  BY AppendLast
<1>3. PICK f \in [1..(n + 1) -> Seq(S)] : Flattens(f, tt, n + 1)
  <2> HIDE DEF tt, n
  <2>1. n + 1 \in Nat /\ n + 1 <= Len(tt)
    BY <1>1, <1>2
  <2>2. QED
    BY <1>2, <2>1, FlattenExists
<1>4. FlattenSeq(tt) = f[n + 1]
  <2> HIDE DEF tt, n
  <2>1. n + 1 # 0
    BY <1>1
  <2>2. QED
    BY <1>2, <1>3, <2>1, FlattenIs
<1>5. CASE n = 0
  <2>1. ss = <<>>
    BY <1>5, EmptySeq
  <2>2. FlattenSeq(ss) = <<>>
    BY <1>5, <2>1 DEF FlattenSeq
  <2>3. f[n + 1] = s
    <3>1. 1 \in 1..(n + 1)
      BY <1>5
    <3>2. f[1] = tt[1]
      <4> HIDE DEF tt, n
      <4>1. QED
        BY <1>3, <3>1 DEF Flattens
    <3>3. QED
      BY <1>2, <1>5, <3>2
  <2>4. <<>> \in Seq(S) /\ <<>> \o s = s
    OBVIOUS
  <2>5. QED
    BY <1>4, <2>2, <2>3, <2>4
<1>6. CASE n # 0
  <2> HIDE DEF tt
  <2> DEFINE g == [i \in 1..n |-> f[i]]
  <2>1. \A i \in 1..n : i \in 1..(n + 1) /\ f[i] \in Seq(S)
    <3>1. \A i \in 1..n : i \in 1..(n + 1)
      BY <1>1
    <3> HIDE DEF n
    <3>2. QED
      BY <3>1, <1>3
  <2>2. g \in [1..n -> Seq(S)]
    BY <2>1
  <2>3. Flattens(g, ss, n)
    <3>1. ASSUME NEW i \in 1..n
          PROVE  g[i] = IF i = 1 THEN ss[i] ELSE g[i - 1] \o ss[i]
      <4>1. f[i] = IF i = 1 THEN tt[i] ELSE f[i - 1] \o tt[i]
        BY <2>1, <1>3 DEF Flattens
      <4>2. tt[i] = ss[i]
        BY <1>2
      <4>3. i # 1 => g[i - 1] = f[i - 1]
        BY <1>1
      <4>4. QED
        BY <4>1, <4>2, <4>3
    <3> HIDE DEF g, n
    <3>2. QED
      BY <3>1 DEF Flattens
  <2>4. FlattenSeq(ss) = g[n]
    <3> HIDE DEF g
    <3>1. QED
      BY <2>2, <2>3, <1>6, FlattenIs
  <2>5. n \in 1..n /\ n + 1 \in 1..(n + 1) /\ n + 1 # 1 /\ (n + 1) - 1 = n
    BY <1>1, <1>6
  <2>6. f[n + 1] = f[n] \o s
    <3>1. f[n + 1] = IF n + 1 = 1 THEN tt[n + 1] ELSE f[(n + 1) - 1] \o tt[n + 1]
      <4> HIDE DEF n
      <4>1. QED
        BY <2>5, <1>3 DEF Flattens
    <3>2. QED
      BY <1>2, <2>5, <3>1
  <2>7. g[n] \in Seq(S) /\ g[n] = f[n]
    BY <2>2, <2>5
  <2>8. QED
    BY <1>4, <2>4, <2>6, <2>7 DEF tt
<1>7. QED
  BY <1>5, <1>6

LEMMA FlattenEmpty == FlattenSeq(<<>>) = <<>>
  BY DEF FlattenSeq

(* The sequence of m parts a function gives.                               *)
LEMMA FunctionAppend ==
  ASSUME NEW S, NEW m \in Nat, NEW f \in [1..(m + 1) -> S]
  PROVE  /\ [j \in 1..m |-> f[j]] \in Seq(S)
         /\ f = Append([j \in 1..m |-> f[j]], f[m + 1])
<1> DEFINE h == [j \in 1..m |-> f[j]]
<1>1. m + 1 \in Nat /\ m + 1 \in 1..(m + 1) /\ \A j \in 1..m : j \in 1..(m + 1)
  OBVIOUS
<1>2. h \in Seq(S) /\ Len(h) = m
  <2>1. h \in [1..m -> S]
    BY <1>1
  <2> HIDE DEF h
  <2>2. QED
    BY <2>1
<1>3. f \in Seq(S) /\ Len(f) = m + 1
  BY <1>1
<1>4. f[m + 1] \in S
  BY <1>1
<1>5. /\ Append(h, f[m + 1]) \in Seq(S) /\ Len(Append(h, f[m + 1])) = m + 1
      /\ \A i \in 1..m : Append(h, f[m + 1])[i] = h[i]
      /\ Append(h, f[m + 1])[m + 1] = f[m + 1]
  <2> HIDE DEF h
  <2>1. QED
    BY <1>2, <1>4, AppendLast
<1>6. \A i \in 1..(m + 1) : f[i] = Append(h, f[m + 1])[i]
  <2>1. \A i \in 1..(m + 1) : i \in 1..m \/ i = m + 1
    OBVIOUS
  <2>2. \A i \in 1..m : h[i] = f[i]
    OBVIOUS
  <2> HIDE DEF h
  <2>3. QED
    BY <1>5, <2>1, <2>2
<1> HIDE DEF h
<1>7. QED
  <2>1. f = Append(h, f[m + 1])
    BY <1>3, <1>5, <1>6, SeqEqual
  <2>2. QED
    BY <1>2, <2>1 DEF h

(* The sequences a function gives, the last one taken off.                 *)
LEMMA FlattenTo ==
  ASSUME NEW S, NEW m \in Nat, NEW f \in [1..(m + 1) -> Seq(S)]
  PROVE  /\ FlattenSeq([j \in 1..m |-> f[j]]) \in Seq(S)
         /\ FlattenSeq(f) = FlattenSeq([j \in 1..m |-> f[j]]) \o f[m + 1]
         /\ FlattenSeq(f) \in Seq(S)
<1> DEFINE g == [j \in 1..m |-> f[j]]
<1>1. g \in Seq(Seq(S)) /\ f = Append(g, f[m + 1])
  BY FunctionAppend
<1>2. f[m + 1] \in Seq(S)
  OBVIOUS
<1> HIDE DEF g
<1>3. FlattenSeq(g) \in Seq(S) /\ FlattenSeq(Append(g, f[m + 1])) = FlattenSeq(g) \o f[m + 1]
  BY <1>1, <1>2, FlattenAppend
<1>4. QED
  BY <1>1, <1>2, <1>3, ConcatProperties DEF g

(* A property of concatenation proved by taking elements off the end.      *)
LEMMA SeqInduct ==
  ASSUME NEW S, NEW T, <<>> \in T,
         \A s \in Seq(S), e \in S : s \in T => Append(s, e) \in T
  PROVE  \A s \in Seq(S) : s \in T
<1> DEFINE U == {n \in Nat : \A s \in Seq(S) : Len(s) = n => s \in T}
<1>1. 0 \in U
  BY EmptySeq
<1>2. ASSUME NEW n \in Nat, n \in U
      PROVE  n + 1 \in U
  <2>1. SUFFICES ASSUME NEW s \in Seq(S), Len(s) = n + 1
                 PROVE  s \in T
    OBVIOUS
  <2>2. s # <<>>
    BY <2>1, EmptySeq
  <2>3. Front(s) \in Seq(S) /\ Len(Front(s)) = n /\ Last(s) \in S
    BY <2>1, <2>2, FrontLast
  <2>4. Front(s) \in T
    BY <1>2, <2>3
  <2>5. Append(Front(s), Last(s)) \in T
    BY <2>3, <2>4
  <2>6. QED
    BY <2>2, <2>5, AppendFrontLast
<1> HIDE DEF U
<1>3. \A n \in Nat : n \in U
  BY <1>1, <1>2, NatInduct
<1>4. QED
  BY <1>3, LenProperties DEF U

(* FlattenSeq of two sequences of sequences, one behind the other.         *)
LEMMA FlattenConcat ==
  ASSUME NEW S, NEW ss \in Seq(Seq(S))
  PROVE  \A tt \in Seq(Seq(S)) : FlattenSeq(ss \o tt) = FlattenSeq(ss) \o FlattenSeq(tt)
<1> DEFINE T == {tt \in Seq(Seq(S)) : FlattenSeq(ss \o tt) = FlattenSeq(ss) \o FlattenSeq(tt)}
<1>0. FlattenSeq(ss) \in Seq(S)
  BY FlattenAppend, EmptySeq
<1>1. <<>> \in T
  <2>1. <<>> \in Seq(Seq(S)) /\ ss \o <<>> = ss
    OBVIOUS
  <2>2. FlattenSeq(ss) \o <<>> = FlattenSeq(ss)
    BY <1>0, ConcatEmptySeq
  <2>3. QED
    BY <2>1, <2>2, FlattenEmpty
<1>2. ASSUME NEW tt \in Seq(Seq(S)), NEW s \in Seq(S), tt \in T
      PROVE  Append(tt, s) \in T
  <2>1. ss \o Append(tt, s) = Append(ss \o tt, s)
    <3> DEFINE Q == Seq(S)
    <3> HIDE DEF Q
    <3>1. ss \in Seq(Q) /\ tt \in Seq(Q) /\ s \in Q
      BY DEF Q
    <3>2. QED
      BY <3>1
  <2>2. ss \o tt \in Seq(Seq(S)) /\ Append(tt, s) \in Seq(Seq(S))
    BY ConcatProperties, AppendLast
  <2>3. FlattenSeq(Append(ss \o tt, s)) = FlattenSeq(ss \o tt) \o s
    BY <2>2, FlattenAppend
  <2>4. FlattenSeq(Append(tt, s)) = FlattenSeq(tt) \o s /\ FlattenSeq(tt) \in Seq(S)
    BY FlattenAppend
  <2>5. FlattenSeq(ss \o tt) = FlattenSeq(ss) \o FlattenSeq(tt)
    BY <1>2
  <2>6. (FlattenSeq(ss) \o FlattenSeq(tt)) \o s = FlattenSeq(ss) \o (FlattenSeq(tt) \o s)
    <3> DEFINE a == FlattenSeq(ss)
               b == FlattenSeq(tt)
    <3>1. a \in Seq(S) /\ b \in Seq(S)
      BY <1>0, <2>4
    <3> HIDE DEF a, b
    <3>2. (a \o b) \o s = a \o (b \o s)
      BY <3>1
    <3>3. QED
      BY <3>2 DEF a, b
  <2>7. QED
    BY <2>1, <2>2, <2>3, <2>4, <2>5, <2>6
<1> HIDE DEF T
<1>3. \A tt \in Seq(Seq(S)) : tt \in T
  BY <1>1, <1>2, SeqInduct
<1>4. QED
  BY <1>3 DEF T

-----------------------------------------------------------------------------
(* Sequences made from others, and from sets.                              *)

(* The values of a function for the elements of a sequence.                *)
Mapped(f, s) == [j \in DOMAIN s |-> f[s[j]]]
Maps(f, A, B) == \A x \in A : f[x] \in B

LEMMA MappedAppend ==
  ASSUME NEW A, NEW B, NEW f, Maps(f, A, B), NEW s \in Seq(A), NEW e \in A
  PROVE  Mapped(f, s) \in Seq(B) /\ Mapped(f, Append(s, e)) = Append(Mapped(f, s), f[e])
<1> DEFINE t == Append(s, e)
           m == Len(s)
           F == [j \in DOMAIN t |-> f[t[j]]]
           G == [j \in DOMAIN s |-> f[s[j]]]
<1>1. /\ m \in Nat /\ DOMAIN s = 1..m /\ DOMAIN t = 1..(m + 1)
      /\ \A j \in 1..m : s[j] \in A
  BY LenProperties, AppendProperties, ElementOfSeq
<1>2. t[m + 1] = e /\ (\A j \in 1..m : t[j] = s[j]) /\ \A j \in 1..(m + 1) : t[j] \in A
  <2>1. t \in Seq(A) /\ Len(t) = m + 1
    BY AppendLast
  <2>2. QED
    BY <2>1, AppendLast, ElementOfSeq
<1>3. F \in [1..(m + 1) -> B]
  <2> HIDE DEF t, m
  <2>1. QED
    BY <1>1, <1>2 DEF Maps
<1>4. G = [j \in 1..m |-> F[j]] /\ F[m + 1] = f[e]
  <2>1. \A j \in 1..m : j \in 1..(m + 1)
    BY <1>1
  <2>2. m + 1 \in 1..(m + 1)
    BY <1>1
  <2> HIDE DEF t, m
  <2>3. QED
    BY <1>1, <1>2, <2>1, <2>2
<1> HIDE DEF F, G, t, m
<1>5. QED
  BY <1>1, <1>3, <1>4, FunctionAppend DEF F, G, t, Mapped

LEMMA MapAppend ==
  ASSUME NEW A, NEW B, NEW f \in [A -> B], NEW s \in Seq(A), NEW e \in A
  PROVE  /\ [j \in DOMAIN s |-> f[s[j]]] \in Seq(B)
         /\ [j \in DOMAIN Append(s, e) |-> f[Append(s, e)[j]]] =
              Append([j \in DOMAIN s |-> f[s[j]]], f[e])
<1>1. Maps(f, A, B)
  BY DEF Maps
<1>2. Mapped(f, s) \in Seq(B) /\ Mapped(f, Append(s, e)) = Append(Mapped(f, s), f[e])
  BY <1>1, MappedAppend
<1>3. QED
  BY <1>2, Zenon DEF Mapped

(* The elements of a flattened sequence are those of its sequences.        *)
LEMMA FlattenTyped ==
  ASSUME NEW S, NEW ss \in Seq(Seq(S))
  PROVE  FlattenSeq(ss) \in Seq(S)
  BY FlattenAppend, EmptySeq

(* The elements of a finite set in some order.                             *)
LEMMA SetToSeqType ==
  ASSUME NEW S, IsFiniteSet(S)
  PROVE  SetToSeq(S) \in Seq(S)
<1>1. Cardinality(S) \in Nat /\ ExistsBijection(1..Cardinality(S), S)
  BY FS_CardinalityType
<1>2. PICK f \in [1..Cardinality(S) -> S] : IsInjective(f)
  BY <1>1 DEF ExistsBijection, Bijection, Injection, IsInjective
<1>3. SetToSeq(S) \in [1..Cardinality(S) -> S]
  BY <1>2 DEF SetToSeq
<1>4. QED
  BY <1>1, <1>3

(* A sequence without one of its elements.                                 *)
LEMMA RemoveAtFacts ==
  ASSUME NEW S, NEW s \in Seq(S), NEW i \in 1..Len(s)
  PROVE  /\ RemoveAt(s, i) \in Seq(S)
         /\ Len(RemoveAt(s, i)) = Len(s) - 1
         /\ \A j \in 1..(Len(s) - 1) : RemoveAt(s, i)[j] = IF j < i THEN s[j] ELSE s[j + 1]
<1> DEFINE n == Len(s)
           a == SubSeq(s, 1, i - 1)
           b == SubSeq(s, i + 1, n)
<1>1. n \in Nat /\ i \in Nat /\ 1 <= i /\ i <= n
  BY LenProperties
<1>2. a \in Seq(S) /\ Len(a) = i - 1 /\ \A j \in 1..(i - 1) : a[j] = s[j]
  <2> DEFINE m == i - 1
  <2>1. m \in Nat /\ \A j \in 1..m : s[j] \in S
    BY <1>1, ElementOfSeq
  <2> HIDE DEF m
  <2>2. /\ SubSeq(s, 1, m) \in Seq(S)
        /\ Len(SubSeq(s, 1, m)) = m
        /\ \A j \in 1..m : SubSeq(s, 1, m)[j] = s[j]
    BY <2>1, SubSeqProperties
  <2>3. QED
    BY <2>2 DEF m
<1>3. b \in Seq(S) /\ Len(b) = n - i /\ \A j \in 1..(n - i) : b[j] = s[i + j]
  <2> DEFINE k == i + 1
  <2>1. k \in Int /\ n \in Int /\ \A j \in k..n : s[j] \in S
    BY <1>1, ElementOfSeq
  <2>2. (IF k <= n THEN n - k + 1 ELSE 0) = n - i /\ n - k + 1 = n - i
    BY <1>1
  <2>3. \A j \in 1..(n - i) : k + j - 1 = i + j
    BY <1>1
  <2> HIDE DEF k, n
  <2>4. /\ SubSeq(s, k, n) \in Seq(S)
        /\ Len(SubSeq(s, k, n)) = IF k <= n THEN n - k + 1 ELSE 0
        /\ \A j \in 1..(n - k + 1) : SubSeq(s, k, n)[j] = s[k + j - 1]
    BY <2>1, SubSeqProperties
  <2>5. QED
    BY <2>2, <2>3, <2>4 DEF k
<1> HIDE DEF a, b
<1>4. /\ a \o b \in Seq(S) /\ Len(a \o b) = Len(a) + Len(b)
      /\ \A j \in 1..(Len(a) + Len(b)) : (a \o b)[j] = IF j <= Len(a) THEN a[j] ELSE b[j - Len(a)]
  BY <1>2, <1>3, ConcatProperties
<1>5. Len(a) + Len(b) = n - 1
  BY <1>1, <1>2, <1>3
<1>6. ASSUME NEW j \in 1..(n - 1)
      PROVE  (a \o b)[j] = IF j < i THEN s[j] ELSE s[j + 1]
  <2>1. (a \o b)[j] = IF j <= i - 1 THEN a[j] ELSE b[j - (i - 1)]
    BY <1>2, <1>4, <1>5
  <2>2. CASE j < i
    <3>1. j \in 1..(i - 1) /\ j <= i - 1
      BY <1>1, <2>2
    <3>2. QED
      BY <1>2, <2>1, <2>2, <3>1
  <2>3. CASE ~(j < i)
    <3>1. j - (i - 1) \in 1..(n - i) /\ ~(j <= i - 1) /\ i + (j - (i - 1)) = j + 1
      BY <1>1, <2>3
    <3>2. b[j - (i - 1)] = s[i + (j - (i - 1))]
      BY <1>3, <3>1
    <3>3. QED
      BY <2>1, <2>3, <3>1, <3>2
  <2>4. QED
    BY <2>2, <2>3
<1>7. RemoveAt(s, i) = a \o b
  BY DEF RemoveAt, a, b, n
<1>8. QED
  BY <1>4, <1>5, <1>6, <1>7

-----------------------------------------------------------------------------
(* Folds. The recursion of MapThenFoldSet, over the first n numbers, with  *)
(* the operator as a function g.                                           *)

LEMMA MaxOfUpTo ==
  ASSUME NEW n \in Nat, NEW s \in SUBSET (1..n), n \in s
  PROVE  Max(s) = n
<1>1. n \in s /\ \A y \in s : n >= y
  OBVIOUS
<1>2. Max(s) \in s /\ \A y \in s : Max(s) >= y
  BY <1>1 DEF Max
<1>3. Max(s) \in 1..n /\ Max(s) >= n
  BY <1>2
<1>4. QED
  BY <1>3

LEMMA MaxExists ==
  ASSUME NEW n \in Nat
  PROVE  \A s \in SUBSET (1..n) : s # {} => Max(s) \in s /\ \A y \in s : Max(s) >= y
<1> DEFINE T == {k \in Nat : \A s \in SUBSET (1..k) : s # {} => \E x \in s : \A y \in s : x >= y}
<1>1. 0 \in T
  <2>1. ASSUME NEW s \in SUBSET (1..0), s # {}
        PROVE  \E x \in s : \A y \in s : x >= y
    <3>1. 1..0 = {}
      OBVIOUS
    <3>2. QED
      BY <2>1, <3>1
  <2>2. QED
    BY <2>1
<1>2. ASSUME NEW k \in Nat, k \in T
      PROVE  k + 1 \in T
  <2>1. SUFFICES ASSUME NEW s \in SUBSET (1..(k + 1)), s # {}
                 PROVE  \E x \in s : \A y \in s : x >= y
    OBVIOUS
  <2>2. CASE k + 1 \in s
    BY <2>2
  <2>3. CASE k + 1 \notin s
    <3>1. s \in SUBSET (1..k)
      BY <2>3
    <3>2. QED
      BY <1>2, <2>1, <3>1
  <2>4. QED
    BY <2>2, <2>3
<1> HIDE DEF T
<1>3. n \in T
  BY <1>1, <1>2, NatInduct
<1>4. QED
  BY <1>3 DEF T, Max

(* What the recursion computes for the subsets of S.                       *)
Folds(it, b, g, S) ==
  \A s \in SUBSET S : it[s] = IF s = {} THEN b ELSE g[<<Max(s), it[s \ {Max(s)}]>>]

HasFold(T, b, g, n) == \E it \in [SUBSET (1..n) -> T] : Folds(it, b, g, 1..n)

LEMMA FoldExists ==
  ASSUME NEW T, NEW b \in T, NEW n \in Nat, NEW g \in [(1..n) \X T -> T]
  PROVE  HasFold(T, b, g, n)
<1> DEFINE U == {m \in Nat : m <= n => HasFold(T, b, g, m)}
<1>1. 0 \in U
  <2> DEFINE it == [s \in SUBSET (1..0) |-> b]
  <2>1. it \in [SUBSET (1..0) -> T] /\ \A s \in SUBSET (1..0) : s = {} /\ it[s] = b
    OBVIOUS
  <2> HIDE DEF it
  <2>2. Folds(it, b, g, 1..0)
    BY <2>1 DEF Folds
  <2>3. HasFold(T, b, g, 0)
    BY <2>1, <2>2 DEF HasFold
  <2>4. QED
    BY <2>3
<1>2. ASSUME NEW m \in Nat, m \in U
      PROVE  m + 1 \in U
  <2>1. SUFFICES ASSUME m + 1 <= n
                 PROVE  HasFold(T, b, g, m + 1)
    OBVIOUS
  <2>2. PICK old \in [SUBSET (1..m) -> T] : Folds(old, b, g, 1..m)
    <3>1. HasFold(T, b, g, m)
      BY <1>2, <2>1
    <3>2. QED
      BY <3>1 DEF HasFold
  <2> DEFINE it == [s \in SUBSET (1..(m + 1)) |->
                      IF m + 1 \in s THEN g[<<m + 1, old[s \ {m + 1}]>>] ELSE old[s]]
  <2>3. /\ m + 1 \in 1..n
        /\ \A s \in SUBSET (1..(m + 1)) :
             /\ m + 1 \notin s => s \in SUBSET (1..m)
             /\ s \ {m + 1} \in SUBSET (1..m) /\ s \ {m + 1} \in SUBSET (1..(m + 1))
    BY <2>1
  <2>4. \A s \in SUBSET (1..m) : s \in SUBSET (1..(m + 1)) /\ m + 1 \notin s
    OBVIOUS
  <2>5. it \in [SUBSET (1..(m + 1)) -> T]
    <3>1. ASSUME NEW s \in SUBSET (1..(m + 1))
          PROVE  (IF m + 1 \in s THEN g[<<m + 1, old[s \ {m + 1}]>>] ELSE old[s]) \in T
      <4>1. CASE m + 1 \in s
        <5>1. old[s \ {m + 1}] \in T
          BY <2>3
        <5>2. g[<<m + 1, old[s \ {m + 1}]>>] \in T
          BY <2>3, <5>1
        <5>3. QED
          BY <4>1, <5>2
      <4>2. CASE m + 1 \notin s
        BY <2>3, <4>2
      <4>3. QED
        BY <4>1, <4>2
    <3>2. QED
      BY <3>1
  <2>6. ASSUME NEW s \in SUBSET (1..(m + 1))
        PROVE  it[s] = IF s = {} THEN b ELSE g[<<Max(s), it[s \ {Max(s)}]>>]
    <3>1. CASE m + 1 \in s
      <4>1. Max(s) = m + 1 /\ s # {}
        BY <3>1, MaxOfUpTo
      <4>2. it[s] = g[<<m + 1, old[s \ {m + 1}]>>]
        BY <3>1
      <4>3. it[s \ {m + 1}] = old[s \ {m + 1}]
        BY <2>3
      <4> HIDE DEF it
      <4>4. QED
        BY <4>1, <4>2, <4>3
    <3>2. CASE m + 1 \notin s
      <4>1. s \in SUBSET (1..m) /\ it[s] = old[s]
        BY <2>3, <3>2
      <4>2. s # {} => s \ {Max(s)} \in SUBSET (1..m)
        BY <4>1
      <4>3. s # {} => it[s \ {Max(s)}] = old[s \ {Max(s)}]
        BY <2>4, <4>2
      <4>4. old[s] = IF s = {} THEN b ELSE g[<<Max(s), old[s \ {Max(s)}]>>]
        BY <2>2, <4>1 DEF Folds
      <4> HIDE DEF it
      <4>5. QED
        BY <4>1, <4>3, <4>4
    <3>3. QED
      BY <3>1, <3>2
  <2> HIDE DEF it
  <2>7. Folds(it, b, g, 1..(m + 1))
    BY <2>6 DEF Folds
  <2>8. QED
    BY <2>5, <2>7 DEF HasFold
<1>3. \A m \in Nat : m \in U
  <2> HIDE DEF U
  <2>1. QED
    BY <1>1, <1>2, NatInduct
<1>4. QED
  BY <1>3

(* Whatever function the recursion has chosen, as far as its values are    *)
(* known to be in T, is computed by going through the numbers from the     *)
(* first to the last.                                                      *)
FoldsIn(T, it, b, g, S) ==
  /\ it[{}] = b
  /\ \A s \in SUBSET S : s # {} /\ it[s \ {Max(s)}] \in T => it[s] = g[<<Max(s), it[s \ {Max(s)}]>>]

HasSteps(T, it, b, g, n) ==
  \E f \in [0..n -> T] :
    f[0] = b /\ (\A k \in 1..n : f[k] = g[<<k, f[k - 1]>>]) /\ f[n] = it[1..n]

LEMMA FoldSteps ==
  ASSUME NEW T, NEW b \in T, NEW n \in Nat, NEW g \in [(1..n) \X T -> T],
         NEW it, FoldsIn(T, it, b, g, 1..n)
  PROVE  HasSteps(T, it, b, g, n)
<1> DEFINE f == [k \in 0..n |-> it[1..k]]
           U == {k \in Nat : k <= n => f[k] \in T}
<1>1. ASSUME NEW k \in 1..n, f[k - 1] \in T
      PROVE  f[k] = g[<<k, f[k - 1]>>]
  <2>1. 1..k \in SUBSET (1..n) /\ k \in 1..k /\ k \in Nat
    OBVIOUS
  <2>2. Max(1..k) = k
    <3> DEFINE s == 1..k
    <3>1. s \in SUBSET (1..k) /\ k \in s /\ k \in Nat
      BY <2>1
    <3> HIDE DEF s
    <3>2. Max(s) = k
      BY <3>1, MaxOfUpTo
    <3>3. QED
      BY <3>2 DEF s
  <2>3. (1..k) \ {k} = 1..(k - 1)
    BY <2>1
  <2>4. f[k - 1] = it[1..(k - 1)] /\ f[k] = it[1..k]
    OBVIOUS
  <2>5. it[1..(k - 1)] \in T
    BY <1>1, <2>4
  <2>6. it[1..k] = g[<<k, it[1..(k - 1)]>>]
    <3>1. 1..k # {} /\ it[(1..k) \ {Max(1..k)}] \in T =>
            it[1..k] = g[<<Max(1..k), it[(1..k) \ {Max(1..k)}]>>]
      BY <2>1 DEF FoldsIn
    <3>2. 1..k # {}
      BY <2>1
    <3>3. QED
      BY <2>2, <2>3, <2>5, <3>1, <3>2
  <2> HIDE DEF f
  <2>7. QED
    BY <2>4, <2>6
<1>2. f[0] = b
  <2>1. 1..0 = {} /\ 0 \in 0..n
    OBVIOUS
  <2>2. QED
    BY <2>1 DEF FoldsIn
<1>3. \A k \in Nat : k \in U
  <2> HIDE DEF f
  <2>1. 0 \in U
    BY <1>2
  <2>2. ASSUME NEW k \in Nat, k \in U
        PROVE  k + 1 \in U
    <3>1. SUFFICES ASSUME k + 1 <= n PROVE f[k + 1] \in T
      OBVIOUS
    <3>2. f[k] \in T /\ k + 1 \in 1..n /\ (k + 1) - 1 = k
      BY <2>2, <3>1
    <3>3. f[k + 1] = g[<<k + 1, f[k]>>]
      <4>1. f[k + 1] = g[<<k + 1, f[(k + 1) - 1]>>]
        BY <1>1, <3>2
      <4>2. QED
        BY <3>2, <4>1
    <3>4. QED
      BY <3>2, <3>3
  <2> HIDE DEF U
  <2>3. QED
    BY <2>1, <2>2, NatInduct
<1>4. f \in [0..n -> T]
  <2>1. \A k \in 0..n : f[k] \in T
    <3> HIDE DEF f
    <3>1. QED
      BY <1>3
  <2>2. QED
    BY <2>1
<1>5. f[n] = it[1..n]
  OBVIOUS
<1>6. \A k \in 1..n : f[k] = g[<<k, f[k - 1]>>]
  <2> HIDE DEF f
  <2>1. \A k \in 1..n : k - 1 \in 0..n
    OBVIOUS
  <2>2. QED
    BY <1>1, <1>4, <2>1
<1> HIDE DEF f
<1>7. QED
  BY <1>2, <1>4, <1>5, <1>6 DEF HasSteps

-----------------------------------------------------------------------------
(* Trees.                                                                  *)

(* Every node of the tree N is reached from its root over the holders h.   *)
TreeOf(N, root, h) ==
  /\ root \in N
  /\ h \in [N -> N]
  /\ \A S \in SUBSET N :
       root \in S /\ (\A x \in N \ {root} : h[x] \in S => x \in S) => S = N

(* f is what the root has, handed down to the nodes of D.                  *)
PassedDown(f, D, root, h, first, step) ==
  \A x \in D : f[x] = IF x = root THEN first ELSE step[x][f[h[x]]]

(* A set of nodes with their holders, and a function that is handed down in it. *)
Upward(D, N, root, h) == D \subseteq N /\ \A x \in D \ {root} : h[x] \in D

LEMMA PassedDownUnique ==
  ASSUME NEW N, NEW root, NEW h, TreeOf(N, root, h), NEW first, NEW step,
         NEW D, NEW E, Upward(D, N, root, h), Upward(E, N, root, h),
         NEW f, PassedDown(f, D, root, h, first, step),
         NEW g, PassedDown(g, E, root, h, first, step)
  PROVE  \A x \in D \cap E : f[x] = g[x]
<1> DEFINE S == {x \in N : x \in D \cap E => f[x] = g[x]}
<1>1. root \in S
  BY DEF TreeOf, PassedDown
<1>2. ASSUME NEW x \in N \ {root}, h[x] \in S
      PROVE  x \in S
  <2>1. SUFFICES ASSUME x \in D, x \in E PROVE f[x] = g[x]
    OBVIOUS
  <2>2. h[x] \in D /\ h[x] \in E
    BY <2>1 DEF Upward
  <2>3. f[h[x]] = g[h[x]]
    BY <1>2, <2>2
  <2>4. f[x] = step[x][f[h[x]]] /\ g[x] = step[x][g[h[x]]]
    BY <2>1 DEF PassedDown
  <2>5. QED
    BY <2>3, <2>4
<1>3. S \subseteq N
  OBVIOUS
<1> HIDE DEF S
<1>4. S = N
  BY <1>1, <1>2, <1>3 DEF TreeOf
<1>5. QED
  BY <1>4 DEF S, Upward

(* There is one such function on all of the tree.                          *)
LEMMA PassedDownExists ==
  ASSUME NEW N, NEW root, NEW h, TreeOf(N, root, h),
         NEW V, NEW first \in V, NEW step \in [N -> [V -> V]]
  PROVE  \E f \in [N -> V] : PassedDown(f, N, root, h, first, step)
<1> DEFINE Has(x, D, f) == /\ x \in D /\ Upward(D, N, root, h)
                           /\ PassedDown(f, D, root, h, first, step)
           S == {x \in N : \E D \in SUBSET N : \E f \in [N -> V] : Has(x, D, f)}
<1>1. root \in S
  <2>1. root \in N
    BY DEF TreeOf
  <2>2. Has(root, {root}, [x \in N |-> first])
    BY <2>1 DEF Upward, PassedDown
  <2>3. [x \in N |-> first] \in [N -> V] /\ {root} \in SUBSET N
    BY <2>1
  <2> HIDE DEF Has
  <2>4. QED
    BY <2>1, <2>2, <2>3
<1>2. ASSUME NEW y \in N \ {root}, h[y] \in S
      PROVE  y \in S
  <2>1. PICK D \in SUBSET N, f \in [N -> V] : Has(h[y], D, f)
    BY <1>2
  <2>2. CASE y \in D
    <3>1. Has(y, D, f)
      BY <2>1, <2>2
    <3> HIDE DEF Has
    <3>2. QED
      BY <3>1
  <2>3. CASE y \notin D
    <3> DEFINE g == [f EXCEPT ![y] = step[y][f[h[y]]]]
    <3>1. h[y] \in N /\ f[h[y]] \in V /\ step[y][f[h[y]]] \in V
      BY DEF TreeOf
    <3>2. g \in [N -> V] /\ g[y] = step[y][f[h[y]]] /\ \A x \in N \ {y} : g[x] = f[x]
      BY <3>1
    <3>3. h[y] \in D /\ h[y] # y
      BY <2>1, <2>3
    <3> HIDE DEF g
    <3>4. Upward(D \cup {y}, N, root, h)
      BY <2>1, <3>3 DEF Upward
    <3>5. ASSUME NEW x \in D \cup {y}
          PROVE  g[x] = IF x = root THEN first ELSE step[x][g[h[x]]]
      <4>1. CASE x = y
        BY <4>1, <3>1, <3>2, <3>3
      <4>2. CASE x # y /\ x = root
        BY <4>2, <3>2, <2>1 DEF PassedDown
      <4>3. CASE x # y /\ x # root
        <5>1. x \in D /\ h[x] \in D /\ D \subseteq N
          BY <4>3, <2>1 DEF Upward
        <5>2. g[h[x]] = f[h[x]] /\ g[x] = f[x]
          BY <5>1, <4>3, <2>3, <3>2
        <5>3. f[x] = step[x][f[h[x]]]
          BY <5>1, <4>3, <2>1 DEF PassedDown
        <5>4. QED
          BY <4>3, <5>2, <5>3
      <4>4. QED
        BY <4>1, <4>2, <4>3
    <3>6. PassedDown(g, D \cup {y}, root, h, first, step)
      BY <3>5 DEF PassedDown
    <3>7. Has(y, D \cup {y}, g)
      BY <3>4, <3>6
    <3> HIDE DEF Has
    <3>8. QED
      BY <3>7, <3>2
  <2>4. QED
    BY <2>2, <2>3
<1>3. S \subseteq N
  OBVIOUS
<1>4. S = N
  <2> HIDE DEF S
  <2>1. QED
    BY <1>1, <1>2, <1>3 DEF TreeOf
<1> DEFINE Of(x) == CHOOSE f \in [N -> V] : \E D \in SUBSET N : Has(x, D, f)
           F == [x \in N |-> Of(x)[x]]
<1>5. ASSUME NEW x \in N
      PROVE  Of(x) \in [N -> V] /\ \E D \in SUBSET N : Has(x, D, Of(x))
  <2>1. \E f \in [N -> V] : \E D \in SUBSET N : Has(x, D, f)
    BY <1>4
  <2> HIDE DEF Has
  <2>2. QED
    BY <2>1
<1>6. F \in [N -> V]
  <2> HIDE DEF Of
  <2>1. \A x \in N : Of(x)[x] \in V
    BY <1>5
  <2>2. QED
    BY <2>1
<1>7. ASSUME NEW x \in N
      PROVE  F[x] = IF x = root THEN first ELSE step[x][F[h[x]]]
  <2>1. PICK D \in SUBSET N : Has(x, D, Of(x))
    BY <1>5
  <2>2. Of(x)[x] = IF x = root THEN first ELSE step[x][Of(x)[h[x]]]
    BY <2>1 DEF PassedDown
  <2>3. CASE x = root
    BY <2>2, <2>3
  <2>4. CASE x # root
    <3>1. h[x] \in D /\ h[x] \in N
      BY <2>1, <2>4 DEF Upward
    <3>2. PICK E \in SUBSET N : Has(h[x], E, Of(h[x]))
      BY <3>1, <1>5
    <3> HIDE DEF Of
    <3>3. Of(x)[h[x]] = Of(h[x])[h[x]]
      <4>1. h[x] \in D \cap E
        BY <3>1, <3>2
      <4>2. /\ Upward(D, N, root, h) /\ Upward(E, N, root, h)
            /\ PassedDown(Of(x), D, root, h, first, step)
            /\ PassedDown(Of(h[x]), E, root, h, first, step)
        BY <2>1, <3>2
      <4>3. \A z \in D \cap E : Of(x)[z] = Of(h[x])[z]
        BY <4>2, PassedDownUnique
      <4>4. QED
        BY <4>1, <4>3
    <3>4. F[x] = Of(x)[x] /\ F[h[x]] = Of(h[x])[h[x]]
      BY <3>1
    <3> HIDE DEF F
    <3>5. QED
      BY <2>2, <2>4, <3>3, <3>4
  <2>5. QED
    BY <2>3, <2>4
<1>8. PassedDown(F, N, root, h, first, step)
  BY <1>7 DEF PassedDown
<1> HIDE DEF F
<1>9. QED
  BY <1>6, <1>8
=============================================================================
