------------------------------- MODULE Basics -------------------------------
(***************************************************************************)
(* Facts about numbers, sequences and Selected that the proofs share.      *)
(***************************************************************************)
EXTENDS Selections, SequencesExt, FiniteSetTheorems, SequenceTheorems, TLAPS

-----------------------------------------------------------------------------
(* A set of naturals has a least element: the intervals from zero to its   *)
(* elements are well founded by inclusion.                                 *)
LEMMA LeastNat ==
  ASSUME NEW S \in SUBSET Nat, S # {}
  PROVE  \E m \in S : \A k \in S : m <= k
<1> DEFINE T == {0 .. m : m \in S}
<1>1. T \subseteq FiniteSubsetsOf(Nat)
  <2> SUFFICES ASSUME NEW m \in S PROVE 0 .. m \in FiniteSubsetsOf(Nat)
    OBVIOUS
  <2>1. IsFiniteSet(0 .. m)
    BY FS_Interval
  <2> QED BY <2>1 DEF FiniteSubsetsOf
<1>2. IsWellFoundedOn(StrictSubsetOrdering(Nat), FiniteSubsetsOf(Nat))
  BY FS_StrictSubsetOrderingWellFounded
<1>3. T # {}
  OBVIOUS
<1> HIDE DEF T
<1>4. \E x \in T : \A y \in T : ~ (<<y, x>> \in StrictSubsetOrdering(Nat))
  BY <1>1, <1>2, <1>3, WFMin
<1>5. PICK m \in S :
         \A k \in S : ~ (<<0 .. k, 0 .. m>> \in StrictSubsetOrdering(Nat))
  BY <1>4 DEF T
<1>6. ASSUME NEW k \in S, k < m PROVE FALSE
  <2>1. m \in 0 .. m /\ m \notin 0 .. k
    BY <1>6
  <2>2. 0 .. k \subseteq 0 .. m /\ 0 .. k # 0 .. m
    BY <1>6, <2>1
  <2>3. 0 .. k \in SUBSET Nat /\ 0 .. m \in SUBSET Nat
    OBVIOUS
  <2> QED BY <1>5, <2>2, <2>3 DEF StrictSubsetOrdering
<1> QED BY <1>6

(* Induction, over a set instead of a predicate.                           *)
LEMMA Induct ==
  ASSUME NEW S, 0 \in S, \A n \in Nat : n \in S => n + 1 \in S
  PROVE  \A n \in Nat : n \in S
<1> SUFFICES ASSUME Nat \ S # {} PROVE FALSE
  OBVIOUS
<1>1. PICK m \in Nat \ S : \A k \in Nat \ S : m <= k
  <2>1. Nat \ S \in SUBSET Nat
    OBVIOUS
  <2> QED BY <2>1, LeastNat
<1>2. m - 1 \in Nat /\ m - 1 \in S
  BY <1>1
<1> QED BY <1>2

(* A set of naturals with a bound has a greatest element.                  *)
LEMMA GreatestNat ==
  ASSUME NEW n \in Nat, NEW S \in SUBSET (0 .. n), S # {}
  PROVE  \E m \in S : \A k \in S : k <= m
<1> DEFINE T == {n - k : k \in S}
<1>1. T \in SUBSET Nat /\ T # {}
  <2>1. \A k \in S : n - k \in Nat
    OBVIOUS
  <2> QED BY <2>1
<1>2. PICK t \in T : \A u \in T : t <= u
  BY <1>1, LeastNat
<1>3. PICK m \in S : t = n - m
  OBVIOUS
<1>4. \A k \in S : n - m <= n - k
  BY <1>2, <1>3
<1> QED BY <1>4

-----------------------------------------------------------------------------
(* Sequences.                                                              *)

(* A sequence of at most one element.                                      *)
LEMMA Short ==
  ASSUME NEW S, NEW s \in Seq(S), Len(s) <= 1
  PROVE  \/ s = <<>> /\ Len(s) = 0
         \/ s # <<>> /\ Len(s) = 1
<1>1. Len(s) \in Nat /\ (s # <<>> => Len(s) # 0) /\ (s = <<>> => Len(s) = 0)
  BY EmptySeq
<1>2. \A n \in Nat : n <= 1 => n = 0 \/ n = 1
  OBVIOUS
<1> QED BY <1>1, <1>2

(* What is put at the end of two.                                          *)
LEMMA AppendConcat ==
  ASSUME NEW S, NEW r \in Seq(S), NEW q \in Seq(S), NEW e \in S
  PROVE  /\ r \o Append(q, e) = Append(r \o q, e)
         /\ r \o <<e>> = Append(r, e)
<1>1. /\ <<e>> \in Seq(S) /\ Append(q, e) = q \o <<e>>
      /\ Append(r \o q, e) = (r \o q) \o <<e>> /\ Append(r, e) = r \o <<e>>
      /\ r \o q \in Seq(S)
  BY AppendIsConcat, ConcatProperties
<1>2. (r \o q) \o <<e>> = r \o (q \o <<e>>)
  BY <1>1, ConcatAssociative
<1> QED BY <1>1, <1>2

(* What is taken from the head of one and appended to another.             *)
LEMMA HeadMoves ==
  ASSUME NEW S, NEW r \in Seq(S), NEW q \in Seq(S), q # <<>>
  PROVE  /\ Head(q) \in S /\ Tail(q) \in Seq(S)
         /\ <<Head(q)>> \o Tail(q) = q
         /\ Append(r, Head(q)) \o Tail(q) = r \o q
<1>1. Head(q) \in S /\ Tail(q) \in Seq(S) /\ <<Head(q)>> \in Seq(S)
  OBVIOUS
<1>2. <<Head(q)>> \o Tail(q) = q
  OBVIOUS
<1>3. (r \o <<Head(q)>>) \o Tail(q) = r \o (<<Head(q)>> \o Tail(q))
  BY <1>1, ConcatAssociative
<1>4. Append(r, Head(q)) = r \o <<Head(q)>>
  BY <1>1, AppendConcat
<1> QED BY <1>1, <1>2, <1>3, <1>4

(* The places of a sequence t that has the element e after those of s.     *)
Longer(t, s, e) ==
  /\ \A i \in 1 .. Len(s) : i \in 1 .. Len(t) /\ t[i] = s[i]
  /\ Len(s) + 1 \in 1 .. Len(t) /\ t[Len(s) + 1] = e
  /\ \A i \in 1 .. Len(t) : i \in 1 .. Len(s) \/ i = Len(s) + 1
  /\ \A i, j \in 1 .. Len(t) : i < j => i \in 1 .. Len(s)

LEMMA AppendLonger ==
  ASSUME NEW S, NEW s \in Seq(S), NEW e \in S
  PROVE  Longer(Append(s, e), s, e)
BY DEF Longer

(* A sequence and its two halves.                                          *)
LEMMA Halves ==
  ASSUME NEW S, NEW s \in Seq(S), NEW n \in 0 .. Len(s)
  PROVE  /\ SubSeq(s, 1, n) \in Seq(S) /\ Len(SubSeq(s, 1, n)) = n
         /\ SubSeq(s, n + 1, Len(s)) \in Seq(S)
         /\ Len(SubSeq(s, n + 1, Len(s))) = Len(s) - n
         /\ \A i \in 1 .. Len(s) - n : SubSeq(s, n + 1, Len(s))[i] = s[n + i]
         /\ SubSeq(s, 1, n) \o SubSeq(s, n + 1, Len(s)) = s
<1> DEFINE a == SubSeq(s, 1, n)
           b == SubSeq(s, n + 1, Len(s))
<1>1. a \in Seq(S) /\ Len(a) = n /\ \A i \in 1 .. n : a[i] = s[i]
  OBVIOUS
<1>2. /\ b \in Seq(S) /\ Len(b) = Len(s) - n
      /\ \A i \in 1 .. Len(s) - n : b[i] = s[n + i]
  OBVIOUS
<1> HIDE DEF a, b
<1>3. /\ a \o b \in Seq(S) /\ Len(a \o b) = Len(s)
      /\ \A i \in 1 .. Len(s) : (a \o b)[i] = IF i <= n THEN a[i] ELSE b[i - n]
  BY <1>1, <1>2
<1>4. ASSUME NEW i \in 1 .. Len(s) PROVE (a \o b)[i] = s[i]
  <2>1. CASE i <= n
    <3>1. i \in 1 .. n
      BY <2>1
    <3> QED BY <2>1, <3>1, <1>1, <1>3
  <2>2. CASE ~(i <= n)
    <3>1. i - n \in 1 .. Len(s) - n /\ n + (i - n) = i
      BY <2>2
    <3> QED BY <2>2, <3>1, <1>2, <1>3
  <2> QED BY <2>1, <2>2
<1>5. a \o b = s
  BY <1>3, <1>4, SeqEqual
<1> QED BY <1>1, <1>2, <1>5 DEF a, b

(* What is taken from the front of one and put behind another.             *)
LEMMA FrontMoves ==
  ASSUME NEW S
  PROVE  \A r, s \in Seq(S) : \A n \in 0 .. Len(s) :
           /\ r \o SubSeq(s, 1, n) \in Seq(S)
           /\ Len(r \o SubSeq(s, 1, n)) = Len(r) + n
           /\ (r \o SubSeq(s, 1, n)) \o SubSeq(s, n + 1, Len(s)) = r \o s
<1>0. \A p, q, t \in Seq(S) : (p \o q) \o t = p \o (q \o t)
  BY ConcatAssociative
<1> TAKE r, s \in Seq(S)
<1> TAKE n \in 0 .. Len(s)
<1> DEFINE a == SubSeq(s, 1, n)
           b == SubSeq(s, n + 1, Len(s))
<1>1. a \in Seq(S) /\ b \in Seq(S)
  BY Halves
<1>2. Len(a) = n /\ a \o b = s
  BY Halves
<1>3. \A p, q \in Seq(S) : p \o q \in Seq(S) /\ Len(p \o q) = Len(p) + Len(q)
  BY ConcatProperties
<1> HIDE DEF a, b
<1>4. (r \o a) \o b = r \o (a \o b)
  BY <1>0, <1>1, Zenon
<1>5. r \o a \in Seq(S) /\ Len(r \o a) = Len(r) + Len(a)
  BY <1>1, <1>3, Zenon
<1> QED BY <1>1, <1>4, <1>2, <1>5, Zenon DEF a, b

LEMMA RangeOf ==
  ASSUME NEW S, NEW s \in Seq(S)
  PROVE  /\ Range(s) = {s[i] : i \in 1 .. Len(s)}
         /\ Range(s) \subseteq S
BY DEF Range

LEMMA RangeAppend ==
  ASSUME NEW S, NEW s \in Seq(S), NEW e \in S
  PROVE  Range(Append(s, e)) = Range(s) \cup {e}
<1>1. /\ Append(s, e) \in Seq(S) /\ Len(Append(s, e)) = Len(s) + 1
      /\ \A i \in 1 .. Len(s) : Append(s, e)[i] = s[i]
      /\ Append(s, e)[Len(s) + 1] = e
  OBVIOUS
<1>2. 1 .. Len(s) + 1 = (1 .. Len(s)) \cup {Len(s) + 1}
  OBVIOUS
<1>3. Range(Append(s, e)) = {Append(s, e)[i] : i \in 1 .. Len(s) + 1}
  BY <1>1, RangeOf
<1> QED BY <1>1, <1>2, <1>3, RangeOf

Injective(s) == \A i, j \in 1 .. Len(s) : s[i] = s[j] => i = j

LEMMA InjectiveAppend ==
  ASSUME NEW S, NEW s \in Seq(S), NEW e \in S, Injective(s), e \notin Range(s)
  PROVE  Injective(Append(s, e))
<1>1. /\ Append(s, e) \in Seq(S) /\ Len(Append(s, e)) = Len(s) + 1
      /\ \A i \in 1 .. Len(s) : Append(s, e)[i] = s[i]
      /\ Append(s, e)[Len(s) + 1] = e
  OBVIOUS
<1>2. \A i \in 1 .. Len(s) : s[i] # e
  BY RangeOf
<1> QED BY <1>1, <1>2 DEF Injective

LEMMA InjectiveConcat ==
  ASSUME NEW S, NEW s \in Seq(S), NEW t \in Seq(S), Injective(s), Injective(t),
         Range(s) \cap Range(t) = {}
  PROVE  Injective(s \o t)
<1>1. /\ s \o t \in Seq(S) /\ Len(s \o t) = Len(s) + Len(t)
      /\ \A i \in 1 .. Len(s \o t) :
            (s \o t)[i] = IF i <= Len(s) THEN s[i] ELSE t[i - Len(s)]
  OBVIOUS
<1>2. \A i \in 1 .. Len(s), j \in 1 .. Len(t) : s[i] # t[j]
  <2>1. /\ Range(s) = {s[i] : i \in 1 .. Len(s)}
        /\ Range(t) = {t[i] : i \in 1 .. Len(t)}
    BY RangeOf
  <2> QED BY <2>1
<1> QED BY <1>1, <1>2 DEF Injective

LEMMA RangeConcat ==
  ASSUME NEW S, NEW s \in Seq(S), NEW t \in Seq(S)
  PROVE  Range(s \o t) = Range(s) \cup Range(t)
<1>1. /\ s \o t \in Seq(S) /\ Len(s \o t) = Len(s) + Len(t)
      /\ \A i \in 1 .. Len(s \o t) :
            (s \o t)[i] = IF i <= Len(s) THEN s[i] ELSE t[i - Len(s)]
  OBVIOUS
<1>2. \A i \in 1 .. Len(s) : i \in 1 .. Len(s \o t) /\ (s \o t)[i] = s[i]
  BY <1>1
<1>3. \A i \in 1 .. Len(t) : /\ i + Len(s) \in 1 .. Len(s \o t)
                             /\ (s \o t)[i + Len(s)] = t[i]
  BY <1>1
<1>4. \A i \in 1 .. Len(s \o t) : \/ i \in 1 .. Len(s)
                                  \/ i - Len(s) \in 1 .. Len(t)
  BY <1>1
<1>5. /\ Range(s) = {s[i] : i \in 1 .. Len(s)}
      /\ Range(t) = {t[i] : i \in 1 .. Len(t)}
      /\ Range(s \o t) = {(s \o t)[i] : i \in 1 .. Len(s \o t)}
  BY <1>1, RangeOf
<1>6. Range(s) \subseteq Range(s \o t) /\ Range(t) \subseteq Range(s \o t)
  BY <1>2, <1>3, <1>5
<1>7. Range(s \o t) \subseteq Range(s) \cup Range(t)
  <2> SUFFICES ASSUME NEW i \in 1 .. Len(s \o t)
               PROVE  (s \o t)[i] \in Range(s) \cup Range(t)
    BY <1>5
  <2> QED BY <1>1, <1>4, <1>5
<1> QED BY <1>6, <1>7

(* There are as many elements as places, if each is there once.            *)
LEMMA InjectiveCardinality ==
  ASSUME NEW S, NEW s \in Seq(S), Injective(s)
  PROVE  IsFiniteSet(Range(s)) /\ Cardinality(Range(s)) = Len(s)
<1>1. s \in Bijection(1 .. Len(s), Range(s))
  <2>1. s \in [1 .. Len(s) -> Range(s)]
    BY RangeOf
  <2>2. \A e \in Range(s) : \E i \in 1 .. Len(s) : s[i] = e
    BY RangeOf
  <2> QED BY <2>1, <2>2 DEF Bijection, Injection, Surjection, Injective, IsInjective
<1>2. ExistsBijection(1 .. Len(s), Range(s))
  BY <1>1 DEF ExistsBijection
<1> QED BY <1>2, FS_NatBijection, FS_CountingElements

(* What is left when one place of an injective sequence is removed.        *)
LEMMA RemoveAtShape ==
  ASSUME NEW S, NEW s \in Seq(S), NEW c \in 1 .. Len(s)
  PROVE  /\ RemoveAt(s, c) \in Seq(S)
         /\ Len(RemoveAt(s, c)) = Len(s) - 1
         /\ \A i \in 1 .. Len(s) - 1 :
               RemoveAt(s, c)[i] = IF i < c THEN s[i] ELSE s[i + 1]
<1>1. /\ SubSeq(s, 1, c - 1) \in Seq(S)
      /\ Len(SubSeq(s, 1, c - 1)) = c - 1
      /\ \A i \in 1 .. c - 1 : SubSeq(s, 1, c - 1)[i] = s[i]
  OBVIOUS
<1>2. /\ SubSeq(s, c + 1, Len(s)) \in Seq(S)
      /\ Len(SubSeq(s, c + 1, Len(s))) = Len(s) - c
      /\ \A i \in 1 .. Len(s) - c : SubSeq(s, c + 1, Len(s))[i] = s[c + i]
  OBVIOUS
<1> DEFINE a == SubSeq(s, 1, c - 1)
           b == SubSeq(s, c + 1, Len(s))
<1>3. RemoveAt(s, c) = a \o b
  BY DEF RemoveAt
<1>4. a \in Seq(S) /\ b \in Seq(S) /\ Len(a) = c - 1 /\ Len(b) = Len(s) - c
  BY <1>1, <1>2
<1>5. /\ a \o b \in Seq(S) /\ Len(a \o b) = Len(a) + Len(b)
      /\ \A i \in 1 .. Len(a) + Len(b) :
            (a \o b)[i] = IF i <= Len(a) THEN a[i] ELSE b[i - Len(a)]
  BY <1>4, ConcatProperties
<1>6. /\ \A i \in 1 .. c - 1 : a[i] = s[i]
      /\ \A i \in 1 .. Len(s) - c : b[i] = s[c + i]
  BY <1>1, <1>2
<1> HIDE DEF a, b
<1>7. ASSUME NEW i \in 1 .. Len(s) - 1
      PROVE  (a \o b)[i] = IF i < c THEN s[i] ELSE s[i + 1]
  <2>1. CASE i < c
    BY <1>6, <1>4, <1>5, <2>1
  <2>2. CASE ~(i < c)
    <3>1. i - (c - 1) \in 1 .. Len(s) - c /\ c + (i - (c - 1)) = i + 1
      BY <2>2
    <3>2. (a \o b)[i] = b[i - (c - 1)]
      <4>1. Len(a) = c - 1 /\ ~(i <= c - 1) /\ i \in 1 .. Len(a) + Len(b)
        BY <1>4, <2>2
      <4> QED BY <1>5, <4>1, Zenon
    <3> QED BY <1>6, <2>2, <3>1, <3>2
  <2> QED BY <2>1, <2>2
<1> QED BY <1>3, <1>4, <1>5, <1>7

LEMMA RemoveAtInjective ==
  ASSUME NEW S, NEW s \in Seq(S), NEW c \in 1 .. Len(s), Injective(s)
  PROVE  /\ Injective(RemoveAt(s, c))
         /\ Range(RemoveAt(s, c)) = Range(s) \ {s[c]}
<1>1. /\ RemoveAt(s, c) \in Seq(S)
      /\ Len(RemoveAt(s, c)) = Len(s) - 1
      /\ \A i \in 1 .. Len(s) - 1 :
            RemoveAt(s, c)[i] = IF i < c THEN s[i] ELSE s[i + 1]
  BY RemoveAtShape
<1>2. Injective(RemoveAt(s, c))
  <2> DEFINE r == RemoveAt(s, c)
             n == Len(s)
  <2>1. /\ r \in Seq(S) /\ Len(r) = n - 1 /\ n \in Nat
        /\ \A i \in 1 .. n - 1 : r[i] = s[IF i < c THEN i ELSE i + 1]
    BY <1>1
  <2>2. c \in 1 .. n /\ \A i, j \in 1 .. n : s[i] = s[j] => i = j
    BY DEF Injective
  <2> HIDE DEF r, n
  <2>3. ASSUME NEW i \in 1 .. n - 1, NEW j \in 1 .. n - 1, r[i] = r[j]
        PROVE  i = j
    <3> DEFINE k == IF i < c THEN i ELSE i + 1
               l == IF j < c THEN j ELSE j + 1
    <3>1. k \in 1 .. n /\ l \in 1 .. n
      BY <2>1, <2>2
    <3>2. s[k] = s[l]
      BY <2>1, <2>3
    <3>3. k = l
      BY <2>2, <3>1, <3>2, Zenon
    <3> QED BY <2>1, <2>2, <3>3
  <2>4. DOMAIN r = 1 .. n - 1
    BY <2>1
  <2>5. Injective(r)
    <3>1. \A i, j \in DOMAIN r : r[i] = r[j] => i = j
      BY <2>3, <2>4, Zenon
    <3> QED BY <3>1 DEF Injective
  <2> QED BY <2>5 DEF r
<1>3. /\ Range(s) = {s[i] : i \in 1 .. Len(s)}
      /\ Range(RemoveAt(s, c)) = {RemoveAt(s, c)[i] : i \in 1 .. Len(s) - 1}
  BY <1>1, RangeOf
<1>4. ASSUME NEW i \in 1 .. Len(s) - 1
      PROVE  RemoveAt(s, c)[i] \in Range(s) \ {s[c]}
  BY <1>1, <1>3 DEF Injective
<1>5. ASSUME NEW i \in 1 .. Len(s), i # c
      PROVE  s[i] \in Range(RemoveAt(s, c))
  <2>1. i < c => i \in 1 .. Len(s) - 1 /\ RemoveAt(s, c)[i] = s[i]
    BY <1>1
  <2>2. i > c => i - 1 \in 1 .. Len(s) - 1 /\ RemoveAt(s, c)[i - 1] = s[i]
    BY <1>1
  <2> QED BY <1>3, <1>5, <2>1, <2>2
<1> QED BY <1>2, <1>3, <1>4, <1>5

-----------------------------------------------------------------------------
(* Selected.                                                               *)

Keeps(f, s, S, n) ==
  f = [i \in 0 .. n |-> IF i = 0 THEN <<>>
                        ELSE IF s[i] \in S THEN Append(f[i - 1], s[i])
                        ELSE f[i - 1]]

LEMMA KeepsExists ==
  ASSUME NEW s, NEW S, NEW n \in Nat
  PROVE  \E f : Keeps(f, s, S, n)
<1> DEFINE N == {m \in Nat : \E f : Keeps(f, s, S, m)}
<1>1. 0 \in N
  <2>1. Keeps([i \in 0 .. 0 |-> <<>>], s, S, 0)
    BY DEF Keeps
  <2> QED BY <2>1
<1>2. ASSUME NEW m \in Nat, m \in N PROVE m + 1 \in N
  <2>1. PICK f : Keeps(f, s, S, m)
    BY <1>2
  <2> DEFINE g == [i \in 0 .. m + 1 |->
                     IF i <= m THEN f[i]
                     ELSE IF s[i] \in S THEN Append(f[i - 1], s[i]) ELSE f[i - 1]]
  <2>2. ASSUME NEW i \in 0 .. m + 1
        PROVE  g[i] = IF i = 0 THEN <<>>
                      ELSE IF s[i] \in S THEN Append(g[i - 1], s[i]) ELSE g[i - 1]
    <3>1. i = 0 \/ (i - 1 \in 0 .. m + 1 /\ i - 1 <= m)
      OBVIOUS
    <3>2. i # 0 => g[i - 1] = f[i - 1]
      BY <3>1
    <3>3. i <= m => f[i] = IF i = 0 THEN <<>>
                           ELSE IF s[i] \in S THEN Append(f[i - 1], s[i])
                           ELSE f[i - 1]
      <4> HIDE DEF g
      <4> SUFFICES ASSUME i <= m
                   PROVE  f[i] = IF i = 0 THEN <<>>
                                 ELSE IF s[i] \in S THEN Append(f[i - 1], s[i])
                                 ELSE f[i - 1]
        OBVIOUS
      <4>1. i \in 0 .. m
        OBVIOUS
      <4> QED BY <2>1, <4>1 DEF Keeps
    <3> QED BY <3>2, <3>3
  <2>3. Keeps(g, s, S, m + 1)
    BY <2>2 DEF Keeps
  <2> QED BY <2>3
<1> HIDE DEF N
<1>3. n \in N
  BY <1>1, <1>2, Induct
<1> QED BY <1>3 DEF N

LEMMA SelectedKeeps ==
  ASSUME NEW s, NEW S, Len(s) \in Nat
  PROVE  \E f : Keeps(f, s, S, Len(s)) /\ Selected(s, S) = f[Len(s)]
<1> DEFINE f == CHOOSE f : Keeps(f, s, S, Len(s))
<1>1. Keeps(f, s, S, Len(s))
  BY KeepsExists
<1>2. Selected(s, S) = f[Len(s)]
  BY DEF Selected, Keeps
<1> QED BY <1>1, <1>2

LEMMA SelectedEmpty == ASSUME NEW S PROVE Selected(<<>>, S) = <<>>
<1>1. Len(<<>>) = 0
  OBVIOUS
<1> QED BY <1>1, SelectedKeeps DEF Keeps

LEMMA SelectedAppend ==
  ASSUME NEW T, NEW s \in Seq(T), NEW e \in T, NEW S
  PROVE  Selected(Append(s, e), S) =
           IF e \in S THEN Append(Selected(s, S), e) ELSE Selected(s, S)
<1>1. /\ Len(s) \in Nat /\ Len(Append(s, e)) = Len(s) + 1
      /\ \A i \in 1 .. Len(s) : s[i] = Append(s, e)[i]
      /\ Append(s, e)[Len(s) + 1] = e
  OBVIOUS
<1>2. PICK f : Keeps(f, s, S, Len(s)) /\ Selected(s, S) = f[Len(s)]
  BY <1>1, SelectedKeeps
<1>3. PICK g : /\ Keeps(g, Append(s, e), S, Len(s) + 1)
               /\ Selected(Append(s, e), S) = g[Len(s) + 1]
  <2>1. Len(Append(s, e)) \in Nat
    BY <1>1
  <2>2. PICK g : /\ Keeps(g, Append(s, e), S, Len(Append(s, e)))
                 /\ Selected(Append(s, e), S) = g[Len(Append(s, e))]
    BY <2>1, SelectedKeeps
  <2> QED BY <1>1, <2>2
<1>4. f[Len(s)] = g[Len(s)]
  <2> DEFINE N == {k \in Nat : k <= Len(s) => f[k] = g[k]}
  <2>1. \A i \in 0 .. Len(s) : f[i] = IF i = 0 THEN <<>>
                                      ELSE IF s[i] \in S THEN Append(f[i - 1], s[i])
                                      ELSE f[i - 1]
    BY <1>2 DEF Keeps
  <2>2. \A i \in 0 .. Len(s) :
           g[i] = IF i = 0 THEN <<>>
                  ELSE IF Append(s, e)[i] \in S THEN Append(g[i - 1], Append(s, e)[i])
                  ELSE g[i - 1]
    <3>1. \A i \in 0 .. Len(s) : i \in 0 .. Len(s) + 1
      BY <1>1
    <3> QED BY <1>3, <3>1 DEF Keeps
  <2>3. 0 \in N
    BY <2>1, <2>2, <1>1
  <2>4. ASSUME NEW k \in Nat, k \in N PROVE k + 1 \in N
    <3> SUFFICES ASSUME k + 1 <= Len(s) PROVE f[k + 1] = g[k + 1]
      OBVIOUS
    <3>1. /\ k + 1 \in 1 .. Len(s) /\ k + 1 \in 0 .. Len(s)
          /\ (k + 1) - 1 = k /\ k <= Len(s) /\ k + 1 # 0
      BY <1>1
    <3>2. f[k] = g[k] /\ s[k + 1] = Append(s, e)[k + 1]
      BY <2>4, <3>1, <1>1
    <3> QED BY <2>1, <2>2, <3>1, <3>2
  <2> HIDE DEF N
  <2>5. Len(s) \in N
    BY <1>1, <2>3, <2>4, Induct
  <2> QED BY <2>5, <1>1 DEF N
<1>5. g[Len(s) + 1] = IF e \in S THEN Append(g[Len(s)], e) ELSE g[Len(s)]
  <2>1. Len(s) + 1 \in 0 .. Len(s) + 1 /\ Len(s) + 1 # 0 /\ (Len(s) + 1) - 1 = Len(s)
    BY <1>1
  <2> QED BY <1>1, <1>3, <2>1 DEF Keeps
<1> QED BY <1>2, <1>3, <1>4, <1>5

(* What is selected, of a sequence and of one without repetition.          *)
LEMMA SelectedShape ==
  ASSUME NEW T, NEW S, NEW s \in Seq(T)
  PROVE  /\ Selected(s, S) \in Seq(T)
         /\ Range(Selected(s, S)) = Range(s) \cap S
         /\ Injective(s) => Injective(Selected(s, S))
<1> DEFINE Good(q) == /\ Selected(q, S) \in Seq(T)
                      /\ Range(Selected(q, S)) = Range(q) \cap S
                      /\ Injective(q) => Injective(Selected(q, S))
           N == {n \in Nat : \A q \in Seq(T) : Len(q) = n => Good(q)}
<1>1. 0 \in N
  <2> SUFFICES ASSUME NEW q \in Seq(T), Len(q) = 0 PROVE Good(q)
    OBVIOUS
  <2>1. q = <<>>
    OBVIOUS
  <2>2. Selected(q, S) = <<>>
    BY <2>1, SelectedEmpty
  <2>3. Range(<<>>) = {}
    BY DEF Range
  <2> QED BY <2>1, <2>2, <2>3
<1>2. ASSUME NEW n \in Nat, n \in N PROVE n + 1 \in N
  <2> SUFFICES ASSUME NEW q \in Seq(T), Len(q) = n + 1 PROVE Good(q)
    OBVIOUS
  <2>1. PICK p \in Seq(T), e \in T : q = Append(p, e)
    <3>1. q # <<>>
      OBVIOUS
    <3> QED BY <3>1, SequenceEmptyOrAppend
  <2>2. Len(p) = n /\ Good(p)
    BY <1>2, <2>1
  <2>3. Selected(q, S) = IF e \in S THEN Append(Selected(p, S), e) ELSE Selected(p, S)
    BY <2>1, SelectedAppend
  <2>4. Range(q) = Range(p) \cup {e}
    BY <2>1, RangeAppend
  <2>5. ASSUME Injective(q)
        PROVE  Injective(p) /\ e \notin Range(p)
    <3>1. /\ \A i \in 1 .. n : q[i] = p[i] /\ i \in 1 .. Len(q)
          /\ q[n + 1] = e /\ n + 1 \in 1 .. Len(q)
      BY <2>1, <2>2
    <3>2. Injective(p)
      BY <2>2, <2>5, <3>1 DEF Injective
    <3>3. \A i \in 1 .. n : p[i] # e
      BY <2>5, <3>1 DEF Injective
    <3> QED BY <2>2, <3>2, <3>3, RangeOf
  <2>6. CASE e \in S
    <3>1. Range(Selected(q, S)) = Range(Selected(p, S)) \cup {e}
      BY <2>2, <2>3, <2>6, RangeAppend
    <3>2. Injective(q) => Injective(Selected(q, S))
      BY <2>2, <2>3, <2>5, <2>6, InjectiveAppend
    <3> QED BY <2>2, <2>3, <2>4, <2>6, <3>1, <3>2
  <2>7. CASE e \notin S
    BY <2>2, <2>3, <2>4, <2>5, <2>7
  <2> QED BY <2>6, <2>7
<1>3. Len(s) \in Nat
  OBVIOUS
<1> HIDE DEF N
<1>4. Len(s) \in N
  BY <1>1, <1>2, <1>3, Induct
<1> QED BY <1>4 DEF N

(* What is selected of two sequences, one after the other.                 *)
LEMMA SelectedConcat ==
  ASSUME NEW T, NEW S, NEW s \in Seq(T), NEW t \in Seq(T)
  PROVE  Selected(s \o t, S) = Selected(s, S) \o Selected(t, S)
<1> DEFINE N == {n \in Nat : \A q \in Seq(T) :
                    Len(q) = n => Selected(s \o q, S) = Selected(s, S) \o Selected(q, S)}
<1>1. 0 \in N
  <2> SUFFICES ASSUME NEW q \in Seq(T), Len(q) = 0
               PROVE  Selected(s \o q, S) = Selected(s, S) \o Selected(q, S)
    OBVIOUS
  <2>1. q = <<>>
    OBVIOUS
  <2>2. s \o <<>> = s /\ Selected(s, S) \o <<>> = Selected(s, S)
    BY ConcatEmptySeq, SelectedShape
  <2> QED BY <2>1, <2>2, SelectedEmpty
<1>2. ASSUME NEW n \in Nat, n \in N PROVE n + 1 \in N
  <2> SUFFICES ASSUME NEW q \in Seq(T), Len(q) = n + 1
               PROVE  Selected(s \o q, S) = Selected(s, S) \o Selected(q, S)
    OBVIOUS
  <2>1. PICK p \in Seq(T), e \in T : q = Append(p, e)
    <3>1. q # <<>>
      OBVIOUS
    <3> QED BY <3>1, SequenceEmptyOrAppend
  <2> DEFINE a == Selected(s, S)
             b == Selected(p, S)
  <2>2. Len(p) = n /\ Selected(s \o p, S) = a \o b
    BY <1>2, <2>1
  <2>3. a \in Seq(T) /\ b \in Seq(T) /\ s \o p \in Seq(T)
    BY SelectedShape
  <2>4. s \o q = Append(s \o p, e)
    BY <2>1, AppendConcat
  <2>5. /\ Selected(q, S) = IF e \in S THEN Append(b, e) ELSE b
        /\ Selected(s \o q, S) = IF e \in S THEN Append(a \o b, e) ELSE a \o b
    <3> DEFINE c == s \o p
    <3>1. Selected(Append(p, e), S) = IF e \in S THEN Append(b, e) ELSE b
      BY SelectedAppend
    <3>2. c \in Seq(T)
      BY <2>3
    <3> HIDE DEF b, c
    <3>3. Selected(Append(c, e), S) = IF e \in S THEN Append(Selected(c, S), e)
                                      ELSE Selected(c, S)
      BY <3>2, SelectedAppend
    <3> QED BY <2>1, <2>2, <2>4, <3>1, <3>3 DEF b, c
  <2> HIDE DEF a, b
  <2>6. a \o Append(b, e) = Append(a \o b, e)
    BY <2>3, AppendConcat
  <2>7. Selected(s \o q, S) = a \o Selected(q, S)
    BY <2>5, <2>6
  <2> QED BY <2>7 DEF a
<1> HIDE DEF N
<1>3. Len(t) \in N
  <2>1. \A n \in Nat : n \in N
    BY <1>1, <1>2, Induct
  <2> QED BY <2>1
<1> QED BY <1>3 DEF N

LEMMA Associates ==
  ASSUME NEW S
  PROVE  \A p, q, r \in Seq(S) : (p \o q) \o r = p \o (q \o r)
BY ConcatAssociative

(* A prefix, and what it lacks.                                            *)
LEMMA PrefixRest ==
  ASSUME NEW S, NEW s \in Seq(S), NEW t \in Seq(S)
  PROVE  IsPrefix(s, t) <=> \E r \in Seq(S) : t = s \o r
<1>1. ASSUME IsPrefix(s, t) PROVE \E r \in Seq(S) : t = s \o r
  <2>1. Len(s) \in 0 .. Len(t) /\ SubSeq(s, 1, Len(s)) = SubSeq(t, 1, Len(s))
    BY <1>1 DEF IsPrefix
  <2>2. SubSeq(s, 1, Len(s)) = s
    BY SubSeqFull
  <2>3. /\ SubSeq(t, Len(s) + 1, Len(t)) \in Seq(S)
        /\ SubSeq(t, 1, Len(s)) \o SubSeq(t, Len(s) + 1, Len(t)) = t
    BY <2>1, Halves
  <2>4. t = s \o SubSeq(t, Len(s) + 1, Len(t))
    BY <2>1, <2>2, <2>3
  <2> QED BY <2>3, <2>4
<1>2. ASSUME NEW r \in Seq(S), t = s \o r PROVE IsPrefix(s, t)
  <2>1. /\ Len(t) = Len(s) + Len(r) /\ Len(s) \in Nat /\ Len(r) \in Nat
        /\ \A i \in 1 .. Len(s) : t[i] = s[i]
    BY <1>2, ConcatProperties
  <2>2. SubSeq(s, 1, Len(s)) = SubSeq(t, 1, Len(s))
    BY <2>1
  <2> QED BY <2>1, <2>2 DEF IsPrefix
<1> QED BY <1>1, <1>2

(* A sequence from i on, at j.                                             *)
LEMMA Cut ==
  ASSUME NEW S, NEW s \in Seq(S), NEW i \in 0 .. Len(s), NEW j \in i .. Len(s)
  PROVE  /\ SubSeq(s, i + 1, j) \in Seq(S) /\ Len(SubSeq(s, i + 1, j)) = j - i
         /\ SubSeq(s, j + 1, Len(s)) \in Seq(S)
         /\ Len(SubSeq(s, j + 1, Len(s))) = Len(s) - j
         /\ SubSeq(s, i + 1, Len(s)) = SubSeq(s, i + 1, j) \o SubSeq(s, j + 1, Len(s))
         /\ \A k \in 1 .. (j - i) : SubSeq(s, i + 1, j)[k] = s[i + k]
<1>1. i + 1 \in 1 .. Len(s) + 1 /\ j \in ((i + 1) - 1) .. Len(s) /\ Len(s) \in j .. Len(s)
  OBVIOUS
<1>2. SubSeq(s, i + 1, Len(s)) = SubSeq(s, i + 1, j) \o SubSeq(s, j + 1, Len(s))
  BY <1>1, ConcatAdjacentSubSeq
<1>3. /\ SubSeq(s, i + 1, j) \in Seq(S) /\ Len(SubSeq(s, i + 1, j)) = j - i
      /\ SubSeq(s, j + 1, Len(s)) \in Seq(S)
      /\ Len(SubSeq(s, j + 1, Len(s))) = Len(s) - j
      /\ \A k \in 1 .. (j - i) : SubSeq(s, i + 1, j)[k] = s[i + k]
  OBVIOUS
<1> QED BY <1>2, <1>3

(* Of three parts the first is a prefix of the whole, and so are two.      *)
LEMMA PartsArePrefixes ==
  ASSUME NEW S, NEW p \in Seq(S), NEW u \in Seq(S), NEW f \in Seq(S)
  PROVE  /\ IsPrefix(p \o u, f) => IsPrefix(p, f)
         /\ \A w \in Seq(S) : (p \o u) \o w = f => IsPrefix(p \o u, f)
<1>1. p \o u \in Seq(S)
  BY ConcatProperties
<1>2. ASSUME IsPrefix(p \o u, f) PROVE IsPrefix(p, f)
  <2>1. PICK r \in Seq(S) : f = (p \o u) \o r
    BY <1>1, <1>2, PrefixRest
  <2>2. f = p \o (u \o r) /\ u \o r \in Seq(S)
    <3>1. (p \o u) \o r = p \o (u \o r)
      BY <2>1, ConcatAssociative
    <3>2. u \o r \in Seq(S)
      BY ConcatProperties
    <3> QED BY <2>1, <3>1, <3>2, Zenon
  <2> QED BY <2>2, PrefixRest
<1>3. ASSUME NEW w \in Seq(S), (p \o u) \o w = f PROVE IsPrefix(p \o u, f)
  <2> DEFINE v == p \o u
  <2>1. v \in Seq(S) /\ f = v \o w
    BY <1>1, <1>3
  <2> HIDE DEF v
  <2>2. IsPrefix(v, f)
    BY <2>1, PrefixRest
  <2> QED BY <2>2 DEF v
<1> QED BY <1>2, <1>3
=============================================================================
