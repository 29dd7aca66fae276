----------------------------- MODULE DataLemmas -----------------------------
(***************************************************************************)
(* What the proofs of several modules need to know of numbers, sets and    *)
(* sequences: least and greatest elements, ranks and selections, sums over *)
(* sets and concatenations.  Induction is by a least counterexample: the   *)
(* theorems of the library that take a predicate are beyond the provers,   *)
(* those that take a set of the values that have it are not.               *)
(***************************************************************************)
EXTENDS Selection, SequencesExt, FiniteSetTheorems, TLAPS

-----------------------------------------------------------------------------
(* Least elements, and induction.                                          *)

\* A set of naturals that has an element has a least one: of its initial
\* segments up to that element, take one that strict inclusion cannot lessen.
LEMMA LeastNat ==
    ASSUME NEW S \in SUBSET Nat, S # {}
    PROVE  \E m \in S : \A k \in S : m <= k
<1>1. PICK b \in S : TRUE
  OBVIOUS
<1> DEFINE T == {0 .. k : k \in {k \in S : k <= b}}
<1>2. T \subseteq FiniteSubsetsOf(0 .. b)
  <2>1. ASSUME NEW k \in S, k <= b
        PROVE  0 .. k \in FiniteSubsetsOf(0 .. b)
    BY <2>1, <1>1, FS_Interval DEF FiniteSubsetsOf
  <2>2. QED
    BY <2>1
<1>3. T # {}
  BY <1>1
<1>4. PICK I \in T : \A J \in T : ~(<<J, I>> \in StrictSubsetOrdering(0 .. b))
  <2> HIDE DEF T
  <2>1. IsWellFoundedOn(StrictSubsetOrdering(0 .. b), FiniteSubsetsOf(0 .. b))
    BY FS_StrictSubsetOrderingWellFounded
  <2>2. QED
    BY <2>1, <1>2, <1>3, WFMin
<1>5. PICK m \in S : m <= b /\ I = 0 .. m
  BY <1>4
<1>6. ASSUME NEW k \in S, k < m
      PROVE  FALSE
  <2>1. k <= b /\ k \in Nat /\ m \in Nat /\ b \in Nat
    BY <1>1, <1>5, <1>6
  <2>2. 0 .. k \in T
    BY <2>1
  <2>3. 0 .. k \subseteq 0 .. m /\ 0 .. k # 0 .. m /\ 0 .. m \subseteq 0 .. b
    <3>1. m \in 0 .. m /\ m \notin 0 .. k
      BY <2>1, <1>6
    <3>2. QED
      BY <3>1, <2>1, <1>5, <1>6
  <2>4. <<0 .. k, I>> \in StrictSubsetOrdering(0 .. b)
    BY <2>3, <1>5 DEF StrictSubsetOrdering
  <2>5. QED
    BY <2>2, <2>4, <1>4
<1>7. QED
  BY <1>6

\* Min of a set of naturals is its least element.
LEMMA MinLeast ==
    ASSUME NEW S \in SUBSET Nat, S # {}
    PROVE  Min(S) \in S /\ \A k \in S : Min(S) <= k
  BY LeastNat DEF Min

\* The rank of an element among a finite set of naturals.
Rank(K, i) == Cardinality({j \in K : j <= i})

\* Ranks lie between 1 and the size of the set, and tell its elements apart.
LEMMA RankProperties ==
    ASSUME NEW K \in SUBSET Nat, IsFiniteSet(K)
    PROVE  /\ \A i \in K : Rank(K, i) \in 1 .. Cardinality(K)
           /\ \A i, j \in K : Rank(K, i) = Rank(K, j) => i = j
<1> DEFINE Below(i) == {j \in K : j <= i}
<1>0. \A x \in K : x \in Nat
  OBVIOUS
<1>1. ASSUME NEW i \in K
      PROVE  /\ IsFiniteSet(Below(i))
             /\ Rank(K, i) \in Nat
             /\ Rank(K, i) <= Cardinality(K)
             /\ Rank(K, i) # 0
  <2>1. Below(i) \subseteq K /\ i \in Below(i)
    OBVIOUS
  <2>2. IsFiniteSet(Below(i)) /\ Cardinality(Below(i)) <= Cardinality(K)
    BY <2>1, FS_Subset
  <2>3. Cardinality(Below(i)) \in Nat /\ Cardinality(Below(i)) # 0
    BY <2>1, <2>2, FS_CardinalityType, FS_EmptySet
  <2>4. QED
    BY <2>2, <2>3 DEF Rank
<1>2. ASSUME NEW i \in K, NEW j \in K, i < j
      PROVE  Rank(K, i) # Rank(K, j)
  <2>1. Below(i) \subseteq Below(j)
    <3>1. \A x \in K : x <= i => x <= j
      BY <1>0, <1>2
    <3>2. QED
      BY <3>1
  <2>2. j \in Below(j) /\ j \notin Below(i)
    BY <1>2
  <2>3. IsFiniteSet(Below(j))
    BY <1>1
  <2> HIDE DEF Below
  <2>4. Below(i) # Below(j)
    BY <2>2
  <2>5. Cardinality(Below(i)) # Cardinality(Below(j))
    BY <2>1, <2>3, <2>4, FS_Subset
  <2>6. QED
    BY <2>5 DEF Rank, Below
<1>3. Cardinality(K) \in Nat
  BY FS_CardinalityType
<1>4. \A i, j \in K : Rank(K, i) = Rank(K, j) => i = j
  <2> SUFFICES ASSUME NEW i \in K, NEW j \in K, i # j
               PROVE  Rank(K, i) # Rank(K, j)
    OBVIOUS
  <2>1. i < j \/ j < i
    OBVIOUS
  <2>2. CASE i < j
    BY <2>2, <1>2
  <2>3. CASE j < i
    BY <2>3, <1>2
  <2>4. QED
    BY <2>1, <2>2, <2>3
<1>5. ASSUME NEW i \in K
      PROVE  Rank(K, i) \in 1 .. Cardinality(K)
  <2>1. Rank(K, i) \in Nat /\ Rank(K, i) <= Cardinality(K) /\ Rank(K, i) # 0
    BY <1>1
  <2>2. QED
    BY <2>1, <1>3
<1>6. QED
  BY <1>4, <1>5

\* Every rank is taken: otherwise as many elements would share fewer ranks.
LEMMA RankOnto ==
    ASSUME NEW K \in SUBSET Nat, IsFiniteSet(K), NEW n \in 1 .. Cardinality(K)
    PROVE  \E i \in K : Rank(K, i) = n
<1> SUFFICES ASSUME \A i \in K : Rank(K, i) # n
             PROVE  FALSE
  OBVIOUS
<1> DEFINE T == (1 .. Cardinality(K)) \ {n}
           f == [i \in K |-> Rank(K, i)]
<1>1. Cardinality(K) \in Nat
  BY FS_CardinalityType
<1>2. f \in [K -> T]
  BY RankProperties
<1>3. IsFiniteSet(1 .. Cardinality(K)) /\ Cardinality(1 .. Cardinality(K)) = Cardinality(K)
  BY <1>1, FS_Interval
<1>4. IsFiniteSet(T) /\ Cardinality(T) = Cardinality(K) - 1
  BY <1>3, FS_RemoveElement
<1>5. Cardinality(T) < Cardinality(K)
  BY <1>4, <1>1
<1>6. \E x, y \in K : x # y /\ f[x] = f[y]
  <2> HIDE DEF T, f
  <2>1. QED
    BY <1>2, <1>4, <1>5, FS_PigeonHole
<1>7. QED
  BY <1>6, RankProperties

\* A greater element has a greater rank.
LEMMA RankOrder ==
    ASSUME NEW K \in SUBSET Nat, IsFiniteSet(K), NEW i \in K, NEW j \in K
    PROVE  i < j <=> Rank(K, i) < Rank(K, j)
<1>1. ASSUME NEW a \in K, NEW b \in K, a <= b
      PROVE  Rank(K, a) <= Rank(K, b)
  <2>1. \A x \in K : x \in Nat
    OBVIOUS
  <2>2. {x \in K : x <= a} \subseteq {x \in K : x <= b} /\ IsFiniteSet({x \in K : x <= b})
    <3>1. \A x \in K : x <= a => x <= b
      BY <1>1, <2>1
    <3>2. {x \in K : x <= b} \subseteq K
      OBVIOUS
    <3> QED BY <3>1, <3>2, FS_Subset
  <2>3. Cardinality({x \in K : x <= a}) <= Cardinality({x \in K : x <= b})
    BY <2>2, FS_Subset
  <2> QED BY <2>3 DEF Rank
<1>2. Rank(K, i) = Rank(K, j) => i = j
  BY RankProperties
<1>3. i \in Nat /\ j \in Nat /\ Rank(K, i) \in Nat /\ Rank(K, j) \in Nat
  <2>1. Rank(K, i) \in 1 .. Cardinality(K) /\ Rank(K, j) \in 1 .. Cardinality(K)
    BY RankProperties
  <2> QED BY <2>1
<1>4. i <= j => Rank(K, i) <= Rank(K, j)
  BY <1>1
<1>5. j <= i => Rank(K, j) <= Rank(K, i)
  BY <1>1
<1> QED BY <1>2, <1>3, <1>4, <1>5

LEMMA FiniteInduction ==
    ASSUME NEW S, IsFiniteSet(S), NEW Good, {} \in Good,
           \A T \in SUBSET S : \A x \in S \ T : T \in Good => T \cup {x} \in Good
    PROVE  S \in Good
<1> DEFINE Bad == (SUBSET S) \ Good
<1> SUFFICES ASSUME Bad # {} PROVE FALSE
  BY Zenon
<1>1. IsWellFoundedOn(StrictSubsetOrdering(S), SUBSET S)
  BY FS_StrictSubsetOrderingWellFounded, FS_FiniteSubsetsOfFinite
<1>2. PICK T \in Bad : \A U \in Bad : ~(<<U, T>> \in StrictSubsetOrdering(S))
  <2>1. Bad \subseteq SUBSET S
    OBVIOUS
  <2> HIDE DEF Bad
  <2> QED BY <1>1, <2>1, WFMin
<1>3. PICK x \in T : TRUE
  OBVIOUS
<1>4. T \ {x} \in SUBSET S /\ T \ {x} # T /\ x \in S \ (T \ {x}) /\ (T \ {x}) \cup {x} = T
  OBVIOUS
<1>5. <<T \ {x}, T>> \in StrictSubsetOrdering(S)
  BY <1>4 DEF StrictSubsetOrdering
<1>6. T \ {x} \in Good
  BY <1>2, <1>4, <1>5
<1> QED BY <1>4, <1>6

LEMMA NatSetInduction ==
    ASSUME NEW Good, 0 \in Good, \A n \in Nat : n \in Good => n + 1 \in Good
    PROVE  Nat \subseteq Good
<1> SUFFICES ASSUME Nat \ Good # {} PROVE FALSE
  OBVIOUS
<1>1. PICK m \in Nat \ Good : \A k \in Nat \ Good : m <= k
  BY LeastNat
<1>2. m - 1 \in Nat /\ (m - 1) + 1 = m /\ ~(m <= m - 1)
  <2>1. m # 0
    OBVIOUS
  <2> QED BY <2>1
<1>3. m - 1 \in Good
  BY <1>1, <1>2
<1> QED BY <1>2, <1>3

\* A finite set of integers that has an element has a least and a greatest one.
LEMMA ExtremeElements ==
    ASSUME NEW S \in SUBSET Int, IsFiniteSet(S), S # {}
    PROVE  /\ Min(S) \in S /\ \A k \in S : Min(S) <= k
           /\ Max(S) \in S /\ \A k \in S : Max(S) >= k
<1> DEFINE Low(T) == \E x \in T : \A y \in T : x <= y
           High(T) == \E x \in T : \A y \in T : x >= y
           Good == {T \in SUBSET S : T = {} \/ (Low(T) /\ High(T))}
<1>1. {} \in Good
  OBVIOUS
<1>2. ASSUME NEW T \in SUBSET S, NEW z \in S \ T, T \in Good
      PROVE  T \cup {z} \in Good
  <2>1. CASE T = {}
    <3>1. T \cup {z} = {z} /\ z \in Int
      BY <2>1
    <3> QED BY <3>1
  <2>2. CASE T # {}
    <3>1. PICK a \in T : \A y \in T : a <= y
      BY <1>2, <2>2
    <3>2. PICK b \in T : \A y \in T : b >= y
      BY <1>2, <2>2
    <3>3. a \in Int /\ b \in Int /\ z \in Int /\ \A y \in T : y \in Int
      OBVIOUS
    <3>4. Low(T \cup {z})
      <4>1. CASE a <= z
        BY <3>1, <4>1
      <4>2. CASE z <= a
        <5>1. \A y \in T \cup {z} : z <= y
          BY <3>1, <3>3, <4>2
        <5> QED BY <5>1
      <4> QED BY <3>3, <4>1, <4>2
    <3>5. High(T \cup {z})
      <4>1. CASE b >= z
        BY <3>2, <4>1
      <4>2. CASE z >= b
        <5>1. \A y \in T \cup {z} : z >= y
          BY <3>2, <3>3, <4>2
        <5> QED BY <5>1
      <4> QED BY <3>3, <4>1, <4>2
    <3> QED BY <3>4, <3>5
  <2> QED BY <2>1, <2>2
<1>3. S \in Good
  <2> HIDE DEF Good
  <2> QED BY <1>1, <1>2, FiniteInduction
<1>4. Low(S) /\ High(S)
  BY <1>3
<1> QED BY <1>4 DEF Min, Max

\* What a function on a finite domain returns is a finite set.
LEMMA FiniteRange ==
    ASSUME NEW f, f = [x \in DOMAIN f |-> f[x]], IsFiniteSet(DOMAIN f)
    PROVE  IsFiniteSet({f[x] : x \in DOMAIN f})
<1> DEFINE T == {f[x] : x \in DOMAIN f}
<1>1. f \in Surjection(DOMAIN f, T)
  BY DEF Surjection
<1> QED BY <1>1, FS_Surjection

\* Division and multiplication by what is positive keep signs and order.
LEMMA DivideNat ==
    ASSUME NEW a \in Int, NEW d \in Nat \ {0}
    PROVE  /\ a \div d \in Int
           /\ a >= 0 <=> a \div d >= 0
  OBVIOUS

LEMMA TimesNat ==
    ASSUME NEW a \in Int, NEW d \in Nat \ {0}
    PROVE  /\ a * d \in Int
           /\ a >= 0 <=> a * d >= 0
  OBVIOUS

LEMMA DivideOrder ==
    ASSUME NEW a \in Int, NEW b \in Int, a <= b
    PROVE  a \div 7 <= b \div 7
  OBVIOUS

-----------------------------------------------------------------------------
(* Sequences, whatever is in them.                                         *)

Sequence(s) == s \in Seq({s[i] : i \in DOMAIN s})


LEMMA SequenceFacts ==
    ASSUME NEW s, Sequence(s)
    PROVE  /\ Len(s) \in Nat /\ DOMAIN s = 1 .. Len(s)
           /\ s = <<>> <=> Len(s) = 0
  BY DEF Sequence

LEMMA SequenceOf ==
    ASSUME NEW n \in Nat, NEW s, s = [i \in 1 .. n |-> s[i]]
    PROVE  Sequence(s) /\ Len(s) = n
<1> DEFINE S == {s[i] : i \in DOMAIN s}
<1>1. DOMAIN s = 1 .. n
  OBVIOUS
<1>2. \A i \in 1 .. n : s[i] \in S
  BY <1>1
<1> HIDE DEF S
<1>3. s \in Seq(S) /\ Len(s) = n
  BY <1>1, <1>2
<1> QED BY <1>3 DEF Sequence, S

LEMMA AppendFacts ==
    ASSUME NEW s, Sequence(s), NEW c
    PROVE  /\ Sequence(Append(s, c)) /\ Len(Append(s, c)) = Len(s) + 1
           /\ Append(s, c) # <<>>
           /\ Append(s, c)[Len(s) + 1] = c
           /\ \A i \in 1 .. Len(s) : Append(s, c)[i] = s[i]
<1> DEFINE d == Append(s, c)
           S == {s[i] : i \in DOMAIN s} \cup {c}
<1>1. s \in Seq(S)
  <2>1. Len(s) \in Nat /\ DOMAIN s = 1 .. Len(s) /\ s \in Seq({s[i] : i \in DOMAIN s})
    BY SequenceFacts DEF Sequence
  <2>2. \A i \in 1 .. Len(s) : s[i] \in S
    BY <2>1
  <2> HIDE DEF S
  <2> QED BY <2>1, <2>2
<1>2. c \in S
  OBVIOUS
<1> HIDE DEF S
<1>3. /\ d \in Seq(S) /\ Len(d) = Len(s) + 1 /\ d # <<>> /\ d[Len(s) + 1] = c
      /\ \A i \in 1 .. Len(s) : d[i] = s[i]
  BY <1>1, <1>2
<1> HIDE DEF d
<1>4. Len(d) \in Nat /\ d = [i \in 1 .. Len(d) |-> d[i]]
  BY <1>3
<1>5. Sequence(d)
  BY <1>4, SequenceOf
<1> QED BY <1>3, <1>5 DEF d

LEMMA ShortSequences ==
    /\ Sequence(<<>>) /\ Len(<<>>) = 0
    /\ \A c : Sequence(<<c>>) /\ Len(<<c>>) = 1 /\ <<c>>[1] = c
<1>1. Sequence(<<>>) /\ Len(<<>>) = 0
  <2>1. <<>> = [i \in 1 .. 0 |-> <<>>[i]]
    OBVIOUS
  <2> QED BY <2>1, SequenceOf
<1>2. ASSUME NEW c PROVE Sequence(<<c>>) /\ Len(<<c>>) = 1 /\ <<c>>[1] = c
  <2>1. <<c>> = [i \in 1 .. 1 |-> <<c>>[i]]
    OBVIOUS
  <2> QED BY <2>1, SequenceOf
<1> QED BY <1>1, <1>2

LEMMA SameSequence ==
    ASSUME NEW s, Sequence(s), NEW t, Sequence(t), Len(s) = Len(t),
           \A i \in 1 .. Len(s) : s[i] = t[i]
    PROVE  s = t
<1>1. /\ s \in Seq({s[i] : i \in DOMAIN s}) /\ t \in Seq({t[i] : i \in DOMAIN t})
  BY DEF Sequence
<1>2. s = [i \in 1 .. Len(s) |-> s[i]] /\ t = [i \in 1 .. Len(t) |-> t[i]]
  BY <1>1
<1> QED BY <1>2

LEMMA ConcatFacts ==
    ASSUME NEW s, Sequence(s), NEW t, Sequence(t)
    PROVE  /\ Sequence(s \o t) /\ Len(s \o t) = Len(s) + Len(t)
           /\ \A i \in 1 .. Len(s) : (s \o t)[i] = s[i]
           /\ \A i \in 1 .. Len(t) : (s \o t)[Len(s) + i] = t[i]
<1> DEFINE S == {s[i] : i \in DOMAIN s} \cup {t[i] : i \in DOMAIN t}
           d == s \o t
<1>1. s \in Seq(S) /\ t \in Seq(S)
  <2>1. /\ s \in Seq({s[i] : i \in DOMAIN s}) /\ t \in Seq({t[i] : i \in DOMAIN t})
    BY DEF Sequence
  <2>2. /\ \A i \in 1 .. Len(s) : s[i] \in S
        /\ \A i \in 1 .. Len(t) : t[i] \in S
    BY <2>1
  <2> HIDE DEF S
  <2> QED BY <2>1, <2>2
<1> HIDE DEF S
<1>2. /\ d \in Seq(S) /\ Len(d) = Len(s) + Len(t)
      /\ \A i \in 1 .. Len(s) : d[i] = s[i]
      /\ \A i \in 1 .. Len(t) : d[Len(s) + i] = t[i]
  BY <1>1
<1> HIDE DEF d
<1>3. Len(d) \in Nat /\ d = [i \in 1 .. Len(d) |-> d[i]]
  BY <1>2
<1>4. Sequence(d)
  BY <1>3, SequenceOf
<1> QED BY <1>2, <1>4 DEF d

LEMMA SubSeqFacts ==
    ASSUME NEW s, Sequence(s), NEW m \in Nat, NEW n \in 0 .. Len(s), m <= n
    PROVE  /\ Sequence(SubSeq(s, m + 1, n)) /\ Len(SubSeq(s, m + 1, n)) = n - m
           /\ \A i \in 1 .. n - m : SubSeq(s, m + 1, n)[i] = s[m + i]
<1> DEFINE S == {s[i] : i \in DOMAIN s}
           d == SubSeq(s, m + 1, n)
<1>1. s \in Seq(S)
  BY DEF Sequence
<1> HIDE DEF S
<1>2. /\ d \in Seq(S) /\ Len(d) = n - m
      /\ \A i \in 1 .. n - m : d[i] = s[m + i]
  BY <1>1
<1> HIDE DEF d
<1>3. Len(d) \in Nat /\ d = [i \in 1 .. Len(d) |-> d[i]]
  BY <1>2
<1>4. Sequence(d)
  BY <1>3, SequenceOf
<1> QED BY <1>2, <1>4 DEF d

-----------------------------------------------------------------------------
(* Selections.                                                             *)

LEMMA SelectedFacts ==
    ASSUME NEW S \in SUBSET Nat, IsFiniteSet(S), NEW seq
    PROVE  /\ Sequence(Selected(seq, S)) /\ Len(Selected(seq, S)) = Cardinality(S)
           /\ Cardinality(S) \in Nat
           /\ \A i \in S : Selected(seq, S)[Rank(S, i)] = seq[i]
<1> DEFINE nth(k) == CHOOSE i \in S : Cardinality({j \in S : j <= i}) = k
           n == Cardinality(S)
           w == [k \in 1 .. n |-> seq[nth(k)]]
<1>1. n \in Nat
  BY FS_CardinalityType
<1>2. w = Selected(seq, S)
  BY DEF Selected
<1>3. ASSUME NEW i \in S PROVE Rank(S, i) \in 1 .. n /\ nth(Rank(S, i)) = i
  <2>1. Rank(S, i) \in 1 .. n
    BY RankProperties
  <2>2. \E j \in S : Cardinality({l \in S : l <= j}) = Rank(S, i)
    BY DEF Rank
  <2>3. nth(Rank(S, i)) \in S /\ Rank(S, nth(Rank(S, i))) = Rank(S, i)
    BY <2>2 DEF Rank
  <2> HIDE DEF nth
  <2>4. \A a, b \in S : Rank(S, a) = Rank(S, b) => a = b
    BY RankProperties
  <2>5. nth(Rank(S, i)) = i
    BY <2>3, <2>4
  <2> QED BY <2>1, <2>5
<1>4. ASSUME NEW i \in S PROVE w[Rank(S, i)] = seq[i]
  <2>1. w[Rank(S, i)] = seq[nth(Rank(S, i))]
    <3> HIDE DEF nth, n
    <3> QED BY <1>3
  <2> QED BY <1>3, <2>1
<1>5. Sequence(w) /\ Len(w) = n
  <2>1. w = [k \in 1 .. n |-> w[k]]
    <3> HIDE DEF nth, n
    <3> QED OBVIOUS
  <2> HIDE DEF w, n
  <2> QED BY <1>1, <2>1, SequenceOf
<1> QED BY <1>1, <1>2, <1>4, <1>5

\* The position of each element of a selection.
LEMMA SelectedAt ==
    ASSUME NEW K \in SUBSET Nat, IsFiniteSet(K), NEW seq
    PROVE  /\ DOMAIN Selected(seq, K) = 1 .. Cardinality(K) /\ Cardinality(K) \in Nat
           /\ \A i \in K : /\ Rank(K, i) \in 1 .. Cardinality(K)
                           /\ Selected(seq, K)[Rank(K, i)] = seq[i]
           /\ \A k \in 1 .. Cardinality(K) :
                \E i \in K : Rank(K, i) = k /\ Selected(seq, K)[k] = seq[i]
<1>1. /\ Sequence(Selected(seq, K)) /\ Len(Selected(seq, K)) = Cardinality(K)
      /\ Cardinality(K) \in Nat
      /\ \A i \in K : Selected(seq, K)[Rank(K, i)] = seq[i]
  BY SelectedFacts
<1>2. DOMAIN Selected(seq, K) = 1 .. Cardinality(K)
  BY <1>1, SequenceFacts
<1>3. \A i \in K : Rank(K, i) \in 1 .. Cardinality(K)
  BY RankProperties
<1>4. \A k \in 1 .. Cardinality(K) : \E i \in K : Rank(K, i) = k
  BY RankOnto
<1> QED BY <1>1, <1>2, <1>3, <1>4

\* Nothing at the positions that are looked at tells the sequences apart.
LEMMA SelectedSame ==
    ASSUME NEW S \in SUBSET Nat, IsFiniteSet(S), NEW p, NEW q, \A i \in S : p[i] = q[i]
    PROVE  Selected(p, S) = Selected(q, S)
<1>1. /\ Sequence(Selected(p, S)) /\ Sequence(Selected(q, S))
      /\ Len(Selected(p, S)) = Cardinality(S) /\ Len(Selected(q, S)) = Cardinality(S)
  BY SelectedFacts
<1>2. ASSUME NEW k \in 1 .. Cardinality(S) PROVE Selected(p, S)[k] = Selected(q, S)[k]
  <2>1. PICK i \in S : Rank(S, i) = k
    BY RankOnto
  <2> QED BY <2>1, SelectedFacts
<1> QED BY <1>1, <1>2, SameSequence

LEMMA DisjointUnion ==
    ASSUME NEW A, IsFiniteSet(A), NEW B, IsFiniteSet(B), A \cap B = {}
    PROVE  /\ IsFiniteSet(A \cup B) /\ Cardinality(A \cup B) = Cardinality(A) + Cardinality(B)
           /\ Cardinality(A) \in Nat /\ Cardinality(B) \in Nat
<1>1. Cardinality(A) \in Nat /\ Cardinality(B) \in Nat
  BY FS_CardinalityType
<1>2. Cardinality(A \cap B) = 0
  BY FS_EmptySet
<1>3. /\ IsFiniteSet(A \cup B)
      /\ Cardinality(A \cup B) = Cardinality(A) + Cardinality(B) - Cardinality(A \cap B)
  BY FS_Union
<1> QED BY <1>1, <1>2, <1>3

\* The same positions further along.
Moved(S, k) == {k + i : i \in S}

LEMMA MovedFacts ==
    ASSUME NEW S \in SUBSET Nat, IsFiniteSet(S), NEW k \in Nat
    PROVE  /\ Moved(S, k) \in SUBSET Nat /\ IsFiniteSet(Moved(S, k))
           /\ Cardinality(Moved(S, k)) = Cardinality(S)
           /\ \A d : d \in Moved(S, k) <=> \E i \in S : d = k + i
<1> DEFINE D == {k + i : i \in S}
           f == [i \in S |-> k + i]
<1>1. D \in SUBSET Nat
  OBVIOUS
<1>2. f \in Bijection(S, D)
  <2>1. f \in [S -> D]
    OBVIOUS
  <2>2. \A a, b \in S : f[a] = f[b] => a = b
    OBVIOUS
  <2>3. \A d \in D : \E a \in S : f[a] = d
    OBVIOUS
  <2> HIDE DEF f, D
  <2> QED BY <2>1, <2>2, <2>3, Zenon DEF Bijection, Injection, Surjection, IsInjective
<1>3. ExistsBijection(S, D)
  BY <1>2 DEF ExistsBijection
<1>4. \A d : d \in D <=> \E i \in S : d = k + i
  OBVIOUS
<1> HIDE DEF D
<1>5. IsFiniteSet(D) /\ Cardinality(D) = Cardinality(S)
  BY <1>3, FS_Bijection
<1>6. Moved(S, k) = D
  BY DEF Moved, D
<1> QED BY <1>1, <1>4, <1>5, <1>6

LEMMA SelectedShifted ==
    ASSUME NEW S \in SUBSET Nat, IsFiniteSet(S), NEW k \in Nat, NEW p, NEW q,
           \A i \in S : p[k + i] = q[i]
    PROVE  Selected(p, Moved(S, k)) = Selected(q, S)
<1> DEFINE D == Moved(S, k)
<1>1. D \in SUBSET Nat /\ IsFiniteSet(D) /\ Cardinality(D) = Cardinality(S)
  BY MovedFacts
<1>2. ASSUME NEW i \in S PROVE k + i \in D /\ Rank(D, k + i) = Rank(S, i)
  <2> DEFINE T == {j \in S : j <= i}
  <2>1. {d \in D : d <= k + i} = Moved(T, k)
    <3>1. {d \in {k + j : j \in S} : d <= k + i} = {k + j : j \in T}
      OBVIOUS
    <3> QED BY <3>1 DEF Moved
  <2>2. T \in SUBSET Nat /\ IsFiniteSet(T)
    BY FS_Subset
  <2>3. Cardinality(Moved(T, k)) = Cardinality(T)
    <3> HIDE DEF T
    <3> QED BY <2>2, MovedFacts
  <2>4. k + i \in D
    BY MovedFacts
  <2> QED BY <2>1, <2>3, <2>4 DEF Rank
<1> HIDE DEF D
<1>3. /\ Sequence(Selected(p, D)) /\ Sequence(Selected(q, S))
      /\ Len(Selected(p, D)) = Cardinality(S) /\ Len(Selected(q, S)) = Cardinality(S)
  BY <1>1, SelectedFacts
<1>4. ASSUME NEW n \in 1 .. Cardinality(S) PROVE Selected(p, D)[n] = Selected(q, S)[n]
  <2>1. PICK i \in S : Rank(S, i) = n
    BY RankOnto
  <2>2. Selected(q, S)[n] = q[i]
    BY <2>1, SelectedFacts
  <2>3. PICK j \in D : j = k + i /\ Rank(D, j) = n
    BY <1>2, <2>1
  <2>4. Selected(p, D)[n] = p[j]
    BY <1>1, <2>3, SelectedFacts
  <2>5. p[k + i] = q[i]
    OBVIOUS
  <2> QED BY <2>2, <2>3, <2>4, <2>5
<1> QED BY <1>3, <1>4, SameSequence DEF D

\* What is selected before and what is selected after.
LEMMA SelectedJoined ==
    ASSUME NEW A \in SUBSET Nat, IsFiniteSet(A), NEW B \in SUBSET Nat, IsFiniteSet(B),
           \A a \in A : \A b \in B : a < b, NEW s
    PROVE  Selected(s, A \cup B) = Selected(s, A) \o Selected(s, B)
<1> DEFINE C == A \cup B
           m == Cardinality(A)
           n == Cardinality(B)
           u == Selected(s, A)
           v == Selected(s, B)
<1>1. C \in SUBSET Nat /\ IsFiniteSet(C) /\ m \in Nat /\ n \in Nat
  BY FS_Union, FS_CardinalityType
<1>2. A \cap B = {}
  <2>1. \A a \in A : a \in Nat /\ ~(a < a)
    OBVIOUS
  <2> QED BY <2>1
<1>3. Cardinality(C) = m + n
  BY <1>2, DisjointUnion
<1>4. ASSUME NEW a \in A PROVE Rank(C, a) = Rank(A, a)
  <2>1. \A b \in B : ~(b <= a)
    <3>1. \A b \in B : b \in Nat /\ a \in Nat /\ a < b
      OBVIOUS
    <3> QED BY <3>1
  <2>2. {j \in C : j <= a} = {j \in A : j <= a}
    BY <2>1
  <2> QED BY <2>2 DEF Rank
<1>5. ASSUME NEW b \in B PROVE Rank(C, b) = m + Rank(B, b)
  <2> DEFINE T == {j \in B : j <= b}
  <2>1. \A a \in A : a <= b
    <3>1. \A a \in A : a \in Nat /\ b \in Nat /\ a < b
      OBVIOUS
    <3> QED BY <3>1
  <2>2. {j \in C : j <= b} = A \cup T
    BY <2>1
  <2>3. IsFiniteSet(T) /\ Cardinality(T) \in Nat
    <3>1. T \in SUBSET B
      OBVIOUS
    <3> HIDE DEF T
    <3> QED BY <3>1, FS_Subset, FS_CardinalityType
  <2>4. A \cap T = {}
    BY <1>2
  <2>5. Cardinality(A \cup T) = m + Cardinality(T)
    <3> HIDE DEF T
    <3> QED BY <2>3, <2>4, DisjointUnion
  <2> QED BY <2>2, <2>5 DEF Rank
<1>6. /\ Sequence(u) /\ Len(u) = m /\ Sequence(v) /\ Len(v) = n
      /\ Sequence(Selected(s, C)) /\ Len(Selected(s, C)) = m + n
  <2> HIDE DEF C
  <2> QED BY <1>1, <1>3, SelectedFacts
<1>7. /\ Sequence(u \o v) /\ Len(u \o v) = m + n
      /\ \A i \in 1 .. m : (u \o v)[i] = u[i]
      /\ \A i \in 1 .. n : (u \o v)[m + i] = v[i]
  <2> HIDE DEF u, v, m, n
  <2> QED BY <1>6, ConcatFacts
<1>8. ASSUME NEW k \in 1 .. m + n PROVE Selected(s, C)[k] = (u \o v)[k]
  <2>1. CASE k <= m
    <3>1. PICK a \in A : Rank(A, a) = k
      BY <1>1, <2>1, RankOnto
    <3>2. a \in C /\ Selected(s, C)[k] = s[a]
      <4> HIDE DEF C
      <4>1. a \in C
        BY DEF C
      <4>2. Rank(C, a) = k
        BY <1>4, <3>1
      <4> QED BY <1>1, <4>1, <4>2, SelectedFacts
    <3>3. u[k] = s[a]
      BY <3>1, SelectedFacts
    <3>4. k \in 1 .. m
      BY <1>1, <2>1
    <3> QED BY <1>7, <3>2, <3>3, <3>4
  <2>2. CASE ~(k <= m)
    <3>1. k - m \in 1 .. n /\ m + (k - m) = k
      BY <1>1, <2>2
    <3>2. PICK b \in B : Rank(B, b) = k - m
      BY <3>1, RankOnto
    <3>3. Selected(s, C)[k] = s[b]
      <4> HIDE DEF C
      <4>1. b \in C
        BY DEF C
      <4>2. Rank(C, b) = k
        BY <1>5, <3>1, <3>2
      <4> QED BY <1>1, <4>1, <4>2, SelectedFacts
    <3>4. v[k - m] = s[b]
      BY <3>2, SelectedFacts
    <3>5. (u \o v)[m + (k - m)] = v[k - m]
      BY <1>7, <3>1
    <3> QED BY <3>1, <3>3, <3>4, <3>5
  <2> QED BY <2>1, <2>2
<1>9. Selected(s, C) = u \o v
  <2> HIDE DEF C, u, v, m, n
  <2> QED BY <1>6, <1>7, <1>8, SameSequence
<1> QED BY <1>9

LEMMA WithoutFacts ==
    ASSUME NEW s, Sequence(s), NEW S
    PROVE  /\ Sequence(Without(s, S))
           /\ {i \in DOMAIN s : s[i] \notin S} \in SUBSET Nat
           /\ IsFiniteSet({i \in DOMAIN s : s[i] \notin S})
<1> DEFINE K == {i \in DOMAIN s : s[i] \notin S}
<1>1. Len(s) \in Nat /\ DOMAIN s = 1 .. Len(s)
  BY SequenceFacts
<1>2. K \in SUBSET Nat /\ K \in SUBSET (1 .. Len(s)) /\ IsFiniteSet(1 .. Len(s))
  BY <1>1, FS_Interval
<1> HIDE DEF K
<1>3. IsFiniteSet(K)
  BY <1>2, FS_Subset
<1>4. Sequence(Selected(s, K))
  BY <1>2, <1>3, SelectedFacts
<1> QED BY <1>2, <1>3, <1>4 DEF K, Without

\* To leave something out of a whole is to leave it out of its parts.
LEMMA WithoutConcat ==
    ASSUME NEW s, Sequence(s), NEW t, Sequence(t), NEW S
    PROVE  Without(s \o t, S) = Without(s, S) \o Without(t, S)
<1> DEFINE A == {i \in DOMAIN s : s[i] \notin S}
           B == {i \in DOMAIN t : t[i] \notin S}
           D == Moved(B, Len(s))
           w == s \o t
<1>1. /\ Len(s) \in Nat /\ DOMAIN s = 1 .. Len(s) /\ Len(t) \in Nat /\ DOMAIN t = 1 .. Len(t)
  BY SequenceFacts
<1>2. /\ Sequence(w) /\ Len(w) = Len(s) + Len(t)
      /\ \A i \in 1 .. Len(s) : w[i] = s[i]
      /\ \A i \in 1 .. Len(t) : w[Len(s) + i] = t[i]
  BY ConcatFacts
<1>3. DOMAIN w = 1 .. Len(s) + Len(t)
  BY <1>2, SequenceFacts
<1> HIDE DEF w
<1>4. {i \in DOMAIN w : w[i] \notin S} = A \cup D
  <2>1. ASSUME NEW i \in DOMAIN w, w[i] \notin S PROVE i \in A \cup D
    <3>1. CASE i \in 1 .. Len(s)
      BY <1>1, <1>2, <2>1, <3>1
    <3>2. CASE i \notin 1 .. Len(s)
      <4>1. i - Len(s) \in 1 .. Len(t) /\ Len(s) + (i - Len(s)) = i
        BY <1>1, <1>3, <3>2
      <4>2. PICK j \in 1 .. Len(t) : Len(s) + j = i
        BY <4>1
      <4>3. j \in B
        BY <1>1, <1>2, <2>1, <4>2
      <4>4. i \in D
        BY <4>2, <4>3 DEF Moved
      <4> QED BY <4>4
    <3> QED BY <3>1, <3>2
  <2>2. ASSUME NEW i \in A PROVE i \in DOMAIN w /\ w[i] \notin S
    BY <1>1, <1>2, <1>3
  <2>3. ASSUME NEW i \in B PROVE Len(s) + i \in DOMAIN w /\ w[Len(s) + i] \notin S
    BY <1>1, <1>2, <1>3
  <2>4. \A d : d \in D <=> \E i \in B : d = Len(s) + i
    BY DEF Moved
  <2> HIDE DEF D
  <2> QED BY <2>1, <2>2, <2>3, <2>4
<1>5. A \in SUBSET Nat /\ IsFiniteSet(A) /\ B \in SUBSET Nat /\ IsFiniteSet(B)
  BY WithoutFacts
<1>6. D \in SUBSET Nat /\ IsFiniteSet(D)
  <2> HIDE DEF B
  <2> QED BY <1>1, <1>5, MovedFacts
<1>7. \A a \in A : \A d \in D : a < d
  BY <1>1 DEF Moved
<1>8. Selected(w, A) = Selected(s, A)
  <2>1. \A i \in A : w[i] = s[i]
    BY <1>1, <1>2
  <2> HIDE DEF A
  <2> QED BY <1>5, <2>1, SelectedSame
<1>9. Selected(w, D) = Selected(t, B)
  <2>1. \A i \in B : w[Len(s) + i] = t[i]
    BY <1>1, <1>2
  <2>2. PICK C : C = B
    OBVIOUS
  <2>3. PICK k \in Nat : k = Len(s)
    BY <1>1
  <2>4. C \in SUBSET Nat /\ IsFiniteSet(C) /\ \A i \in C : w[k + i] = t[i]
    BY <1>5, <2>1, <2>2, <2>3
  <2>5. Selected(w, Moved(C, k)) = Selected(t, C)
    BY <2>4, SelectedShifted
  <2> QED BY <2>2, <2>3, <2>5
<1>10. Selected(w, A \cup D) = Selected(w, A) \o Selected(w, D)
  <2> HIDE DEF A, D
  <2> QED BY <1>5, <1>6, <1>7, SelectedJoined
<1> QED BY <1>4, <1>8, <1>9, <1>10 DEF Without, w

LEMMA WithoutLeft ==
    ASSUME NEW S, NEW e \in S
    PROVE  Without(<<e>>, S) = <<>>
<1>1. {i \in DOMAIN <<e>> : <<e>>[i] \notin S} = {}
  <2>1. DOMAIN <<e>> = {1} /\ <<e>>[1] = e
    OBVIOUS
  <2> QED BY <2>1
<1>2. Sequence(Selected(<<e>>, {})) /\ Len(Selected(<<e>>, {})) = 0
  BY SelectedFacts, FS_EmptySet
<1>3. Selected(<<e>>, {}) = <<>>
  BY <1>2, ShortSequences, SameSequence
<1> QED BY <1>1, <1>3 DEF Without

-----------------------------------------------------------------------------
(* Concatenations.                                                         *)

\* What holds of the first sequence and goes on to hold with each that is appended,
\* holds of the concatenation of all.
LEMMA FlattenIn ==
    ASSUME NEW s, Len(s) \in Nat \ {0}, NEW T, s[1] \in T,
           \A i \in 2 .. Len(s) : \A t \in T : t \o s[i] \in T
    PROVE  FlattenSeq(s) \in T
<1> DEFINE n == Len(s)
           Solves(h, m) == h = [i \in 1 .. m |-> IF i = 1 THEN s[i] ELSE h[i - 1] \o s[i]]
           Good == {m \in Nat : \E h : Solves(h, m)}
<1>1. 0 \in Good
  <2>1. Solves(<<>>, 0)
    OBVIOUS
  <2> QED BY <2>1
<1>2. ASSUME NEW m \in Nat, m \in Good PROVE m + 1 \in Good
  <2>1. PICK h : Solves(h, m)
    BY <1>2
  <2> DEFINE g == [i \in 1 .. m + 1 |->
                      IF i \in 1 .. m THEN h[i] ELSE IF i = 1 THEN s[i] ELSE h[i - 1] \o s[i]]
  <2>2. \A i \in 1 .. m : g[i] = h[i]
    OBVIOUS
  <2>3. \A i \in 1 .. m : h[i] = IF i = 1 THEN s[i] ELSE h[i - 1] \o s[i]
    BY <2>1
  <2>4. ASSUME NEW i \in 1 .. m + 1 PROVE g[i] = IF i = 1 THEN s[i] ELSE g[i - 1] \o s[i]
    <3>1. i # 1 => i - 1 \in 1 .. m /\ g[i - 1] = h[i - 1]
      <4>1. i # 1 => i - 1 \in 1 .. m
        OBVIOUS
      <4> QED BY <2>2, <4>1
    <3>2. CASE i \in 1 .. m
      <4>1. g[i] = h[i]
        BY <2>2, <3>2
      <4> HIDE DEF g
      <4> QED BY <2>3, <3>1, <3>2, <4>1
    <3>3. CASE i \notin 1 .. m
      <4>1. g[i] = IF i = 1 THEN s[i] ELSE h[i - 1] \o s[i]
        BY <3>3
      <4> HIDE DEF g
      <4> QED BY <3>1, <4>1
    <3> QED BY <3>2, <3>3
  <2>5. g = [i \in 1 .. m + 1 |-> g[i]]
    OBVIOUS
  <2>6. Solves(g, m + 1)
    <3> HIDE DEF g
    <3> QED BY <2>4, <2>5
  <2> HIDE DEF g, Solves
  <2> QED BY <2>6
<1>3. \E h : Solves(h, n)
  <2>1. Nat \subseteq Good
    <3> HIDE DEF Good
    <3> QED BY <1>1, <1>2, NatSetInduction
  <2>2. n \in Good
    BY <2>1
  <2> HIDE DEF Solves, n
  <2> QED BY <2>2
<1>4. PICK f : FlattenSeq(s) = f[n] /\ Solves(f, n)
  <2> DEFINE f == CHOOSE h : h = [i \in 1 .. n |-> IF i = 1 THEN s[i] ELSE h[i - 1] \o s[i]]
  <2>1. FlattenSeq(s) = f[n]
    <3>1. Len(s) # 0
      OBVIOUS
    <3> QED BY <3>1 DEF FlattenSeq
  <2>2. f = [i \in 1 .. n |-> IF i = 1 THEN s[i] ELSE f[i - 1] \o s[i]]
    BY <1>3
  <2> HIDE DEF f
  <2> QED BY <2>1, <2>2
<1>5. \A i \in 1 .. n : f[i] = IF i = 1 THEN s[i] ELSE f[i - 1] \o s[i]
  BY <1>4
<1> DEFINE Fine == {i \in Nat : i \in 1 .. n => f[i] \in T}
<1>6. 0 \in Fine
  OBVIOUS
<1>7. ASSUME NEW i \in Nat, i \in Fine PROVE i + 1 \in Fine
  <2> SUFFICES ASSUME i + 1 \in 1 .. n PROVE f[i + 1] \in T
    OBVIOUS
  <2>1. CASE i = 0
    BY <1>5, <2>1
  <2>2. CASE i # 0
    <3>1. i \in 1 .. n /\ i + 1 \in 2 .. n /\ i + 1 # 1 /\ (i + 1) - 1 = i
      BY <2>2
    <3>2. f[i] \in T /\ f[i + 1] = f[i] \o s[i + 1]
      BY <1>5, <1>7, <3>1
    <3> QED BY <3>1, <3>2
  <2> QED BY <2>1, <2>2
<1>8. n \in Fine
  <2>1. Nat \subseteq Fine
    <3> HIDE DEF Fine
    <3> QED BY <1>6, <1>7, NatSetInduction
  <2> QED BY <2>1
<1> QED BY <1>4, <1>8

-----------------------------------------------------------------------------
(* Sums.                                                                   *)

\* The element that the fold takes first.
Picked(s) == CHOOSE x \in s : TRUE

\* g sums f over each set of D as the community modules do, one element after the other.
Sums(g, f, D) ==
    g = [s \in D |-> IF s = {} THEN 0 ELSE f[Picked(s)] + g[s \ {Picked(s)}]]

\* A sum without the folds it is made of.
LEMMA SumUnfold ==
    ASSUME NEW f, NEW S
    PROVE  SumFunctionOnSet(f, S) = (CHOOSE g : Sums(g, f, SUBSET S))[S]
BY DEF SumFunctionOnSet, FoldFunctionOnSet, MapThenFoldSet, Sums, Picked

\* There is such a g, level by level of the sizes of the sets.
LEMMA SumsExist ==
    ASSUME NEW f, NEW S, IsFiniteSet(S)
    PROVE  \E g : Sums(g, f, SUBSET S)
<1> DEFINE D(n) == {s \in SUBSET S : Cardinality(s) <= n}
           Good == {n \in Nat : \E g : Sums(g, f, D(n))}
<1>0. \A s \in SUBSET S :
        /\ IsFiniteSet(s) /\ Cardinality(s) \in Nat
        /\ Cardinality(s) = 0 <=> s = {}
        /\ s # {} => /\ Picked(s) \in s /\ s \ {Picked(s)} \in SUBSET S
                     /\ Cardinality(s \ {Picked(s)}) = Cardinality(s) - 1
  <2> SUFFICES ASSUME NEW s \in SUBSET S
               PROVE  /\ IsFiniteSet(s) /\ Cardinality(s) \in Nat
                      /\ Cardinality(s) = 0 <=> s = {}
                      /\ s # {} => /\ Picked(s) \in s /\ s \ {Picked(s)} \in SUBSET S
                                   /\ Cardinality(s \ {Picked(s)}) = Cardinality(s) - 1
    OBVIOUS
  <2>1. IsFiniteSet(s) /\ Cardinality(s) \in Nat /\ (Cardinality(s) = 0 <=> s = {})
    BY FS_Subset, FS_CardinalityType, FS_EmptySet
  <2>2. s # {} => Picked(s) \in s
    BY DEF Picked
  <2> QED BY <2>1, <2>2, FS_RemoveElement
<1>1. 0 \in Good
  <2> DEFINE g == [s \in D(0) |-> 0]
  <2>1. \A s \in D(0) : s = {}
    <3> SUFFICES ASSUME NEW s \in SUBSET S, Cardinality(s) <= 0
                 PROVE  s = {}
      OBVIOUS
    <3>1. Cardinality(s) \in Nat /\ (Cardinality(s) = 0 <=> s = {})
      BY <1>0
    <3> QED BY <3>1
  <2>2. g = [s \in D(0) |-> IF s = {} THEN 0 ELSE f[Picked(s)] + g[s \ {Picked(s)}]]
    BY <2>1
  <2> QED BY <2>2 DEF Sums
<1>2. ASSUME NEW n \in Nat, n \in Good
      PROVE  n + 1 \in Good
  <2>1. PICK g : Sums(g, f, D(n))
    BY <1>2
  <2> DEFINE h == [s \in D(n + 1) |-> IF s = {} THEN 0 ELSE f[Picked(s)] + g[s \ {Picked(s)}]]
  <2>2. \A s \in D(n) : s \in D(n + 1)
    <3> SUFFICES ASSUME NEW s \in SUBSET S, Cardinality(s) <= n
                 PROVE  Cardinality(s) <= n + 1
      OBVIOUS
    <3>1. Cardinality(s) \in Nat
      BY <1>0
    <3> QED BY <3>1
  <2>3. \A s \in D(n) : h[s] = g[s]
    <3>1. \A s \in D(n) : g[s] = IF s = {} THEN 0 ELSE f[Picked(s)] + g[s \ {Picked(s)}]
      <4> HIDE DEF D
      <4> QED BY <2>1 DEF Sums
    <3>2. \A s \in D(n) : h[s] = IF s = {} THEN 0 ELSE f[Picked(s)] + g[s \ {Picked(s)}]
      <4> HIDE DEF D
      <4> QED BY <2>2
    <3> QED BY <3>1, <3>2
  <2>4. \A s \in D(n + 1) : s # {} => s \ {Picked(s)} \in D(n)
    BY <1>0
  <2>5. h = [s \in D(n + 1) |-> IF s = {} THEN 0 ELSE f[Picked(s)] + h[s \ {Picked(s)}]]
    <3>1. \A s \in D(n + 1) : s # {} => h[s \ {Picked(s)}] = g[s \ {Picked(s)}]
      BY <2>3, <2>4
    <3> HIDE DEF D
    <3> QED BY <3>1
  <2> HIDE DEF h, D
  <2>6. Sums(h, f, D(n + 1))
    BY <2>5 DEF Sums
  <2> QED BY <2>6
<1>3. Cardinality(S) \in Good
  <2>1. Cardinality(S) \in Nat
    BY FS_CardinalityType
  <2> HIDE DEF Good
  <2> QED BY <1>1, <1>2, <2>1, NatSetInduction
<1>4. D(Cardinality(S)) = SUBSET S
  BY FS_Subset
<1> QED BY <1>3, <1>4

\* Two such agree on the sets that both have.
LEMMA SumsAgree ==
    ASSUME NEW f, NEW S, IsFiniteSet(S), NEW T \in SUBSET S,
           NEW g, Sums(g, f, SUBSET S), NEW h, Sums(h, f, SUBSET T)
    PROVE  h[T] = g[T]
<1> DEFINE Good == {n \in Nat : \A s \in SUBSET T : Cardinality(s) = n => h[s] = g[s]}
<1>0. \A s \in SUBSET T :
        /\ Cardinality(s) \in Nat
        /\ Cardinality(s) = 0 <=> s = {}
        /\ s # {} => /\ s \ {Picked(s)} \in SUBSET T
                     /\ Cardinality(s \ {Picked(s)}) = Cardinality(s) - 1
  <2> SUFFICES ASSUME NEW s \in SUBSET T
               PROVE  /\ Cardinality(s) \in Nat
                      /\ Cardinality(s) = 0 <=> s = {}
                      /\ s # {} => /\ s \ {Picked(s)} \in SUBSET T
                                   /\ Cardinality(s \ {Picked(s)}) = Cardinality(s) - 1
    OBVIOUS
  <2>1. IsFiniteSet(s) /\ Cardinality(s) \in Nat /\ (Cardinality(s) = 0 <=> s = {})
    BY FS_Subset, FS_CardinalityType, FS_EmptySet
  <2>2. s # {} => Picked(s) \in s
    BY DEF Picked
  <2> QED BY <2>1, <2>2, FS_RemoveElement
<1>1. \A s \in SUBSET T :
        /\ g[s] = IF s = {} THEN 0 ELSE f[Picked(s)] + g[s \ {Picked(s)}]
        /\ h[s] = IF s = {} THEN 0 ELSE f[Picked(s)] + h[s \ {Picked(s)}]
  BY DEF Sums
<1>2. 0 \in Good
  BY <1>0, <1>1
<1>3. ASSUME NEW n \in Nat, n \in Good PROVE n + 1 \in Good
  <2> SUFFICES ASSUME NEW s \in SUBSET T, Cardinality(s) = n + 1
               PROVE  h[s] = g[s]
    OBVIOUS
  <2>1. s # {} /\ s \ {Picked(s)} \in SUBSET T /\ Cardinality(s \ {Picked(s)}) = n
    BY <1>0
  <2>2. h[s \ {Picked(s)}] = g[s \ {Picked(s)}]
    BY <1>3, <2>1
  <2> QED BY <1>1, <2>1, <2>2
<1>4. Nat \subseteq Good
  <2> HIDE DEF Good
  <2> QED BY <1>2, <1>3, NatSetInduction
<1> QED BY <1>0, <1>4

\* Such a function has the sum of every set in it.
LEMMA SumsValue ==
    ASSUME NEW f, NEW S, IsFiniteSet(S), NEW T \in SUBSET S,
           NEW g, Sums(g, f, SUBSET S)
    PROVE  SumFunctionOnSet(f, T) = g[T]
<1>1. IsFiniteSet(T)
  BY FS_Subset
<1>2. PICK h : Sums(h, f, SUBSET T) /\ SumFunctionOnSet(f, T) = h[T]
  <2>1. \E h : Sums(h, f, SUBSET T)
    BY <1>1, SumsExist
  <2> QED BY <2>1, SumUnfold
<1>3. h[T] = g[T]
  BY <1>2, SumsAgree
<1> QED BY <1>2, <1>3

\* What a sum is, by the element that is picked.
LEMMA SumPicked ==
    ASSUME NEW f, NEW S, IsFiniteSet(S)
    PROVE  /\ SumFunctionOnSet(f, {}) = 0
           /\ S # {} => /\ Picked(S) \in S
                        /\ SumFunctionOnSet(f, S) =
                             f[Picked(S)] + SumFunctionOnSet(f, S \ {Picked(S)})
<1>1. PICK g : Sums(g, f, SUBSET S)
  BY SumsExist
<1>2. \A T \in SUBSET S : SumFunctionOnSet(f, T) = g[T]
  BY <1>1, SumsValue
<1>3. S # {} => Picked(S) \in S
  BY DEF Picked
<1>4. /\ g[{}] = 0
      /\ S # {} => g[S] = f[Picked(S)] + g[S \ {Picked(S)}]
  BY <1>1 DEF Sums
<1> QED BY <1>2, <1>3, <1>4

\* Integers have an integer sum.
LEMMA SumType ==
    ASSUME NEW f, NEW S, IsFiniteSet(S), \A i \in S : f[i] \in Int
    PROVE  SumFunctionOnSet(f, S) \in Int
<1> DEFINE Good == {n \in Nat : \A T \in SUBSET S :
                        Cardinality(T) = n => SumFunctionOnSet(f, T) \in Int}
<1>0. \A T \in SUBSET S : IsFiniteSet(T) /\ Cardinality(T) \in Nat
  BY FS_Subset, FS_CardinalityType
<1>1. 0 \in Good
  <2>1. \A T \in SUBSET S : Cardinality(T) = 0 => T = {}
    BY <1>0, FS_EmptySet
  <2>2. SumFunctionOnSet(f, {}) = 0
    BY SumPicked
  <2> QED BY <2>1, <2>2
<1>2. ASSUME NEW n \in Nat, n \in Good PROVE n + 1 \in Good
  <2> SUFFICES ASSUME NEW T \in SUBSET S, Cardinality(T) = n + 1
               PROVE  SumFunctionOnSet(f, T) \in Int
    OBVIOUS
  <2>1. T # {}
    BY FS_EmptySet
  <2>2. PICK x \in T : SumFunctionOnSet(f, T) = f[x] + SumFunctionOnSet(f, T \ {x})
    BY <1>0, <2>1, SumPicked
  <2>3. T \ {x} \in SUBSET S /\ Cardinality(T \ {x}) = n
    BY <1>0, FS_RemoveElement
  <2> QED BY <1>2, <2>2, <2>3
<1>3. Nat \subseteq Good
  <2> HIDE DEF Good
  <2> QED BY <1>1, <1>2, NatSetInduction
<1> QED BY <1>0, <1>3

\* A sum is that of any element and the rest.
LEMMA SumRemove ==
    ASSUME NEW f, NEW S, IsFiniteSet(S), \A i \in S : f[i] \in Int, NEW x \in S
    PROVE  SumFunctionOnSet(f, S) = f[x] + SumFunctionOnSet(f, S \ {x})
<1> DEFINE Total(T) == SumFunctionOnSet(f, T)
           Good == {n \in Nat : \A T \in SUBSET S : \A y \in T :
                        Cardinality(T) = n => Total(T) = f[y] + Total(T \ {y})}
<1>0. \A T \in SUBSET S : IsFiniteSet(T) /\ Cardinality(T) \in Nat /\ Total(T) \in Int
  BY FS_Subset, FS_CardinalityType, SumType
<1>1. 0 \in Good
  <2>1. \A T \in SUBSET S : Cardinality(T) = 0 => T = {}
    BY <1>0, FS_EmptySet
  <2> QED BY <2>1
<1>2. ASSUME NEW n \in Nat, n \in Good PROVE n + 1 \in Good
  <2> SUFFICES ASSUME NEW T \in SUBSET S, NEW y \in T, Cardinality(T) = n + 1
               PROVE  Total(T) = f[y] + Total(T \ {y})
    OBVIOUS
  <2>1. PICK p \in T : Total(T) = f[p] + Total(T \ {p})
    BY <1>0, SumPicked
  <2>2. CASE y = p
    BY <2>1, <2>2
  <2>3. CASE y # p
    <3>1. /\ T \ {p} \in SUBSET S /\ y \in T \ {p} /\ Cardinality(T \ {p}) = n
          /\ T \ {y} \in SUBSET S /\ p \in T \ {y} /\ Cardinality(T \ {y}) = n
      BY <1>0, <2>3, FS_RemoveElement
    <3>2. Total(T \ {p}) = f[y] + Total((T \ {p}) \ {y})
      BY <1>2, <3>1
    <3>3. Total(T \ {y}) = f[p] + Total((T \ {y}) \ {p})
      BY <1>2, <3>1
    <3>4. (T \ {p}) \ {y} = (T \ {y}) \ {p} /\ (T \ {p}) \ {y} \in SUBSET S
      OBVIOUS
    <3>5. f[y] \in Int /\ f[p] \in Int /\ Total((T \ {p}) \ {y}) \in Int
      BY <1>0, <3>4
    <3>6. Total((T \ {p}) \ {y}) = Total((T \ {y}) \ {p})
      BY <3>4
    <3>7. PICK rest \in Int : rest = Total((T \ {p}) \ {y})
      BY <3>5
    <3>8. /\ Total(T) = f[p] + (f[y] + rest)
          /\ Total(T \ {y}) = f[p] + rest
      BY <2>1, <3>2, <3>3, <3>6, <3>7
    <3> QED BY <3>5, <3>7, <3>8
  <2> QED BY <2>2, <2>3
<1>3. Nat \subseteq Good
  <2> HIDE DEF Good
  <2> QED BY <1>1, <1>2, NatSetInduction
<1> QED BY <1>0, <1>3

\* A sum over two sets that have nothing in common.
LEMMA SumUnion ==
    ASSUME NEW f, NEW S, IsFiniteSet(S), NEW T, IsFiniteSet(T), S \cap T = {},
           \A i \in S \cup T : f[i] \in Int
    PROVE  SumFunctionOnSet(f, S \cup T) = SumFunctionOnSet(f, S) + SumFunctionOnSet(f, T)
<1> DEFINE Total(U) == SumFunctionOnSet(f, U)
           Good == {U \in SUBSET S : Total(U \cup T) = Total(U) + Total(T)}
<1>0. \A U \in SUBSET S : /\ IsFiniteSet(U) /\ IsFiniteSet(U \cup T)
                          /\ Total(U) \in Int /\ Total(U \cup T) \in Int
  <2> SUFFICES ASSUME NEW U \in SUBSET S
               PROVE  /\ IsFiniteSet(U) /\ IsFiniteSet(U \cup T)
                      /\ Total(U) \in Int /\ Total(U \cup T) \in Int
    OBVIOUS
  <2>1. IsFiniteSet(U) /\ IsFiniteSet(U \cup T)
    BY FS_Subset, FS_Union
  <2> QED BY <2>1, SumType
<1>1. {} \in Good
  <2>1. Total({}) = 0 /\ Total(T) \in Int /\ {} \cup T = T
    BY SumPicked, SumType
  <2> HIDE DEF Total
  <2> QED BY <2>1
<1>2. ASSUME NEW U \in SUBSET S, NEW x \in S \ U, U \in Good
      PROVE  U \cup {x} \in Good
  <2>1. /\ (U \cup {x}) \ {x} = U
        /\ ((U \cup {x}) \cup T) \ {x} = U \cup T
        /\ U \cup {x} \in SUBSET S
    OBVIOUS
  <2>a. /\ IsFiniteSet(U \cup {x}) /\ x \in U \cup {x}
        /\ \A i \in U \cup {x} : f[i] \in Int
    BY <1>0, FS_AddElement
  <2>b. /\ IsFiniteSet((U \cup {x}) \cup T) /\ x \in (U \cup {x}) \cup T
        /\ \A i \in (U \cup {x}) \cup T : f[i] \in Int
    BY <2>a, FS_Union
  <2>2. Total(U \cup {x}) = f[x] + Total(U)
    BY <2>a, <2>1, SumRemove
  <2>3. Total((U \cup {x}) \cup T) = f[x] + Total(U \cup T)
    BY <2>b, <2>1, SumRemove
  <2>4. Total(U) \in Int /\ Total(T) \in Int /\ f[x] \in Int
    BY <1>0, SumType
  <2> HIDE DEF Total
  <2> QED BY <1>2, <2>1, <2>2, <2>3, <2>4
<1>3. S \in Good
  <2> HIDE DEF Good
  <2> QED BY <1>1, <1>2, FiniteInduction
<1> QED BY <1>3

\* The finite sets P[1], ..., P[n] have nothing in common and are all of U.
Parts(P, n, U) ==
    /\ \A k \in 1 .. n : IsFiniteSet(P[k]) /\ P[k] \subseteq U
    /\ \A k, l \in 1 .. n : k # l => P[k] \cap P[l] = {}
    /\ \A i \in U : \E k \in 1 .. n : i \in P[k]

\* The sum of the sums over the parts of a set is the sum over all of it.
LEMMA SumParts ==
    ASSUME NEW n \in Nat, NEW U, NEW P, Parts(P, n, U), NEW f, \A i \in U : f[i] \in Int,
           NEW g, \A k \in 1 .. n : g[k] = SumFunctionOnSet(f, P[k])
    PROVE  SumFunctionOnSet(g, 1 .. n) = SumFunctionOnSet(f, U)
<1>0. /\ \A k \in 1 .. n : /\ IsFiniteSet(P[k]) /\ P[k] \subseteq U
                           /\ g[k] = SumFunctionOnSet(f, P[k])
      /\ \A k, l \in 1 .. n : k # l => P[k] \cap P[l] = {}
      /\ \A k \in 1 .. n : \A i \in P[k] : f[i] \in Int
  BY DEF Parts
<1> DEFINE All(m) == UNION {P[k] : k \in 1 .. m}
           Good == {m \in Nat : m <= n =>
                        /\ IsFiniteSet(All(m))
                        /\ SumFunctionOnSet(g, 1 .. m) = SumFunctionOnSet(f, All(m))}
<1>1. 0 \in Good
  <2>1. 1 .. 0 = {} /\ All(0) = {}
    OBVIOUS
  <2>2. SumFunctionOnSet(g, {}) = 0 /\ SumFunctionOnSet(f, {}) = 0 /\ IsFiniteSet({})
    BY SumPicked, FS_EmptySet
  <2> HIDE DEF All
  <2> QED BY <2>1, <2>2
<1>2. ASSUME NEW m \in Nat, m \in Good PROVE m + 1 \in Good
  <2> SUFFICES ASSUME m + 1 <= n
               PROVE  /\ IsFiniteSet(All(m + 1))
                      /\ SumFunctionOnSet(g, 1 .. m + 1) = SumFunctionOnSet(f, All(m + 1))
    OBVIOUS
  <2>1. m + 1 \in 1 .. n /\ \A k \in 1 .. m : k \in 1 .. n /\ k # m + 1
    OBVIOUS
  <2>2. IsFiniteSet(All(m)) /\ SumFunctionOnSet(g, 1 .. m) = SumFunctionOnSet(f, All(m))
    BY <1>2
  <2>3. All(m + 1) = All(m) \cup P[m + 1]
    <3>1. 1 .. m + 1 = (1 .. m) \cup {m + 1}
      OBVIOUS
    <3> QED BY <3>1
  <2>4. All(m) \cap P[m + 1] = {}
    BY <1>0, <2>1
  <2>5. \A i \in All(m) \cup P[m + 1] : f[i] \in Int
    BY <1>0, <2>1
  <2>6. IsFiniteSet(P[m + 1]) /\ g[m + 1] = SumFunctionOnSet(f, P[m + 1])
    BY <1>0, <2>1
  <2>7. \A k \in 1 .. m + 1 : g[k] \in Int
    <3> SUFFICES ASSUME NEW k \in 1 .. m + 1 PROVE g[k] \in Int
      OBVIOUS
    <3>1. k \in 1 .. n
      OBVIOUS
    <3>2. IsFiniteSet(P[k]) /\ (\A i \in P[k] : f[i] \in Int) /\ g[k] = SumFunctionOnSet(f, P[k])
      BY <1>0, <3>1
    <3> QED BY <3>2, SumType
  <2>8. SumFunctionOnSet(g, 1 .. m + 1) = g[m + 1] + SumFunctionOnSet(g, 1 .. m)
    <3>1. m + 1 \in 1 .. m + 1 /\ (1 .. m + 1) \ {m + 1} = 1 .. m
      OBVIOUS
    <3>2. IsFiniteSet(1 .. m + 1)
      BY FS_Interval
    <3> QED BY <2>7, <3>1, <3>2, SumRemove
  <2> HIDE DEF All
  <2>9. /\ IsFiniteSet(All(m + 1))
        /\ SumFunctionOnSet(f, All(m + 1)) = SumFunctionOnSet(f, All(m)) + SumFunctionOnSet(f, P[m + 1])
    <3>1. SumFunctionOnSet(f, All(m) \cup P[m + 1]) =
            SumFunctionOnSet(f, All(m)) + SumFunctionOnSet(f, P[m + 1])
      BY <2>2, <2>4, <2>5, <2>6, SumUnion
    <3>2. IsFiniteSet(All(m) \cup P[m + 1])
      BY <2>2, <2>6, FS_Union
    <3> QED BY <2>3, <3>1, <3>2
  <2>10. SumFunctionOnSet(f, All(m)) \in Int /\ SumFunctionOnSet(f, P[m + 1]) \in Int
    <3>1. (\A i \in All(m) : f[i] \in Int) /\ (\A i \in P[m + 1] : f[i] \in Int)
      BY <2>5
    <3> QED BY <2>2, <2>6, <3>1, SumType
  <2> QED BY <2>2, <2>6, <2>8, <2>9, <2>10
<1>3. n \in Good
  <2> HIDE DEF Good
  <2> QED BY <1>1, <1>2, NatSetInduction
<1>4. All(n) = U
  BY DEF Parts
<1> HIDE DEF All
<1> QED BY <1>3, <1>4
=============================================================================
