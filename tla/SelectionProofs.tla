--------------------------- MODULE SelectionProofs ---------------------------
(***************************************************************************)
(* What is selected of a sequence is in the order of the sequence, and     *)
(* nothing else is; the numbers are well ordered, and what 0 has and every *)
(* number hands to the next, all have.                                     *)
(***************************************************************************)
EXTENDS Selection, SequenceTheorems, FiniteSetTheorems, TLAPS

(* A set of numbers has a least element, because the intervals 1..n are    *)
(* well founded by inclusion; so what 0 has, and n + 1 has when n has it,  *)
(* every number has.                                                       *)
LEMMA Smallest ==
  ASSUME NEW T \in SUBSET Nat, T # {}
  PROVE  \E x \in T : \A y \in T : x <= y
<1> DEFINE below == {1..n : n \in T}
<1>1. IsWellFoundedOn(StrictSubsetOrdering(Nat), FiniteSubsetsOf(Nat))
  BY FS_StrictSubsetOrderingWellFounded
<1>2. below \subseteq FiniteSubsetsOf(Nat) /\ below # {}
  <2>1. ASSUME NEW n \in T PROVE 1..n \in FiniteSubsetsOf(Nat)
    <3>1. IsFiniteSet(1..n)
      BY FS_Interval
    <3> QED BY <3>1 DEF FiniteSubsetsOf
  <2> QED BY <2>1
<1>3. PICK b \in below : \A c \in below : ~ (<<c, b>> \in StrictSubsetOrdering(Nat))
  <2> HIDE DEF below
  <2> QED BY <1>1, <1>2, WFMin
<1>4. PICK x \in T : b = 1..x
  BY <1>3
<1>5. ASSUME NEW y \in T, y < x PROVE FALSE
  <2>1. /\ 1..y \subseteq 1..x /\ x \in 1..x /\ x \notin 1..y
        /\ 1..y \in SUBSET Nat /\ 1..x \in SUBSET Nat
    BY <1>5
  <2>2. <<1..y, 1..x>> \in StrictSubsetOrdering(Nat)
    BY <2>1 DEF StrictSubsetOrdering
  <2> QED BY <2>2, <1>3, <1>4
<1> QED BY <1>5

LEMMA Induct ==
  ASSUME NEW T, 0 \in T, \A n \in Nat : n \in T => n + 1 \in T
  PROVE  Nat \subseteq T
<1> SUFFICES ASSUME Nat \ T # {} PROVE FALSE
  OBVIOUS
<1>1. PICK x \in Nat \ T : \A y \in Nat \ T : x <= y
  BY Smallest
<1>2. x # 0 /\ x - 1 \in Nat
  BY <1>1
<1>3. x - 1 \in T
  BY <1>1, <1>2
<1> QED BY <1>1, <1>2, <1>3

LEMMA Largest ==
  ASSUME NEW n \in Nat, NEW T \in SUBSET (1..n), T # {}
  PROVE  \E x \in T : \A y \in T : y <= x
<1> DEFINE U == {n - y : y \in T}
<1>1. U \in SUBSET Nat /\ U # {}
  <2>1. \A y \in T : n - y \in Nat
    OBVIOUS
  <2> QED BY <2>1
<1>2. PICK u \in U : \A v \in U : u <= v
  <2> HIDE DEF U
  <2> QED BY <1>1, Smallest
<1>3. PICK x \in T : u = n - x
  BY <1>2
<1>4. \A y \in T : n - x <= n - y
  BY <1>2, <1>3
<1> QED BY <1>4

(* Each member of a set has its rank, and each rank its member.            *)
UpTo(I, i) == {k \in I : k <= i}
LEMMA RanksGrow ==
  ASSUME NEW n \in Nat, NEW I \in SUBSET (1..n)
  PROVE  /\ IsFiniteSet(I) /\ Cardinality(I) \in Nat
         /\ \A i \in I : Rank(I, i) \in 1..Cardinality(I)
         /\ \A i, k \in I : i < k => Rank(I, i) < Rank(I, k)
<1>1. IsFiniteSet(I) /\ Cardinality(I) \in Nat
  <2>1. IsFiniteSet(1..n)
    BY FS_Interval
  <2>2. IsFiniteSet(I)
    BY <2>1, FS_Subset
  <2> QED BY <2>2, FS_CardinalityType
<1>2. ASSUME NEW i \in I
      PROVE  IsFiniteSet(UpTo(I, i)) /\ Rank(I, i) = Cardinality(UpTo(I, i))
             /\ UpTo(I, i) \in SUBSET I /\ i \in UpTo(I, i) /\ Rank(I, i) \in Nat
  <2>1. UpTo(I, i) \in SUBSET I /\ i \in UpTo(I, i)
    BY DEF UpTo
  <2>2. IsFiniteSet(UpTo(I, i))
    BY <1>1, <2>1, FS_Subset
  <2> QED BY <2>1, <2>2, FS_CardinalityType DEF Rank, UpTo
<1>3. ASSUME NEW i \in I PROVE Rank(I, i) \in 1..Cardinality(I)
  <2>1. Cardinality(UpTo(I, i)) <= Cardinality(I)
    BY <1>1, <1>2, FS_Subset
  <2>2. Cardinality(UpTo(I, i)) # 0
    BY <1>2, FS_EmptySet
  <2> QED BY <1>1, <1>2, <2>1, <2>2
<1>4. ASSUME NEW i \in I, NEW k \in I, i < k PROVE Rank(I, i) < Rank(I, k)
  <2>1. UpTo(I, i) \in SUBSET UpTo(I, k) /\ k \in UpTo(I, k) /\ k \notin UpTo(I, i)
    <3>1. i \in Nat /\ k \in Nat /\ I \subseteq Nat
      OBVIOUS
    <3>2. k \in UpTo(I, k) /\ k \notin UpTo(I, i)
      BY <3>1, <1>4 DEF UpTo
    <3>3. ASSUME NEW y \in UpTo(I, i) PROVE y \in UpTo(I, k)
      <4>1. y \in I /\ y <= i /\ y \in Nat
        BY <3>1 DEF UpTo
      <4>2. y <= k
        BY <3>1, <4>1, <1>4
      <4> QED BY <4>1, <4>2 DEF UpTo
    <3> QED BY <3>2, <3>3
  <2>2. /\ Cardinality(UpTo(I, i)) <= Cardinality(UpTo(I, k))
        /\ Cardinality(UpTo(I, k)) # Cardinality(UpTo(I, i))
    BY <1>2, <2>1, FS_Subset
  <2> QED BY <1>2, <2>2
<1> QED BY <1>1, <1>3, <1>4

LEMMA RankTaken ==
  ASSUME NEW n \in Nat, NEW I \in SUBSET (1..n), NEW m \in 1..Cardinality(I)
  PROVE  \E i \in I : Rank(I, i) = m
<1> DEFINE T == {i \in I : m <= Rank(I, i)}
<1>1. /\ IsFiniteSet(I) /\ Cardinality(I) \in Nat
      /\ \A i \in I : Rank(I, i) \in 1..Cardinality(I)
      /\ \A i, k \in I : i < k => Rank(I, i) < Rank(I, k)
  BY RanksGrow
<1>2. T # {}
  <2>1. I # {}
    BY <1>1, FS_EmptySet
  <2>2. PICK x \in I : \A y \in I : y <= x
    BY <2>1, Largest
  <2>3. UpTo(I, x) = I
    BY <2>2 DEF UpTo
  <2>4. Rank(I, x) = Cardinality(I)
    BY <2>3 DEF Rank, UpTo
  <2> QED BY <2>4, <1>1
<1>3. PICK i \in T : \A y \in T : i <= y
  <2>1. T \in SUBSET Nat
    <3>1. I \subseteq Nat
      OBVIOUS
    <3> QED BY <3>1
  <2> HIDE DEF T
  <2> QED BY <1>2, <2>1, Smallest
<1>4. i \in I /\ m <= Rank(I, i) /\ IsFiniteSet(UpTo(I, i))
  BY <1>1, FS_Subset DEF UpTo
<1>5. ASSUME m < Rank(I, i) PROVE FALSE
  <2> DEFINE below == UpTo(I, i) \ {i}
  <2>1. /\ IsFiniteSet(below)
        /\ Cardinality(below) = Cardinality(UpTo(I, i)) - 1
    BY <1>4, FS_RemoveElement DEF UpTo
  <2>2. Cardinality(below) >= m /\ Rank(I, i) \in Nat /\ Cardinality(below) \in Nat
    BY <1>1, <1>4, <1>5, <2>1 DEF Rank, UpTo
  <2>3. below # {}
    BY <2>2, FS_EmptySet
  <2>4. PICK x \in below : \A y \in below : y <= x
    <3>1. below \in SUBSET (1..n)
      BY DEF UpTo
    <3> HIDE DEF below
    <3> QED BY <2>3, <3>1, Largest
  <2>5. UpTo(I, x) = below /\ x \in I /\ x < i
    <3>1. I \subseteq Nat /\ x \in I /\ x <= i /\ x # i
      BY <2>4 DEF UpTo
    <3>2. x < i
      BY <1>4, <3>1
    <3>3. ASSUME NEW y \in below PROVE y \in UpTo(I, x)
      BY <2>4 DEF UpTo
    <3>4. ASSUME NEW y \in UpTo(I, x) PROVE y \in below
      <4>1. y \in I /\ y <= x
        BY DEF UpTo
      <4>2. y <= i /\ y # i
        BY <1>4, <3>1, <3>2, <4>1
      <4> QED BY <4>1, <4>2 DEF UpTo
    <3>5. UpTo(I, x) \subseteq below /\ below \subseteq UpTo(I, x)
      BY <3>3, <3>4
    <3> QED BY <3>1, <3>2, <3>5
  <2>6. Rank(I, x) = Cardinality(below)
    BY <2>5 DEF Rank, UpTo
  <2> QED BY <2>2, <2>5, <2>6, <1>3
<1> QED BY <1>1, <1>4, <1>5

LEMMA NthInOrder ==
  ASSUME NEW n \in Nat, NEW I \in SUBSET (1..n)
  PROVE  /\ \A m \in 1..Cardinality(I) : Nth(I, m) \in I /\ Rank(I, Nth(I, m)) = m
         /\ \A i \in I : Nth(I, Rank(I, i)) = i
<1>1. ASSUME NEW m \in 1..Cardinality(I)
      PROVE  Nth(I, m) \in I /\ Rank(I, Nth(I, m)) = m
  BY RankTaken DEF Nth
<1>2. ASSUME NEW i \in I PROVE Nth(I, Rank(I, i)) = i
  <2>1. PICK k : k = Nth(I, Rank(I, i))
    OBVIOUS
  <2>2. k \in I /\ Rank(I, k) = Rank(I, i)
    BY <1>1, <2>1, RanksGrow
  <2>3. Rank(I, i) \in Int /\ (i < k => Rank(I, i) < Rank(I, k))
        /\ (k < i => Rank(I, k) < Rank(I, i))
    <3>1. /\ Cardinality(I) \in Nat /\ Rank(I, i) \in 1..Cardinality(I)
          /\ (i < k => Rank(I, i) < Rank(I, k)) /\ (k < i => Rank(I, k) < Rank(I, i))
      BY <2>2, RanksGrow
    <3> QED BY <3>1
  <2>4. i \in Nat /\ k \in Nat
    BY <2>2
  <2> QED BY <2>1, <2>2, <2>3, <2>4
<1> QED BY <1>1, <1>2

(* w holds what s holds of S, each element from its place f.               *)
Keeps(s, S, w, f) ==
  /\ f \in [DOMAIN w -> DOMAIN s]
  /\ \A i \in DOMAIN w : w[i] = s[f[i]] /\ w[i] \in S
  /\ \A i, k \in DOMAIN w : i < k <=> f[i] < f[k]
  /\ \A m \in DOMAIN s : s[m] \in S => \E i \in DOMAIN w : f[i] = m
Subsequence(s, S, w) == \E f : Keeps(s, S, w, f)

LEMMA SelectedIsOrdered ==
  ASSUME NEW T, NEW s \in Seq(T), NEW S
  PROVE  Selected(s, S) \in Seq(T) /\ Subsequence(s, S, Selected(s, S))
<1>0. PICK I : I = Positions(s, S)
  OBVIOUS
<1>1. I \in SUBSET (1..Len(s)) /\ Len(s) \in Nat /\ DOMAIN s = 1..Len(s)
  BY <1>0 DEF Positions
<1>2. PICK c \in Nat : c = Cardinality(I)
  BY <1>1, RanksGrow
<1>3. PICK f : f = [m \in 1..c |-> Nth(I, m)]
  OBVIOUS
<1>4. /\ \A m \in 1..c : f[m] \in I /\ Rank(I, f[m]) = m
      /\ \A i \in I : Rank(I, i) \in 1..c /\ f[Rank(I, i)] = i
  BY <1>1, <1>2, <1>3, NthInOrder, RanksGrow
<1>5. PICK w : w = Selected(s, S)
  OBVIOUS
<1>6. w = [m \in 1..c |-> s[f[m]]]
  BY <1>0, <1>2, <1>3, <1>5 DEF Selected
<1>7. \A i \in I : i \in 1..Len(s) /\ s[i] \in T /\ s[i] \in S
  BY <1>0, <1>1 DEF Positions
<1>8. w \in Seq(T) /\ DOMAIN w = 1..c
  BY <1>4, <1>6, <1>7
<1>9. f \in [DOMAIN w -> DOMAIN s]
  BY <1>1, <1>3, <1>4, <1>7, <1>8
<1>10. \A i, k \in DOMAIN w : i < k <=> f[i] < f[k]
  <2> SUFFICES ASSUME NEW i \in 1..c, NEW k \in 1..c PROVE i < k <=> f[i] < f[k]
    BY <1>8
  <2>1. PICK a \in I : a = f[i] /\ Rank(I, a) = i
    BY <1>4
  <2>2. PICK b \in I : b = f[k] /\ Rank(I, b) = k
    BY <1>4
  <2>3. (a < b => i < k) /\ (b < a => k < i) /\ a \in Int /\ b \in Int
    <3>1. (a < b => Rank(I, a) < Rank(I, b)) /\ (b < a => Rank(I, b) < Rank(I, a))
      BY <1>1, RanksGrow
    <3>2. a \in 1..Len(s) /\ b \in 1..Len(s)
      BY <1>1
    <3> QED BY <2>1, <2>2, <3>1, <3>2
  <2> QED BY <2>1, <2>2, <2>3
<1>11. \A m \in DOMAIN s : s[m] \in S => \E i \in DOMAIN w : f[i] = m
  BY <1>0, <1>4, <1>8 DEF Positions
<1>12. \A i \in DOMAIN w : w[i] = s[f[i]] /\ w[i] \in S
  BY <1>4, <1>6, <1>7, <1>8
<1>13. Keeps(s, S, w, f)
  BY <1>9, <1>10, <1>11, <1>12 DEF Keeps
<1> QED BY <1>5, <1>8, <1>13 DEF Subsequence
-----------------------------------------------------------------------------
LEMMA ElementsOf ==
  ASSUME NEW T, NEW s \in Seq(T)
  PROVE  DOMAIN s = 1..Len(s) /\ Len(s) \in Nat /\ Elements(s) \subseteq T
BY LenProperties, ElementOfSeq DEF Elements

LEMMA Joined ==
  ASSUME NEW T, NEW s \in Seq(T), NEW t \in Seq(T)
  PROVE  /\ s \o t \in Seq(T) /\ Len(s \o t) = Len(s) + Len(t)
         /\ \A i \in 1..Len(s) : (s \o t)[i] = s[i]
         /\ \A i \in 1..Len(t) : (s \o t)[Len(s) + i] = t[i]
         /\ \A i \in 1..(Len(s) + Len(t)) :
              \/ i \in 1..Len(s)
              \/ i - Len(s) \in 1..Len(t) /\ (s \o t)[i] = t[i - Len(s)]
         /\ Elements(s \o t) = Elements(s) \cup Elements(t)
<1>1. Len(s) \in Nat /\ Len(t) \in Nat
  BY LenProperties
<1>2. /\ s \o t \in Seq(T) /\ Len(s \o t) = Len(s) + Len(t)
      /\ \A i \in 1..Len(s) : (s \o t)[i] = s[i]
      /\ \A i \in 1..Len(t) : (s \o t)[Len(s) + i] = t[i]
  OBVIOUS
<1>3. PICK u : u = s \o t
  OBVIOUS
<1>4. ASSUME NEW i \in 1..(Len(s) + Len(t)), i \notin 1..Len(s)
      PROVE  i - Len(s) \in 1..Len(t) /\ u[i] = t[i - Len(s)]
  <2>1. i - Len(s) \in 1..Len(t) /\ Len(s) + (i - Len(s)) = i
    BY <1>1, <1>4
  <2> QED BY <2>1, <1>2, <1>3
<1>5. DOMAIN s = 1..Len(s) /\ DOMAIN t = 1..Len(t) /\ DOMAIN u = 1..(Len(s) + Len(t))
  BY <1>2, <1>3, LenProperties
<1>6. ASSUME NEW x PROVE x \in Elements(u) <=> x \in Elements(s) \/ x \in Elements(t)
  <2>1. ASSUME x \in Elements(u) PROVE x \in Elements(s) \/ x \in Elements(t)
    <3>1. PICK i \in 1..(Len(s) + Len(t)) : u[i] = x
      BY <2>1, <1>5 DEF Elements
    <3>2. CASE i \in 1..Len(s)
      BY <3>1, <3>2, <1>2, <1>3, <1>5 DEF Elements
    <3>3. CASE i \notin 1..Len(s)
      BY <3>1, <3>3, <1>4, <1>5 DEF Elements
    <3> QED BY <3>2, <3>3
  <2>2. ASSUME x \in Elements(s) PROVE x \in Elements(u)
    <3>1. PICK i \in 1..Len(s) : s[i] = x
      BY <2>2, <1>5 DEF Elements
    <3>2. i \in 1..(Len(s) + Len(t)) /\ u[i] = x
      BY <3>1, <1>1, <1>2, <1>3
    <3> QED BY <3>2, <1>5 DEF Elements
  <2>3. ASSUME x \in Elements(t) PROVE x \in Elements(u)
    <3>1. PICK i \in 1..Len(t) : t[i] = x
      BY <2>3, <1>5 DEF Elements
    <3>2. Len(s) + i \in 1..(Len(s) + Len(t)) /\ u[Len(s) + i] = x
      BY <3>1, <1>1, <1>2, <1>3
    <3> QED BY <3>2, <1>5 DEF Elements
  <2> QED BY <2>1, <2>2, <2>3
<1>7. Elements(u) = Elements(s) \cup Elements(t)
  BY <1>6
<1> QED BY <1>2, <1>3, <1>4, <1>7

LEMMA JoinedApart ==
  ASSUME NEW T, NEW s \in Seq(T), NEW t \in Seq(T), NoRepeats(s), NoRepeats(t),
         Elements(s) \cap Elements(t) = {}
  PROVE  NoRepeats(s \o t)
<1>1. PICK u : u = s \o t
  OBVIOUS
<1>2. /\ DOMAIN s = 1..Len(s) /\ DOMAIN t = 1..Len(t) /\ DOMAIN u = 1..(Len(s) + Len(t))
      /\ Len(s) \in Nat /\ Len(t) \in Nat
  BY <1>1, Joined, LenProperties
<1>3. \A i \in DOMAIN u :
        \/ i \in 1..Len(s) /\ u[i] = s[i] /\ u[i] \in Elements(s)
        \/ i - Len(s) \in 1..Len(t) /\ u[i] = t[i - Len(s)] /\ u[i] \in Elements(t)
  BY <1>1, <1>2, Joined DEF Elements
<1>4. ASSUME NEW i \in DOMAIN u, NEW k \in DOMAIN u, u[i] = u[k] PROVE i = k
  <2>1. CASE i \in 1..Len(s) /\ u[i] = s[i] /\ u[i] \in Elements(s)
    <3>1. k \in 1..Len(s) /\ u[k] = s[k]
      BY <2>1, <1>3, <1>4
    <3> QED BY <2>1, <3>1, <1>2, <1>4 DEF NoRepeats
  <2>2. CASE i - Len(s) \in 1..Len(t) /\ u[i] = t[i - Len(s)] /\ u[i] \in Elements(t)
    <3>1. k - Len(s) \in 1..Len(t) /\ u[k] = t[k - Len(s)]
      BY <2>2, <1>3, <1>4
    <3>2. i - Len(s) = k - Len(s)
      BY <2>2, <3>1, <1>2, <1>4 DEF NoRepeats
    <3> QED BY <3>2, <1>2
  <2> QED BY <2>1, <2>2, <1>3
<1> QED BY <1>1, <1>4 DEF NoRepeats

(* Without keeps the order, and leaves out js only.                        *)
LEMMA WithoutKeeps ==
  ASSUME NEW T, NEW w \in Seq(T), NEW js, NEW v, v = Without(w, js)
  PROVE  /\ v \in Seq(T) /\ Elements(v) = Elements(w) \ js
         /\ NoRepeats(w) => NoRepeats(v)
         /\ \A i, n \in DOMAIN v : i < n =>
              \E a, c \in DOMAIN w : a < c /\ w[a] = v[i] /\ w[c] = v[n]
<1>1. PICK S : S = Elements(w) \ js
  OBVIOUS
<1>2. v \in Seq(T) /\ Subsequence(w, S, v)
  BY <1>1, SelectedIsOrdered DEF Without
<1>3. PICK f : Keeps(w, S, v, f)
  BY <1>2 DEF Subsequence
<1>4. /\ \A i \in DOMAIN v : f[i] \in DOMAIN w /\ v[i] = w[f[i]] /\ v[i] \in S
      /\ \A i, k \in DOMAIN v : i < k <=> f[i] < f[k]
      /\ \A m \in DOMAIN w : w[m] \in S => \E i \in DOMAIN v : f[i] = m
  BY <1>3 DEF Keeps
<1>5. Elements(v) = Elements(w) \ js
  BY <1>1, <1>4 DEF Elements
<1>6. ASSUME NoRepeats(w), NEW i \in DOMAIN v, NEW k \in DOMAIN v, v[i] = v[k] PROVE i = k
  <2>1. f[i] = f[k]
    BY <1>4, <1>6 DEF NoRepeats
  <2>2. ~ (f[i] < f[k]) /\ ~ (f[k] < f[i])
    <3>1. f[i] \in Nat /\ f[k] \in Nat
      BY <1>4, LenProperties
    <3> QED BY <2>1, <3>1
  <2>3. i \in Nat /\ k \in Nat
    BY <1>2, LenProperties
  <2> QED BY <1>4, <2>2, <2>3
<1> QED BY <1>2, <1>4, <1>5, <1>6 DEF NoRepeats

LEMMA TailWithoutHead ==
  ASSUME NEW T, NEW b \in Seq(T), b # << >>, NoRepeats(b)
  PROVE  /\ Tail(b) \in Seq(T) /\ NoRepeats(Tail(b)) /\ Head(b) \in Elements(b)
         /\ Elements(Tail(b)) = Elements(b) \ {Head(b)}
<1>1. PICK n : n = Len(b)
  OBVIOUS
<1>2. PICK c : c = Tail(b)
  OBVIOUS
<1>3. /\ n \in Nat /\ n > 0 /\ DOMAIN b = 1..n /\ Head(b) = b[1]
      /\ c \in Seq(T) /\ DOMAIN c = 1..(n - 1) /\ \A i \in 1..(n - 1) : c[i] = b[i + 1]
  <2>1. n \in Nat /\ n > 0 /\ DOMAIN b = 1..n /\ Head(b) = b[1]
    BY <1>1, LenProperties, HeadTailProperties, EmptySeq
  <2>2. c \in Seq(T) /\ Len(c) = n - 1 /\ \A i \in 1..(n - 1) : c[i] = b[i + 1]
    BY <1>1, <1>2, HeadTailProperties
  <2> QED BY <2>1, <2>2, LenProperties
<1>4. \A i \in 1..(n - 1) : i + 1 \in 1..n /\ i + 1 # 1 /\ i \in Int
  BY <1>3
<1>5. \A i \in 1..n : i # 1 => i - 1 \in 1..(n - 1) /\ (i - 1) + 1 = i
  BY <1>3
<1>6. 1 \in 1..n
  BY <1>3
<1>7. ASSUME NEW i \in DOMAIN c, NEW k \in DOMAIN c, c[i] = c[k] PROVE i = k
  <2>1. i \in 1..(n - 1) /\ k \in 1..(n - 1)
    BY <1>3
  <2>2. PICK x \in 1..n, y \in 1..n : x = i + 1 /\ y = k + 1
    BY <2>1, <1>4
  <2>3. b[x] = b[y]
    BY <2>1, <2>2, <1>3, <1>7
  <2>4. x = y
    BY <2>3, <1>3 DEF NoRepeats
  <2> QED BY <2>1, <2>2, <2>4, <1>4
<1>8. ASSUME NEW x \in Elements(c) PROVE x \in Elements(b) /\ x # b[1]
  <2>1. PICK i \in 1..(n - 1) : c[i] = x
    BY <1>3, <1>8 DEF Elements
  <2>2. b[i + 1] = x /\ i + 1 \in 1..n /\ i + 1 # 1
    BY <2>1, <1>3, <1>4
  <2> QED BY <2>2, <1>3, <1>6 DEF Elements, NoRepeats
<1>9. ASSUME NEW x \in Elements(b), x # b[1] PROVE x \in Elements(c)
  <2>1. PICK i \in 1..n : b[i] = x
    BY <1>3, <1>9 DEF Elements
  <2>2. i - 1 \in 1..(n - 1) /\ c[i - 1] = x
    BY <2>1, <1>3, <1>5, <1>9
  <2> QED BY <2>2, <1>3 DEF Elements
<1>10. Elements(c) = Elements(b) \ {b[1]}
  BY <1>8, <1>9
<1>11. NoRepeats(c) /\ b[1] \in Elements(b)
  BY <1>3, <1>6, <1>7 DEF NoRepeats, Elements
<1> QED BY <1>2, <1>3, <1>10, <1>11

(* Two sequences without repetitions that have the same elements are as    *)
(* long as each other.                                                     *)
LEMMA LengthOfSet ==
  ASSUME NEW T, NEW s \in Seq(T), NoRepeats(s)
  PROVE  Cardinality(Elements(s)) = Len(s)
<1>1. DOMAIN s = 1..Len(s) /\ Len(s) \in Nat
  BY LenProperties
<1>2. s \in Bijection(1..Len(s), Elements(s))
  <2>1. s \in [1..Len(s) -> Elements(s)]
    BY <1>1 DEF Elements
  <2> QED BY <1>1, <2>1 DEF Bijection, Injection, Surjection, IsInjective, NoRepeats, Elements
<1>3. IsFiniteSet(1..Len(s)) /\ Cardinality(1..Len(s)) = Len(s)
  BY <1>1, FS_Interval
<1>4. ExistsBijection(1..Len(s), Elements(s))
  BY <1>2 DEF ExistsBijection
<1>5. Cardinality(Elements(s)) = Cardinality(1..Len(s))
  BY <1>3, <1>4, FS_Bijection
<1> QED BY <1>3, <1>5
=============================================================================
