--------------------------- MODULE Framing_proofs ---------------------------
(***************************************************************************)
(* The five invariants of Framing, for any sizes, any texts and any number *)
(* of messages, faults and resends.  First the codecs: UTF-8 and the V6A   *)
(* packet give back what they were given, and so do the pieces a packet is *)
(* cut into.  Then the inductive invariant: every payload, frame and group *)
(* is of one message written, and the histories of the model say what has  *)
(* become of it.  Last the steps, one lemma each.                          *)
(*                                                                         *)
(* What is computed by going through a sequence is reasoned about with     *)
(* sets: a number up to which something holds is a member of a set of      *)
(* numbers, which has a least member that is not (LeastNatural, UpTo).     *)
(***************************************************************************)
EXTENDS Framing, FiniteSetTheorems, SequenceTheorems, TLAPS

(* A set of numbers has a least one: what stands for induction here.       *)
LEMMA LeastNatural ==
  ASSUME NEW S \in SUBSET Nat, S # {}
  PROVE  \E n \in S : \A k \in S : n <= k
<1> DEFINE T == {0 .. n - 1 : n \in S}
<1>1. \E x \in T : \A y \in T : ~ (<<y, x>> \in StrictSubsetOrdering(Nat))
  <2>1. T \subseteq FiniteSubsetsOf(Nat) /\ T # {}
    <3> SUFFICES ASSUME NEW n \in Nat PROVE IsFiniteSet(0 .. n - 1) /\ 0 .. n - 1 \subseteq Nat
      BY DEF FiniteSubsetsOf
    <3> QED BY FS_Interval
  <2> HIDE DEF T
  <2> QED BY <2>1, FS_StrictSubsetOrderingWellFounded, WFMin
<1>2. PICK n \in S : \A y \in T : ~ (<<y, 0 .. n - 1>> \in StrictSubsetOrdering(Nat))
  BY <1>1
<1>3. ASSUME NEW k \in S, k < n PROVE FALSE
  <2>1. 0 .. k - 1 \in T OBVIOUS
  <2>2. 0 .. k - 1 \subseteq 0 .. n - 1 /\ k \in 0 .. n - 1 /\ k \notin 0 .. k - 1
    BY <1>3
  <2>3. <<0 .. k - 1, 0 .. n - 1>> \in StrictSubsetOrdering(Nat)
    BY <2>2 DEF StrictSubsetOrdering
  <2> QED BY <1>2, <2>1, <2>3
<1> QED BY <1>3

(* Induction up to n, on a set instead of a formula.                       *)
LEMMA UpTo ==
  ASSUME NEW n \in Nat, NEW S, 0 \in S, \A k \in 0 .. n - 1 : k \in S => k + 1 \in S
  PROVE  0 .. n \subseteq S
<1> DEFINE T == {k \in 0 .. n : k \notin S}
<1>1. SUFFICES ASSUME T # {} PROVE FALSE
  OBVIOUS
<1>2. PICK k \in T : \A j \in T : k <= j
  <2>1. T \in SUBSET Nat
    OBVIOUS
  <2> HIDE DEF T
  <2> QED BY <1>1, <2>1, LeastNatural
<1>3. k # 0 /\ k - 1 \in 0 .. n - 1 /\ k - 1 \notin T
  BY <1>2
<1> QED BY <1>2, <1>3

(* f[k] joins the first k parts of s.                                      *)
Joins(f, s, n) == f = [k \in 1 .. n |-> IF k = 1 THEN s[k] ELSE f[k - 1] \o s[k]]

(* How one part is joined to those before it.                              *)
LEMMA JoinsStep ==
  ASSUME NEW n, NEW s, NEW f, Joins(f, s, n), NEW k \in 1 .. n
  PROVE  f[k] = IF k = 1 THEN s[k] ELSE f[k - 1] \o s[k]
<1> DEFINE g == [i \in 1 .. n |-> IF i = 1 THEN s[i] ELSE f[i - 1] \o s[i]]
<1>1. g[k] = IF k = 1 THEN s[k] ELSE f[k - 1] \o s[k]
  OBVIOUS
<1>2. f = g
  BY DEF Joins
<1> HIDE DEF g
<1> QED BY <1>1, <1>2

(* The fold of FlattenSeq exists, because its graph does up to every part. *)
LEMMA JoinsExists ==
  ASSUME NEW T, NEW n \in Nat, NEW s, \A k \in 1 .. n : s[k] \in Seq(T)
  PROVE  \E f \in [1 .. n -> Seq(T)] : Joins(f, s, n)
<1> DEFINE Good == {m \in 0 .. n : \E f \in [1 .. m -> Seq(T)] : Joins(f, s, m)}
<1>1. 0 \in Good
  <2> DEFINE e == [k \in 1 .. 0 |-> <<>>]
  <2>1. e \in [1 .. 0 -> Seq(T)] /\ Joins(e, s, 0)
    BY DEF Joins
  <2>2. 0 \in 0 .. n
    OBVIOUS
  <2> HIDE DEF e
  <2> QED BY <2>1, <2>2
<1>2. ASSUME NEW m \in 0 .. n - 1, m \in Good PROVE m + 1 \in Good
  <2>1. PICK f : f \in [1 .. m -> Seq(T)] /\ Joins(f, s, m)
    BY <1>2
  <2>6. \A k \in 1 .. m : f[k] = IF k = 1 THEN s[k] ELSE f[k - 1] \o s[k]
    BY <2>1 DEF Joins
  <2> DEFINE g == [k \in 1 .. m + 1 |-> IF k <= m THEN f[k] ELSE
                     IF k = 1 THEN s[k] ELSE f[k - 1] \o s[k]]
  <2>2. g \in [1 .. m + 1 -> Seq(T)]
    <3> SUFFICES ASSUME NEW k \in 1 .. m + 1 PROVE g[k] \in Seq(T)
      OBVIOUS
    <3>1. k \in 1 .. n /\ m \in Nat /\ s[k] \in Seq(T)
      OBVIOUS
    <3>2. CASE k <= m
      BY <2>1, <3>1, <3>2
    <3>3. CASE k > m
      BY <2>1, <3>1, <3>3, ConcatProperties
    <3> QED BY <3>1, <3>2, <3>3
  <2>3. ASSUME NEW k \in 1 .. m + 1
        PROVE  g[k] = IF k = 1 THEN s[k] ELSE g[k - 1] \o s[k]
    <3>1. CASE k <= m
      <4>1. k \in 1 .. m BY <3>1
      <4>2. f[k] = IF k = 1 THEN s[k] ELSE f[k - 1] \o s[k]
        BY <2>6, <4>1
      <4>3. k # 1 => g[k - 1] = f[k - 1]
        BY <4>1
      <4> QED BY <3>1, <4>2, <4>3
    <3>2. CASE k > m
      <4>1. k # 1 => g[k - 1] = f[k - 1]
        BY <3>2
      <4> QED BY <4>1, <3>2
    <3> QED BY <3>1, <3>2
  <2>4. Joins(g, s, m + 1)
    <3>1. g = [k \in 1 .. m + 1 |-> g[k]]
      OBVIOUS
    <3> HIDE DEF g
    <3> QED BY <2>3, <3>1 DEF Joins
  <2>5. m + 1 \in 0 .. n
    OBVIOUS
  <2> HIDE DEF g
  <2> QED BY <2>2, <2>4, <2>5
<1>3. n \in Good
  <2> HIDE DEF Good
  <2>1. \A k \in 0 .. n - 1 : k \in Good => k + 1 \in Good
    BY <1>2
  <2>2. 0 .. n \subseteq Good
    BY <1>1, <2>1, UpTo
  <2> QED BY <2>2
<1> QED BY <1>3

(* There is one such function only.                                        *)
LEMMA JoinsUnique ==
  ASSUME NEW n \in Nat, NEW s, NEW f, Joins(f, s, n), NEW h, Joins(h, s, n)
  PROVE  h = f
<1> DEFINE Same == {m \in 0 .. n : \A k \in 1 .. m : h[k] = f[k]}
<1>1. 0 \in Same
  OBVIOUS
<1>2. ASSUME NEW m \in 0 .. n - 1, m \in Same PROVE m + 1 \in Same
  <2>1. m + 1 \in 1 .. n
    OBVIOUS
  <2>2. h[m + 1] = f[m + 1]
    <3>1. h[m + 1] = IF m + 1 = 1 THEN s[m + 1] ELSE h[m + 1 - 1] \o s[m + 1]
      BY <2>1, JoinsStep
    <3>2. f[m + 1] = IF m + 1 = 1 THEN s[m + 1] ELSE f[m + 1 - 1] \o s[m + 1]
      BY <2>1, JoinsStep
    <3>3. m + 1 # 1 => m + 1 - 1 \in 1 .. m
      OBVIOUS
    <3> QED BY <1>2, <3>1, <3>2, <3>3
  <2>3. \A k \in 1 .. m + 1 : k \in 1 .. m \/ k = m + 1
    OBVIOUS
  <2> QED BY <1>2, <2>2, <2>3
<1>3. n \in Same
  <2> HIDE DEF Same
  <2> QED BY <1>1, <1>2, UpTo
<1>4. \A k \in 1 .. n : h[k] = f[k]
  BY <1>3
<1>5. h = [k \in 1 .. n |-> h[k]] /\ f = [k \in 1 .. n |-> f[k]]
  BY DEF Joins
<1> QED BY <1>4, <1>5

(* s is n sequences over T.                                                *)
PartsIn(s, n, T) == s \in [1 .. n -> Seq(T)]

(* f[k] is the first k parts of s, flattened.                              *)
PrefixesOf(f, s, n, T) ==
  /\ f \in [0 .. n -> Seq(T)]
  /\ f[0] = <<>> /\ f[n] = FlattenSeq(s)
  /\ \A k \in 1 .. n : f[k] = f[k - 1] \o s[k]

(* A flattened sequence is the last of its prefixes.                       *)
LEMMA FlattenPrefixes ==
  ASSUME NEW T, NEW n \in Nat, NEW s, PartsIn(s, n, T)
  PROVE  \E f : PrefixesOf(f, s, n, T)
<1>0. s \in Seq(Seq(T)) /\ Len(s) = n /\ \A k \in 1 .. n : s[k] \in Seq(T)
  BY IsASeq, LenProperties DEF PartsIn
<1>1. CASE n = 0
  <2>1. FlattenSeq(s) = <<>>
    BY <1>0, <1>1, EmptySeq DEF FlattenSeq
  <2> DEFINE e == [k \in 0 .. n |-> <<>>]
  <2>2. e \in [0 .. n -> Seq(T)] /\ e[0] = <<>> /\ e[n] = <<>>
    BY <1>1
  <2> HIDE DEF e
  <2> QED BY <1>1, <2>1, <2>2 DEF PrefixesOf
<1>2. CASE n # 0
  <2>1. PICK f : f \in [1 .. n -> Seq(T)] /\ Joins(f, s, n)
    BY <1>0, JoinsExists
  <2>8. \A k \in 1 .. n : f[k] = IF k = 1 THEN s[k] ELSE f[k - 1] \o s[k]
    BY <2>1 DEF Joins
  <2> DEFINE h == CHOOSE g : Joins(g, s, n)
  <2>2. Joins(h, s, n)
    BY <2>1
  <2>3. FlattenSeq(s) = h[n]
    BY <1>0, <1>2 DEF FlattenSeq, Joins
  <2> HIDE DEF h
  <2>4. h = f
    BY <2>1, <2>2, JoinsUnique
  <2> DEFINE g == [k \in 0 .. n |-> IF k = 0 THEN <<>> ELSE f[k]]
  <2>5. g \in [0 .. n -> Seq(T)]
    BY <2>1
  <2>6. g[0] = <<>> /\ g[n] = FlattenSeq(s)
    BY <1>2, <2>3, <2>4
  <2>7. ASSUME NEW k \in 1 .. n PROVE g[k] = g[k - 1] \o s[k]
    <3>1. g[k] = f[k] OBVIOUS
    <3>2. f[k] = IF k = 1 THEN s[k] ELSE f[k - 1] \o s[k]
      BY <2>8
    <3>3. CASE k = 1
      <4>1. g[k - 1] = <<>> /\ s[k] \in Seq(T)
        BY <1>0, <3>3
      <4>2. <<>> \o s[k] = s[k]
        BY <4>1, ConcatEmptySeq
      <4> QED BY <3>1, <3>2, <3>3, <4>1, <4>2
    <3>4. CASE k # 1
      <4>1. g[k - 1] = f[k - 1] BY <3>4
      <4> QED BY <3>1, <3>2, <3>4, <4>1
    <3> QED BY <3>3, <3>4
  <2> HIDE DEF g
  <2> QED BY <2>5, <2>6, <2>7 DEF PrefixesOf
<1> QED BY <1>1, <1>2

(* Where the elements of a concatenation come from.                        *)
LEMMA ConcatAt ==
  ASSUME NEW T, NEW a \in Seq(T), NEW b \in Seq(T)
  PROVE  /\ a \o b \in Seq(T) /\ Len(a \o b) = Len(a) + Len(b)
         /\ \A j \in 1 .. Len(a) : (a \o b)[j] = a[j]
         /\ \A j \in 1 .. Len(b) : (a \o b)[Len(a) + j] = b[j]
<1>1. Len(a) \in Nat /\ Len(b) \in Nat
  BY LenProperties
<1>2. ASSUME NEW j \in 1 .. Len(b) PROVE (a \o b)[Len(a) + j] = b[j]
  <2>1. Len(a) + j \in 1 .. Len(a) + Len(b) /\ ~(Len(a) + j <= Len(a)) /\ (Len(a) + j) - Len(a) = j
    BY <1>1
  <2> QED BY <2>1, ConcatProperties
<1> QED BY <1>1, <1>2, ConcatProperties

(* Rounding down.                                                          *)
LEMMA DivBounds ==
  ASSUME NEW n \in Nat, NEW d \in Nat \ {0}
  PROVE  n \div d \in Nat /\ (n \div d) * d <= n /\ n < (n \div d) * d + d
OBVIOUS

(* A remainder is in range, and differs by a multiple.                     *)
LEMMA ModBounds ==
  ASSUME NEW n \in Int, NEW d \in Nat \ {0}
  PROVE  n % d \in 0 .. d - 1 /\ \E q \in Int : n = q * d + (n % d)
<1>1. n = (n \div d) * d + (n % d) /\ n \div d \in Int
  OBVIOUS
<1>2. n % d \in 0 .. d - 1
  OBVIOUS
<1> QED BY <1>1, <1>2

(* Between -d and d there is no multiple of d but 0.                       *)
LEMMA NoMultiple ==
  ASSUME NEW d \in Nat \ {0}, NEW k \in Int, k * d < d, -d < k * d
  PROVE  k = 0
<1>1. k >= 1 => k * d >= d
  OBVIOUS
<1>2. k <= -1 => k * d <= -d
  OBVIOUS
<1> QED BY <1>1, <1>2

(* Numbers that differ by a multiple have the same remainder.              *)
LEMMA SameRemainder ==
  ASSUME NEW d \in Nat \ {0}, NEW a \in Int, NEW b \in Int, NEW q \in Int, a = b + q * d
  PROVE  a % d = b % d
<1>1. PICK x \in Int : a = x * d + (a % d)
  BY ModBounds
<1>2. PICK y \in Int : b = y * d + (b % d)
  BY ModBounds
<1> DEFINE r == a % d
           s == b % d
           k == y + q - x
<1>3. r \in 0 .. d - 1 /\ s \in 0 .. d - 1
  BY ModBounds
<1>4. k * d = r - s /\ k \in Int
  <2>1. k * d = y * d + q * d - x * d
    OBVIOUS
  <2>2. a = x * d + r /\ b = y * d + s
    BY <1>1, <1>2
  <2>3. x * d \in Int /\ y * d \in Int /\ q * d \in Int /\ k * d \in Int
    OBVIOUS
  <2> HIDE DEF k, r, s
  <2> QED BY <1>3, <2>1, <2>2, <2>3 DEF k
<1>5. k = 0
  <2> HIDE DEF k, r, s
  <2> QED BY <1>3, <1>4, NoMultiple
<1> HIDE DEF k, r, s
<1>6. r = s
  BY <1>3, <1>4, <1>5
<1> QED BY <1>6 DEF r, s

(* Where the parts of a flattened sequence t lie in it.                    *)
Offsets(o, t, s, n) ==
  /\ o \in [0 .. n -> Nat] /\ o[0] = 0 /\ o[n] = Len(t)
  /\ \A k \in 1 .. n : o[k] = o[k - 1] + Len(s[k])
  /\ \A k \in 1 .. n : \A j \in 1 .. Len(s[k]) : t[o[k - 1] + j] = s[k][j]

(* The offsets o grow, and every place lies between two of them.           *)
Ordered(o, n) ==
  /\ \A i \in 0 .. n : \A k \in i .. n : o[i] <= o[k]
  /\ \A p \in 1 .. o[n] : \E k \in 1 .. n : p \in o[k - 1] + 1 .. o[k]

(* The parts of a flattened sequence lie behind one another.               *)
LEMMA FlattenOffsets ==
  ASSUME NEW T, NEW n \in Nat, NEW s, PartsIn(s, n, T)
  PROVE  /\ FlattenSeq(s) \in Seq(T)
         /\ \E o : Offsets(o, FlattenSeq(s), s, n) /\ Ordered(o, n)
<1>0. PICK f : PrefixesOf(f, s, n, T)
  BY FlattenPrefixes
<1>1. /\ f \in [0 .. n -> Seq(T)] /\ s \in [1 .. n -> Seq(T)]
      /\ f[0] = <<>> /\ f[n] = FlattenSeq(s)
      /\ \A k \in 1 .. n : f[k] = f[k - 1] \o s[k]
  BY <1>0 DEF PrefixesOf, PartsIn
<1> DEFINE o == [k \in 0 .. n |-> Len(f[k])]
<1>2. o \in [0 .. n -> Nat] /\ o[0] = 0 /\ o[n] = Len(FlattenSeq(s))
  BY <1>1, EmptySeq
<1>3. ASSUME NEW k \in 1 .. n
      PROVE  /\ k \in 0 .. n /\ k - 1 \in 0 .. n /\ s[k] \in Seq(T)
             /\ o[k] = o[k - 1] + Len(s[k]) /\ o[k - 1] <= o[k]
             /\ \A j \in 1 .. o[k - 1] : f[k][j] = f[k - 1][j]
             /\ \A j \in 1 .. Len(s[k]) : f[k][o[k - 1] + j] = s[k][j]
  <2>1. k \in 0 .. n /\ k - 1 \in 0 .. n
    OBVIOUS
  <2>2. f[k] = f[k - 1] \o s[k] /\ f[k - 1] \in Seq(T) /\ s[k] \in Seq(T)
    BY <1>1, <2>1
  <2>3. o[k] = Len(f[k]) /\ o[k - 1] = Len(f[k - 1])
    BY <2>1
  <2> HIDE DEF o
  <2>4. o[k - 1] \in Nat /\ o[k] = o[k - 1] + Len(s[k])
    BY <2>2, <2>3, ConcatProperties
  <2>5. PICK a, b, c, m : a = f[k - 1] /\ b = s[k] /\ c = f[k] /\ m = o[k - 1]
    OBVIOUS
  <2>9. c = a \o b /\ a \in Seq(T) /\ b \in Seq(T) /\ m = Len(a)
    BY <2>2, <2>3, <2>5
  <2>10. (\A j \in 1 .. m : c[j] = a[j]) /\ (\A j \in 1 .. Len(b) : c[m + j] = b[j])
    BY ONLY <2>9, ConcatAt
  <2>7. /\ \A j \in 1 .. o[k - 1] : f[k][j] = f[k - 1][j]
        /\ \A j \in 1 .. Len(s[k]) : f[k][o[k - 1] + j] = s[k][j]
    BY ONLY <2>5, <2>10
  <2>6. Len(s[k]) \in Nat
    BY <2>2, LenProperties
  <2>8. o[k - 1] <= o[k]
    BY <2>4, <2>6
  <2> QED BY ONLY <2>1, <2>2, <2>4, <2>7, <2>8, Zenon
<1> HIDE DEF o
<1>4. ASSUME NEW i \in 0 .. n
      PROVE  \A k \in i .. n : o[i] <= o[k] /\ \A j \in 1 .. o[i] : f[k][j] = f[i][j]
  <2> DEFINE S == {d \in 0 .. n - i : /\ o[i] <= o[i + d]
                                      /\ \A j \in 1 .. o[i] : f[i + d][j] = f[i][j]}
  <2>1. 0 \in S
    BY <1>2
  <2>2. ASSUME NEW d \in 0 .. (n - i) - 1, d \in S PROVE d + 1 \in S
    <3>1. i + d + 1 \in 1 .. n /\ i + d \in 0 .. n /\ d + 1 \in 0 .. n - i
      OBVIOUS
    <3>2. /\ o[i + d] <= o[i + d + 1]
          /\ \A j \in 1 .. o[i + d] : f[i + d + 1][j] = f[i + d][j]
      BY <1>3, <3>1
    <3>3. o[i] \in Nat /\ o[i + d] \in Nat /\ o[i + d + 1] \in Nat
      BY <1>2, <3>1
    <3> QED BY <2>2, <3>1, <3>2, <3>3
  <2>3. 0 .. n - i \subseteq S
    <3>1. n - i \in Nat
      OBVIOUS
    <3> HIDE DEF S
    <3> QED BY <2>1, <2>2, <3>1, UpTo
  <2> SUFFICES ASSUME NEW k \in i .. n
               PROVE  o[i] <= o[k] /\ \A j \in 1 .. o[i] : f[k][j] = f[i][j]
    OBVIOUS
  <2>4. k - i \in S
    BY <2>3
  <2> QED BY <2>4
<1>5. ASSUME NEW k \in 1 .. n, NEW j \in 1 .. Len(s[k])
      PROVE  FlattenSeq(s)[o[k - 1] + j] = s[k][j]
  <2>1. o[k - 1] + j \in 1 .. o[k]
    BY <1>2, <1>3
  <2>2. f[n][o[k - 1] + j] = f[k][o[k - 1] + j]
    BY <1>3, <1>4, <2>1
  <2> QED BY <1>1, <1>3, <2>2
<1>6. ASSUME NEW p \in 1 .. o[n]
      PROVE  \E k \in 1 .. n : p \in o[k - 1] + 1 .. o[k]
  <2> DEFINE S == {k \in 0 .. n : p <= o[k]}
  <2>1. S \in SUBSET Nat /\ S # {}
    BY <1>2
  <2>2. PICK k \in S : \A j \in S : k <= j
    <3> HIDE DEF S
    <3> QED BY <2>1, LeastNatural
  <2>3. k # 0
    BY <1>2
  <2>4. k \in 1 .. n /\ k - 1 \in 0 .. n /\ k - 1 \notin S
    BY <2>2, <2>3
  <2>5. o[k - 1] < p /\ p <= o[k]
    BY <1>2, <2>4
  <2> QED BY <1>2, <2>4, <2>5
<1>7. FlattenSeq(s) \in Seq(T)
  BY <1>1
<1>8. Offsets(o, FlattenSeq(s), s, n)
  BY <1>2, <1>3, <1>5 DEF Offsets
<1>9. Ordered(o, n)
  BY <1>4, <1>6 DEF Ordered
<1> QED BY <1>7, <1>8, <1>9

(* A sequence is flattened from its parts if they lie behind one another   *)
(* in it.                                                                  *)
LEMMA FlattenIs ==
  ASSUME NEW T, NEW n \in Nat, NEW s, PartsIn(s, n, T), NEW t \in Seq(T),
         NEW o, Offsets(o, t, s, n)
  PROVE  FlattenSeq(s) = t
<1>0. PICK a : Offsets(a, FlattenSeq(s), s, n) /\ Ordered(a, n)
  BY FlattenOffsets
<1>1. /\ a \in [0 .. n -> Nat] /\ a[0] = 0 /\ a[n] = Len(FlattenSeq(s))
      /\ \A k \in 1 .. n : a[k] = a[k - 1] + Len(s[k])
      /\ \A k \in 1 .. n : \A j \in 1 .. Len(s[k]) :
           FlattenSeq(s)[a[k - 1] + j] = s[k][j]
      /\ \A p \in 1 .. a[n] : \E k \in 1 .. n : p \in a[k - 1] + 1 .. a[k]
  BY <1>0 DEF Offsets, Ordered
<1>9. /\ o \in [0 .. n -> Nat] /\ o[0] = 0 /\ o[n] = Len(t)
      /\ \A k \in 1 .. n : o[k] = o[k - 1] + Len(s[k])
      /\ \A k \in 1 .. n : \A j \in 1 .. Len(s[k]) : t[o[k - 1] + j] = s[k][j]
  BY DEF Offsets
<1>10. \A k \in 1 .. n : s[k] \in Seq(T)
  BY DEF PartsIn
<1>2. \A k \in 0 .. n : a[k] = o[k]
  <2> DEFINE S == {k \in 0 .. n : a[k] = o[k]}
  <2>1. 0 \in S
    BY <1>1, <1>9
  <2>2. ASSUME NEW k \in 0 .. n - 1, k \in S PROVE k + 1 \in S
    <3>1. k + 1 \in 1 .. n /\ k + 1 \in 0 .. n /\ (k + 1) - 1 = k
      OBVIOUS
    <3>2. a[k + 1] = a[k] + Len(s[k + 1]) /\ o[k + 1] = o[k] + Len(s[k + 1])
      BY <1>1, <1>9, <3>1
    <3> QED BY <2>2, <3>1, <3>2
  <2>3. 0 .. n \subseteq S
    <3> HIDE DEF S
    <3> QED BY <2>1, <2>2, UpTo
  <2> QED BY <2>3
<1>3. FlattenSeq(s) \in Seq(T)
  BY FlattenOffsets
<1>4. Len(FlattenSeq(s)) = Len(t)
  BY <1>1, <1>2, <1>9
<1>5. ASSUME NEW p \in 1 .. Len(t) PROVE FlattenSeq(s)[p] = t[p]
  <2>1. PICK k \in 1 .. n : p \in a[k - 1] + 1 .. a[k]
    BY <1>1, <1>4
  <2>2. k - 1 \in 0 .. n /\ k \in 0 .. n /\ s[k] \in Seq(T) /\ Len(s[k]) \in Nat
    BY <1>10, LenProperties
  <2>3. p - a[k - 1] \in 1 .. Len(s[k]) /\ a[k - 1] \in Nat /\ a[k - 1] = o[k - 1]
    <3>1. a[k - 1] = o[k - 1] /\ a[k - 1] \in Nat /\ a[k] = a[k - 1] + Len(s[k])
      BY <1>1, <1>2, <2>2
    <3> QED BY ONLY <2>1, <2>2, <3>1
  <2>4. a[k - 1] + (p - a[k - 1]) = p
    BY <2>3
  <2>5. t[o[k - 1] + (p - a[k - 1])] = s[k][p - a[k - 1]]
    BY <1>9, <2>3
  <2>6. FlattenSeq(s)[a[k - 1] + (p - a[k - 1])] = s[k][p - a[k - 1]]
    BY <1>1, <2>3
  <2> QED BY <2>3, <2>4, <2>5, <2>6
<1> QED BY <1>3, <1>4, <1>5, SeqEqual

(* The sizes are positive, and the smallest cut holds a packet header.     *)
LEMMA Positive ==
  /\ {V6A_HEADER, V7_HEADER, BITCHAT_HEADER, CHAT_HEADER, MAX_PAYLOAD,
        MAX_FRAGMENTS, MAX_GROUPS, HALF} \subseteq Nat \ {0}
  /\ MAX_PAYLOAD - BITCHAT_HEADER - CHAT_HEADER - V7_HEADER >= V6A_HEADER
BY FramingAssumption

-----------------------------------------------------------------------------
(* Sequence numbers.                                                       *)

(* The signed reading of a number is in range, and differs from it by a    *)
(* multiple.                                                               *)
LEMMA SignedIsCongruent ==
  ASSUME NEW n \in Nat
  PROVE  /\ Signed(n) \in -HALF .. HALF - 1
         /\ \E q \in Int : n = q * NUMBERS + Signed(n)
<1> DEFINE u == n % NUMBERS
<1>1. NUMBERS \in Nat \ {0} /\ HALF \in Nat \ {0} /\ NUMBERS = 2 * HALF
  BY Positive DEF NUMBERS
<1>2. u \in 0 .. NUMBERS - 1 /\ \E q \in Int : n = q * NUMBERS + u
  <2>1. PICK d : d = NUMBERS
    OBVIOUS
  <2>2. n \in Int /\ d \in Nat \ {0}
    BY <1>1, <2>1
  <2>3. n % d \in 0 .. d - 1 /\ \E q \in Int : n = q * d + (n % d)
    BY ONLY <2>2, ModBounds
  <2> QED BY <2>1, <2>3
<1> HIDE DEF u
<1>3. PICK q \in Int : n = q * NUMBERS + u
  BY <1>2
<1>4. Signed(n) = IF u >= HALF THEN u - NUMBERS ELSE u
  BY DEF Signed, u
<1>5. CASE u >= HALF
  <2>1. n = (q + 1) * NUMBERS + Signed(n) /\ q + 1 \in Int
    BY <1>1, <1>2, <1>3, <1>4, <1>5
  <2>2. Signed(n) \in -HALF .. HALF - 1
    BY <1>1, <1>2, <1>4, <1>5
  <2> QED BY <2>1, <2>2
<1>6. CASE ~(u >= HALF)
  <2>1. n = q * NUMBERS + Signed(n)
    BY <1>3, <1>4, <1>6
  <2>2. Signed(n) \in -HALF .. HALF - 1
    BY <1>1, <1>2, <1>4, <1>6
  <2> QED BY <2>1, <2>2
<1> QED BY <1>5, <1>6

(* Numbers that differ by a multiple are read alike.                       *)
LEMMA SignedOf ==
  ASSUME NEW a \in Int, NEW b \in Int, NEW q \in Int, a = b + q * NUMBERS
  PROVE  Signed(a) = Signed(b)
<1>1. NUMBERS \in Nat \ {0}
  BY Positive DEF NUMBERS
<1>2. a % NUMBERS = b % NUMBERS
  BY <1>1, SameRemainder
<1> QED BY <1>2 DEF Signed

(* The validator tells the next number from one after a gap.               *)
LEMMA ForwardVerdict ==
  ASSUME NEW a \in Nat, NEW b \in Nat, a < b, b - a <= HALF, last = {Signed(a)}
  PROVE  Validated(Signed(b)) = IF b = a + 1 THEN "next" ELSE "gap"
<1> DEFINE l == Signed(a)
           s == Signed(b)
           N == NUMBERS
           fwd == (s - l - 1 + N) % N
<1>1. N \in Nat \ {0} /\ HALF \in Nat \ {0} /\ N = 2 * HALF
  BY Positive DEF NUMBERS
<1>2. l \in Int /\ s \in Int /\ l \in -HALF .. HALF - 1 /\ s \in -HALF .. HALF - 1
  BY <1>1, SignedIsCongruent
<1>3. PICK x \in Int : a = x * N + l
  BY SignedIsCongruent
<1>4. PICK y \in Int : b = y * N + s
  BY SignedIsCongruent
<1>5. (CHOOSE v \in last : TRUE) = l
  OBVIOUS
<1>6. Validated(s) = CASE s = l -> "duplicate"
                       [] s # l /\ s = Signed(l + 1) -> "next"
                       [] OTHER -> IF 2 * fwd < N - 1 THEN "gap" ELSE "duplicate"
  BY <1>5 DEF Validated
<1> HIDE DEF l, s, N
<1>7. s # l
  <2> SUFFICES ASSUME s = l PROVE FALSE
    OBVIOUS
  <2>1. (y - x) * N = b - a /\ y - x \in Int
    BY <1>1, <1>2, <1>3, <1>4
  <2>2. y - x = 0
    BY <1>1, <2>1, NoMultiple
  <2> QED BY <1>1, <2>1, <2>2
<1>8. (s = Signed(l + 1)) <=> b = a + 1
  <2>1. a + 1 = (l + 1) + x * N
    BY <1>1, <1>2, <1>3
  <2>2. Signed(l + 1) = Signed(a + 1)
    BY <1>2, <2>1, SignedOf DEF N
  <2>3. PICK z \in Int : a + 1 = z * N + Signed(a + 1)
    BY SignedIsCongruent DEF N
  <2>4. ASSUME s = Signed(a + 1) PROVE b = a + 1
    <3>1. (y - z) * N = b - (a + 1) /\ y - z \in Int
      BY <1>1, <1>2, <1>4, <2>3, <2>4
    <3>2. y - z = 0
      BY <1>1, <3>1, NoMultiple
    <3> QED BY <1>1, <3>1, <3>2
  <2>5. b = a + 1 => s = Signed(a + 1)
    BY DEF s
  <2> QED BY <2>2, <2>4, <2>5
<1>9. fwd = b - a - 1
  <2>1. s - l - 1 + N = (b - a - 1) + (x - y + 1) * N
    BY <1>1, <1>2, <1>3, <1>4
  <2>2. (s - l - 1 + N) % N = (b - a - 1) % N
    <3>1. s - l - 1 + N \in Int /\ b - a - 1 \in Int /\ x - y + 1 \in Int
      BY <1>1, <1>2
    <3>2. PICK e, f, q, d : e = s - l - 1 + N /\ f = b - a - 1 /\ q = x - y + 1 /\ d = N
      OBVIOUS
    <3>3. d \in Nat \ {0} /\ e \in Int /\ f \in Int /\ q \in Int /\ e = f + q * d
      BY <1>1, <2>1, <3>1, <3>2
    <3>4. e % d = f % d
      BY ONLY <3>3, SameRemainder
    <3> QED BY <3>2, <3>4
  <2>3. b - a - 1 \in 0 .. N - 1
    BY <1>1
  <2>4. (b - a - 1) % N = b - a - 1
    BY <1>1, <2>3
  <2> QED BY <2>2, <2>4
<1>10. 2 * fwd < N - 1
  BY <1>1, <1>9
<1> QED BY <1>6, <1>7, <1>8, <1>10 DEF s

-----------------------------------------------------------------------------
(* UTF-8.  A text is made of units of one message, numbered in a row.      *)

Kind == Class \cup {"Pair", "Other", "Header", "Invalid"}
Unit == Kind \X Nat \X Nat
Byte == [of : Unit, part : Nat]

IsText(m, text) ==
  /\ text \in Seq(Unit)
  /\ \A i \in DOMAIN text : text[i][1] \in Class /\ text[i][2] = m
  /\ \A i \in DOMAIN text : i + 1 \in DOMAIN text => text[i + 1][3] = text[i][3] + 1

(* The character at unit i.                                                *)
LEMMA CodePointIsUnit ==
  ASSUME NEW m, NEW text, IsText(m, text), NEW i \in 1 .. Len(text)
  PROVE  /\ CodePoint(text, i) \in Unit
         /\ Width(CodePoint(text, i)) \in 1 .. 4
         /\ CodePoint(text, i)[1] = "Pair" <=> PairAt(text, i)
<1>1. i \in DOMAIN text /\ text[i] \in Unit /\ text[i][1] \in Class
  BY LenProperties, ElementOfSeq DEF IsText
<1>2. text[i][1] # "Pair"
  BY <1>1 DEF Class
<1>3. CodePoint(text, i) \in Unit
  <2>1. text[i][2] \in Nat /\ text[i][3] \in Nat
    BY <1>1 DEF Unit
  <2>2. \A x, y \in Nat : <<"Pair", x, y>> \in Unit
    BY DEF Unit, Kind
  <2> QED BY <1>1, <2>1, <2>2 DEF CodePoint
<1>4. CodePoint(text, i)[1] = "Pair" <=> PairAt(text, i)
  BY <1>2 DEF CodePoint
<1>5. Width(CodePoint(text, i)) \in 1 .. 4
  BY DEF Width
<1> QED BY <1>3, <1>4, <1>5

(* The bytes of the character at unit i.                                   *)
LEMMA BytesAtAreBytes ==
  ASSUME NEW m, NEW text, IsText(m, text), NEW i \in 1 .. Len(text)
  PROVE  /\ BytesAt(text, i) \in Seq(Byte)
         /\ Len(BytesAt(text, i)) =
              IF PairAt(text, i - 1) THEN 0 ELSE Width(CodePoint(text, i))
         /\ \A k \in 1 .. Len(BytesAt(text, i)) :
              BytesAt(text, i)[k] = [of |-> CodePoint(text, i), part |-> k]
<1> DEFINE c == CodePoint(text, i)
           w == Width(c)
           b == [k \in 1 .. w |-> [of |-> c, part |-> k]]
<1>1. c \in Unit /\ w \in Nat
  BY CodePointIsUnit
<1> HIDE DEF c, w
<1>2. b \in Seq(Byte) /\ Len(b) = w
  <2>1. \A k \in 1 .. w : [of |-> c, part |-> k] \in Byte
    BY <1>1 DEF Byte
  <2> QED BY <1>1, <2>1, IsASeq, LenProperties
<1>3. \A k \in 1 .. w : b[k] = [of |-> c, part |-> k]
  OBVIOUS
<1>4. BytesAt(text, i) = IF PairAt(text, i - 1) THEN <<>> ELSE b
  BY DEF BytesAt, c, w
<1> HIDE DEF b
<1>5. <<>> \in Seq(Byte) /\ Len(<<>>) = 0
  BY EmptySeq
<1> QED BY <1>1, <1>2, <1>3, <1>4, <1>5 DEF c, w

(* Where the characters of a text lie in its bytes.                        *)
Spells(o, b, text) ==
  /\ o \in [0 .. Len(text) -> Nat] /\ o[0] = 0 /\ o[Len(text)] = Len(b)
  /\ \A i \in 0 .. Len(text) : \A k \in i .. Len(text) : o[i] <= o[k]
  /\ \A p \in 1 .. Len(b) : \E k \in 1 .. Len(text) : p \in o[k - 1] + 1 .. o[k]
  /\ \A k \in 1 .. Len(text) :
        o[k] = o[k - 1] + (IF PairAt(text, k - 1) THEN 0 ELSE Width(CodePoint(text, k)))
  /\ \A k \in 1 .. Len(text) : ~PairAt(text, k - 1) =>
        \A j \in 1 .. Width(CodePoint(text, k)) :
            b[o[k - 1] + j] = [of |-> CodePoint(text, k), part |-> j]

(* The bytes of a text spell it, character by character.                   *)
LEMMA EncodeSpells ==
  ASSUME NEW m, NEW text, IsText(m, text)
  PROVE  /\ Utf8Encode(text) \in Seq(Byte)
         /\ \E o : Spells(o, Utf8Encode(text), text)
<1> DEFINE n == Len(text)
           s == [i \in 1 .. n |-> BytesAt(text, i)]
           b == FlattenSeq(s)
<1>1. n \in Nat
  BY LenProperties DEF IsText
<1>2. Utf8Encode(text) = b
  BY DEF Utf8Encode
<1>3. \A k \in 1 .. n : s[k] = BytesAt(text, k)
  OBVIOUS
<1>4. PartsIn(s, n, Byte)
  BY BytesAtAreBytes DEF PartsIn
<1> HIDE DEF s, n
<1>5. b \in Seq(Byte) /\ \E o : Offsets(o, b, s, n) /\ Ordered(o, n)
  BY <1>1, <1>4, FlattenOffsets
<1>6. PICK o : Offsets(o, b, s, n) /\ Ordered(o, n)
  BY <1>5
<1> HIDE DEF b
<1>7. ASSUME NEW k \in 1 .. n
      PROVE  /\ o[k] = o[k - 1] + (IF PairAt(text, k - 1) THEN 0
                                   ELSE Width(CodePoint(text, k)))
             /\ ~PairAt(text, k - 1) =>
                  \A j \in 1 .. Width(CodePoint(text, k)) :
                    b[o[k - 1] + j] = [of |-> CodePoint(text, k), part |-> j]
  <2>1. /\ o[k] = o[k - 1] + Len(s[k])
        /\ \A j \in 1 .. Len(s[k]) : b[o[k - 1] + j] = s[k][j]
    BY <1>6 DEF Offsets
  <2>2. /\ Len(s[k]) = IF PairAt(text, k - 1) THEN 0 ELSE Width(CodePoint(text, k))
        /\ \A j \in 1 .. Len(s[k]) : s[k][j] = [of |-> CodePoint(text, k), part |-> j]
    BY <1>3, BytesAtAreBytes DEF n
  <2> QED BY <2>1, <2>2
<1>8. Spells(o, b, text)
  BY <1>1, <1>6, <1>7 DEF Spells, Offsets, Ordered, n
<1> QED BY <1>2, <1>5, <1>8

(* Byte p is byte j of the character that begins at unit k.                *)
Places(o, b, text, p, k, j) ==
  /\ k \in 1 .. Len(text) /\ ~PairAt(text, k - 1)
  /\ j \in 1 .. Width(CodePoint(text, k))
  /\ p = o[k - 1] + j
  /\ b[p] = [of |-> CodePoint(text, k), part |-> j]

(* A byte belongs to one character.                                        *)
LEMMA CharacterOfByte ==
  ASSUME NEW m, NEW text, IsText(m, text), NEW b, NEW o, Spells(o, b, text),
         NEW p, p \in 1 .. Len(b)
  PROVE  \E k, j : Places(o, b, text, p, k, j)
<1>1. PICK k \in 1 .. Len(text) : p \in o[k - 1] + 1 .. o[k]
  BY DEF Spells
<1>2. Len(text) \in Nat /\ k \in 0 .. Len(text) /\ k - 1 \in 0 .. Len(text)
  BY LenProperties DEF IsText
<1>3. o[k] \in Nat /\ o[k - 1] \in Nat
  BY <1>2 DEF Spells
<1>4. o[k] = o[k - 1] + (IF PairAt(text, k - 1) THEN 0 ELSE Width(CodePoint(text, k)))
  BY DEF Spells
<1>5. ~PairAt(text, k - 1)
  BY <1>1, <1>3, <1>4
<1>6. Width(CodePoint(text, k)) \in Nat
  BY CodePointIsUnit
<1>7. p - o[k - 1] \in 1 .. Width(CodePoint(text, k)) /\ p = o[k - 1] + (p - o[k - 1])
  BY <1>1, <1>3, <1>4, <1>5, <1>6
<1>8. b[o[k - 1] + (p - o[k - 1])] = [of |-> CodePoint(text, k), part |-> p - o[k - 1]]
  BY <1>5, <1>7 DEF Spells
<1>9. Places(o, b, text, p, k, p - o[k - 1])
  BY <1>5, <1>7, <1>8 DEF Places
<1> QED BY <1>9

(* Ranges of what Places relates; byte 1 of a character is its lead.       *)
LEMMA PlaceTypes ==
  ASSUME NEW m, NEW text, IsText(m, text), NEW b, NEW o, Spells(o, b, text),
         NEW p, NEW k, NEW j, Places(o, b, text, p, k, j)
  PROVE  /\ Len(text) \in Nat /\ k \in 1 .. Len(text) /\ j \in Nat \ {0}
         /\ Width(CodePoint(text, k)) \in Nat
         /\ o[k - 1] \in Nat /\ o[k] \in Nat /\ o[k] = o[k - 1] + Width(CodePoint(text, k))
         /\ p = o[k - 1] + j /\ j <= Width(CodePoint(text, k))
         /\ LeadAt(b, p) <=> j = 1
<1>1. k \in 1 .. Len(text) /\ Len(text) \in Nat
  BY LenProperties DEF IsText, Places
<1>2. Width(CodePoint(text, k)) \in 1 .. 4
  BY <1>1, CodePointIsUnit
<1>3. k \in 0 .. Len(text) /\ k - 1 \in 0 .. Len(text)
  BY <1>1
<1>4. o[k - 1] \in Nat /\ o[k] \in Nat
  BY <1>3 DEF Spells
<1>5. o[k] = o[k - 1] + Width(CodePoint(text, k))
  BY <1>1 DEF Spells, Places
<1>6. LeadAt(b, p) <=> j = 1
  BY DEF LeadAt, Places
<1> QED BY <1>1, <1>2, <1>4, <1>5, <1>6 DEF Places

(* The bytes of one character, and what comes behind them.                 *)
LEMMA BytesOfCharacter ==
  ASSUME NEW m, NEW text, IsText(m, text), NEW b, NEW o, Spells(o, b, text),
         NEW k \in 1 .. Len(text), ~PairAt(text, k - 1)
  PROVE  /\ o[k - 1] \in Nat /\ o[k - 1] < o[k] /\ o[k] <= Len(b) /\ o[k] \in Nat
         /\ \A p \in o[k - 1] + 1 .. o[k] :
              b[p] = [of |-> CodePoint(text, k), part |-> p - o[k - 1]]
         /\ After(b, o[k - 1] + 1) = o[k] + 1
         /\ o[k] + 1 \in 1 .. Len(b) => LeadAt(b, o[k] + 1)
<1> DEFINE w == Width(CodePoint(text, k))
<1>1. Len(text) \in Nat /\ k \in 0 .. Len(text) /\ k - 1 \in 0 .. Len(text)
  BY LenProperties DEF IsText
<1>2. o[k] \in Nat /\ o[k - 1] \in Nat /\ o[k] <= Len(b) /\ Len(b) \in Nat
  BY <1>1 DEF Spells
<1>3. o[k] = o[k - 1] + w
  BY DEF Spells
<1>4. w \in 1 .. 4
  BY CodePointIsUnit
<1>5. ASSUME NEW p \in o[k - 1] + 1 .. o[k]
      PROVE  b[p] = [of |-> CodePoint(text, k), part |-> p - o[k - 1]]
  <2>1. p - o[k - 1] \in 1 .. w /\ p = o[k - 1] + (p - o[k - 1])
    <3> HIDE DEF w
    <3> QED BY ONLY <1>2, <1>3, <1>4, p \in o[k - 1] + 1 .. o[k]
  <2>2. b[o[k - 1] + (p - o[k - 1])] = [of |-> CodePoint(text, k), part |-> p - o[k - 1]]
    BY <2>1 DEF Spells
  <2> QED BY <2>1, <2>2
<1>6. After(b, o[k - 1] + 1) = o[k] + 1
  <2>1. PICK q : q = o[k - 1] + 1
    OBVIOUS
  <2>2. b[q] = [of |-> CodePoint(text, k), part |-> q - o[k - 1]]
    <3>1. q \in o[k - 1] + 1 .. o[k]
      <4> HIDE DEF w
      <4> QED BY ONLY <1>2, <1>3, <1>4, <2>1
    <3> QED BY <1>5, <3>1
  <2>3. After(b, o[k - 1] + 1) = o[k - 1] + 1 + w
    BY <2>1, <2>2 DEF After
  <2> HIDE DEF w
  <2> QED BY ONLY <1>2, <1>3, <1>4, <2>3
<1>7. ASSUME o[k] + 1 \in 1 .. Len(b) PROVE LeadAt(b, o[k] + 1)
  <2>0. PICK p : p = o[k] + 1
    OBVIOUS
  <2>1. PICK i, j : Places(o, b, text, p, i, j)
    BY <1>7, <2>0, CharacterOfByte
  <2>2. /\ i \in 1 .. Len(text) /\ j \in Nat \ {0}
        /\ Width(CodePoint(text, i)) \in Nat
        /\ o[i - 1] \in Nat /\ o[i] \in Nat /\ o[i] = o[i - 1] + Width(CodePoint(text, i))
        /\ p = o[i - 1] + j /\ j <= Width(CodePoint(text, i))
        /\ LeadAt(b, p) <=> j = 1
    BY <2>1, PlaceTypes
  <2>5. ~(i <= k)
    <3>1. i <= k => o[i] <= o[k]
      <4>1. i <= k => i \in 0 .. Len(text) /\ k \in i .. Len(text)
        BY <1>1, <2>2
      <4> QED BY <4>1 DEF Spells
    <3> QED BY <1>2, <2>0, <2>2, <3>1
  <2>6. o[k] <= o[i - 1]
    <3>1. i - 1 \in k .. Len(text)
      BY <1>1, <2>2, <2>5
    <3> QED BY <1>1, <3>1 DEF Spells
  <2>7. j = 1
    BY <1>2, <2>0, <2>2, <2>6
  <2> QED BY <2>0, <2>2, <2>7
<1> QED BY <1>2, <1>3, <1>4, <1>5, <1>6, <1>7

(* Only the first byte of a character leads.                               *)
LEMMA SoundBytes ==
  ASSUME NEW m, NEW text, IsText(m, text), NEW b \in Seq(Byte), NEW o, Spells(o, b, text)
  PROVE  /\ b # <<>> => LeadAt(b, 1)
         /\ \A p \in DOMAIN b : LeadAt(b, p) => SoundAt(b, p)
<1>0. DOMAIN b = 1 .. Len(b) /\ Len(b) \in Nat
  BY LenProperties
<1>1. ASSUME b # <<>> PROVE LeadAt(b, 1)
  <2>1. PICK p : p = 1
    OBVIOUS
  <2>2. p \in 1 .. Len(b)
    BY <1>0, <1>1, <2>1, EmptySeq
  <2>3. PICK k, j : Places(o, b, text, p, k, j)
    BY <2>2, CharacterOfByte
  <2>4. o[k - 1] \in Nat /\ j \in Nat \ {0} /\ p = o[k - 1] + j /\ (LeadAt(b, p) <=> j = 1)
    BY <2>3, PlaceTypes
  <2> QED BY <2>1, <2>4
<1>2. ASSUME NEW p \in DOMAIN b, LeadAt(b, p) PROVE SoundAt(b, p)
  <2>1. PICK k, j : Places(o, b, text, p, k, j)
    BY <1>0, CharacterOfByte
  <2>2. k \in 1 .. Len(text) /\ ~PairAt(text, k - 1)
    BY <2>1 DEF Places
  <2>3. /\ o[k - 1] \in Nat /\ o[k - 1] < o[k] /\ o[k] <= Len(b) /\ o[k] \in Nat
        /\ \A q \in o[k - 1] + 1 .. o[k] :
              b[q] = [of |-> CodePoint(text, k), part |-> q - o[k - 1]]
        /\ After(b, o[k - 1] + 1) = o[k] + 1
        /\ o[k] + 1 \in 1 .. Len(b) => LeadAt(b, o[k] + 1)
    BY <2>2, BytesOfCharacter
  <2>4. p = o[k - 1] + 1
    BY <1>2, <2>1, PlaceTypes
  <2>5. ASSUME NEW q \in p + 1 .. o[k] PROVE ~LeadAt(b, q)
    <3>1. q \in o[k - 1] + 1 .. o[k] /\ q - o[k - 1] # 1
      BY <2>3, <2>4
    <3>2. b[q] = [of |-> CodePoint(text, k), part |-> q - o[k - 1]]
      BY <2>3, <3>1
    <3> QED BY <3>1, <3>2 DEF LeadAt
  <2>6. After(b, p) = o[k] + 1
    BY <2>3, <2>4
  <2> QED BY <1>0, <2>3, <2>4, <2>5, <2>6 DEF SoundAt
<1> QED BY <1>1, <1>2

(* A unit is three things.                                                 *)
LEMMA UnitIs ==
  ASSUME NEW u, u \in Unit
  PROVE  u = <<u[1], u[2], u[3]>> /\ u[2] \in Nat /\ u[3] \in Nat
BY DEF Unit

(* The units a text has at i.                                              *)
Spelt(text, i) ==
  IF PairAt(text, i) THEN <<text[i], text[i + 1]>> ELSE <<text[i]>>

(* The lead byte of a character decodes to its units, the others to none.  *)
LEMMA DecodedCharacter ==
  ASSUME NEW m, NEW text, IsText(m, text), NEW b, NEW o, Spells(o, b, text),
         NEW p, NEW k, NEW j, Places(o, b, text, p, k, j)
  PROVE  UnitsAt(b, p) = IF j = 1 THEN Spelt(text, k) ELSE <<>>
<1> DEFINE c == CodePoint(text, k)
<1>0. b[p] = [of |-> c, part |-> j] /\ k \in 1 .. Len(text) /\ ~PairAt(text, k - 1)
  BY DEF Places
<1>1. LeadAt(b, p) <=> j = 1
  BY PlaceTypes
<1>2. CASE j # 1
  BY <1>1, <1>2 DEF UnitsAt
<1>3. CASE j = 1
  <2>1. /\ o[k - 1] \in Nat /\ o[k] \in Nat
        /\ \A q \in o[k - 1] + 1 .. o[k] : b[q] = [of |-> c, part |-> q - o[k - 1]]
        /\ After(b, o[k - 1] + 1) = o[k] + 1
    BY <1>0, BytesOfCharacter
  <2>2. p = o[k - 1] + 1
    BY <1>3, PlaceTypes
  <2>3. After(b, p) = o[k] + 1
    BY <2>1, <2>2
  <2>4. ASSUME NEW q \in p .. After(b, p) - 1
        PROVE  b[q] = [of |-> c, part |-> q - p + 1]
    BY <2>1, <2>2, <2>3
  <2>5. b[p].of = c
    BY <1>0
  <2>6. UnitsAt(b, p) = IF c[1] = "Pair"
            THEN << <<"High", c[2], c[3]>>, <<"Low", c[2], c[3] + 1>> >> ELSE <<c>>
    BY <1>1, <1>3, <2>4, <2>5 DEF UnitsAt
  <2>7. c[1] = "Pair" <=> PairAt(text, k)
    BY <1>0, CodePointIsUnit
  <2>8. CASE PairAt(text, k)
    <3>1. /\ k \in DOMAIN text /\ k + 1 \in DOMAIN text
          /\ text[k][1] = "High" /\ text[k + 1][1] = "Low"
      BY <2>8 DEF PairAt
    <3>2. /\ text[k] \in Unit /\ text[k + 1] \in Unit
          /\ text[k][2] = m /\ text[k + 1][2] = m /\ text[k + 1][3] = text[k][3] + 1
      BY <3>1, ElementOfSeq, LenProperties DEF IsText
    <3>3. text[k] = <<"High", m, text[k][3]>>
      BY <3>1, <3>2, UnitIs
    <3>4. text[k + 1] = <<"Low", m, text[k][3] + 1>>
      BY <3>1, <3>2, UnitIs
    <3>5. c = <<"Pair", text[k][2], text[k][3]>>
      BY <2>8 DEF CodePoint
    <3>6. c[2] = m /\ c[3] = text[k][3]
      BY <3>2, <3>5
    <3> QED BY <1>3, <2>6, <2>7, <2>8, <3>3, <3>4, <3>6 DEF Spelt
  <2>9. CASE ~PairAt(text, k)
    <3>1. c = text[k]
      BY <2>9 DEF CodePoint
    <3> QED BY <1>3, <2>6, <2>7, <2>9, <3>1 DEF Spelt
  <2> QED BY <2>8, <2>9
<1> QED BY <1>2, <1>3

(* Units decoded when byte p has been read.                                *)
Read(o, b, text, p) ==
  IF p = 0 THEN 0
  ELSE LET k == CHOOSE i \in 1 .. Len(text) : ~PairAt(text, i - 1) /\ p \in o[i - 1] + 1 .. o[i]
       IN IF PairAt(text, k) THEN k + 1 ELSE k

(* Inside a character, its units have been decoded.                        *)
LEMMA ReadIs ==
  ASSUME NEW m, NEW text, IsText(m, text), NEW b, NEW o, Spells(o, b, text),
         NEW p, NEW k \in 1 .. Len(text), ~PairAt(text, k - 1), p \in o[k - 1] + 1 .. o[k]
  PROVE  Read(o, b, text, p) = IF PairAt(text, k) THEN k + 1 ELSE k
<1>1. Len(text) \in Nat /\ k \in 0 .. Len(text) /\ k - 1 \in 0 .. Len(text)
  BY LenProperties DEF IsText
<1>2. o[k] \in Nat /\ o[k - 1] \in Nat
  BY <1>1 DEF Spells
<1>3. ASSUME NEW i \in 1 .. Len(text), p \in o[i - 1] + 1 .. o[i] PROVE i = k
  <2>1. i \in 0 .. Len(text) /\ i - 1 \in 0 .. Len(text)
    BY <1>1
  <2>2. o[i] \in Nat /\ o[i - 1] \in Nat
    BY <2>1 DEF Spells
  <2>3. i < k => o[i] <= o[k - 1]
    <3>1. i < k => k - 1 \in i .. Len(text)
      BY <1>1
    <3> QED BY <2>1, <3>1 DEF Spells
  <2>4. k < i => o[k] <= o[i - 1]
    <3>1. k < i => i - 1 \in k .. Len(text)
      BY <2>1
    <3> QED BY <1>1, <3>1 DEF Spells
  <2> QED BY <1>2, <1>3, <2>2, <2>3, <2>4
<1>4. k = CHOOSE i \in 1 .. Len(text) : ~PairAt(text, i - 1) /\ p \in o[i - 1] + 1 .. o[i]
  BY <1>3
<1>5. p # 0
  BY <1>2
<1> QED BY <1>4, <1>5 DEF Read

(* When the last byte before unit k + 1 has been read, so have k units.    *)
LEMMA ReadUpTo ==
  ASSUME NEW m, NEW text, IsText(m, text), NEW b, NEW o, Spells(o, b, text),
         NEW k \in 0 .. Len(text), ~PairAt(text, k)
  PROVE  Read(o, b, text, o[k]) = k
<1>0. Len(text) \in Nat /\ DOMAIN text = 1 .. Len(text)
  BY LenProperties DEF IsText
<1>1. CASE k = 0
  BY <1>1 DEF Read, Spells
<1>2. CASE k # 0 /\ ~PairAt(text, k - 1)
  <2>1. k \in 1 .. Len(text)
    BY <1>0, <1>2
  <2>2. o[k - 1] \in Nat /\ o[k] \in Nat /\ o[k - 1] < o[k]
    BY <1>2, <2>1, BytesOfCharacter
  <2>3. PICK p : p = o[k]
    OBVIOUS
  <2>4. p \in o[k - 1] + 1 .. o[k]
    BY <2>2, <2>3
  <2>5. Read(o, b, text, p) = IF PairAt(text, k) THEN k + 1 ELSE k
    BY <1>2, <2>1, <2>4, ReadIs
  <2> QED BY <2>3, <2>5
<1>3. CASE k # 0 /\ PairAt(text, k - 1)
  <2>1. PICK i : i = k - 1
    OBVIOUS
  <2>2. i \in 1 .. Len(text) /\ PairAt(text, i) /\ k = i + 1 /\ k \in 1 .. Len(text)
    BY <1>0, <1>3, <2>1 DEF PairAt
  <2>3. ~PairAt(text, i - 1)
    <3>1. i - 1 + 1 = i
      BY <2>2
    <3> QED BY <2>2, <3>1 DEF PairAt
  <2>4. o[i - 1] \in Nat /\ o[i] \in Nat /\ o[i - 1] < o[i]
    BY <2>2, <2>3, BytesOfCharacter
  <2>5. o[k] = o[i]
    BY <1>3, <2>1, <2>2, <2>4 DEF Spells
  <2>6. PICK p : p = o[i]
    OBVIOUS
  <2>7. Read(o, b, text, p) = IF PairAt(text, i) THEN i + 1 ELSE i
    <3>1. p \in o[i - 1] + 1 .. o[i]
      BY <2>4, <2>6
    <3> QED BY <2>2, <2>3, <3>1, ReadIs
  <2> QED BY <2>2, <2>5, <2>6, <2>7
<1> QED BY <1>1, <1>2, <1>3

(* The units before byte p and those of byte p.                            *)
LEMMA ReadStep ==
  ASSUME NEW m, NEW text, IsText(m, text), NEW b, NEW o, Spells(o, b, text),
         NEW p, NEW k, NEW j, Places(o, b, text, p, k, j), NEW l, l = p - 1,
         NEW r, r = Read(o, b, text, p), NEW q, q = Read(o, b, text, l)
  PROVE  /\ UnitsAt(b, p) \in Seq(Unit) /\ r \in Nat /\ q \in Nat
         /\ r = q + Len(UnitsAt(b, p))
         /\ \A i \in 1 .. Len(UnitsAt(b, p)) : text[q + i] = UnitsAt(b, p)[i]
<1>1. /\ Len(text) \in Nat /\ k \in 1 .. Len(text) /\ j \in Nat \ {0}
      /\ Width(CodePoint(text, k)) \in Nat
      /\ o[k - 1] \in Nat /\ o[k] \in Nat /\ o[k] = o[k - 1] + Width(CodePoint(text, k))
      /\ p = o[k - 1] + j /\ j <= Width(CodePoint(text, k))
  BY PlaceTypes
<1>2. ~PairAt(text, k - 1)
  BY DEF Places
<1>3. r = IF PairAt(text, k) THEN k + 1 ELSE k
  <2>1. p \in o[k - 1] + 1 .. o[k]
    BY <1>1
  <2>2. k \in 1 .. Len(text)
    BY <1>1
  <2> QED BY ONLY r = Read(o, b, text, p), IsText(m, text), Spells(o, b, text), <1>2, <2>1, <2>2, ReadIs
<1>4. UnitsAt(b, p) = IF j = 1 THEN Spelt(text, k) ELSE <<>>
  BY DecodedCharacter
<1> DEFINE u == UnitsAt(b, p)
<1>5. text[k] \in Unit /\ (PairAt(text, k) => text[k + 1] \in Unit)
  BY <1>1, ElementOfSeq, LenProperties DEF IsText, PairAt
<1> SUFFICES /\ u \in Seq(Unit) /\ r \in Nat /\ q \in Nat
             /\ r = q + Len(u)
             /\ \A i \in 1 .. Len(u) : text[q + i] = u[i]
  OBVIOUS
<1>10. u = IF j = 1 THEN Spelt(text, k) ELSE <<>>
  BY <1>4
<1> HIDE DEF u
<1>6. CASE j = 1
  <2>1. q = k - 1
    <3>1. PICK i : i = k - 1
      OBVIOUS
    <3>2. i \in 0 .. Len(text) /\ ~PairAt(text, i) /\ l = o[i]
      BY <1>1, <1>2, <1>6, <3>1
    <3>3. Read(o, b, text, o[i]) = i
      BY <3>2, ReadUpTo
    <3> QED BY <3>1, <3>2, <3>3
  <2>2. CASE PairAt(text, k)
    <3>1. u = <<text[k], text[k + 1]>>
      BY <1>10, <1>6, <2>2 DEF Spelt
    <3>2. PICK x, y : x = text[k] /\ y = text[k + 1]
      OBVIOUS
    <3>3. <<x, y>> \in Seq(Unit) /\ Len(<<x, y>>) = 2 /\ <<x, y>>[1] = x /\ <<x, y>>[2] = y
      BY <1>5, <2>2, <3>2
    <3>4. r = q + 2 /\ q + 1 = k /\ q + 2 = k + 1
      BY <1>1, <1>3, <2>1, <2>2
    <3>5. \A i \in 1 .. 2 : i = 1 \/ i = 2
      OBVIOUS
    <3>6. u \in Seq(Unit) /\ Len(u) = 2 /\ \A i \in 1 .. 2 : u[i] = text[q + i]
      <4>1. u \in Seq(Unit) /\ Len(u) = 2 /\ u[1] = x /\ u[2] = y
        BY <3>1, <3>2, <3>3
      <4>2. text[q + 1] = x /\ text[q + 2] = y
        BY <3>2, <3>4
      <4> QED BY <3>5, <4>1, <4>2
    <3>7. q \in Nat /\ r \in Nat
      BY ONLY <1>1, <2>1, <3>4
    <3> QED BY ONLY <3>4, <3>6, <3>7
  <2>3. CASE ~PairAt(text, k)
    <3>1. u = <<text[k]>>
      BY <1>10, <1>6, <2>3 DEF Spelt
    <3>2. PICK x : x = text[k]
      OBVIOUS
    <3>3. <<x>> \in Seq(Unit) /\ Len(<<x>>) = 1 /\ <<x>>[1] = x
      BY <1>5, <3>2
    <3>4. r = q + 1 /\ q + 1 = k
      BY <1>1, <1>3, <2>1, <2>3
    <3>5. \A i \in 1 .. 1 : i = 1
      OBVIOUS
    <3>6. u \in Seq(Unit) /\ Len(u) = 1 /\ \A i \in 1 .. 1 : u[i] = text[q + i]
      BY <2>1, <3>1, <3>2, <3>3, <3>4, <3>5
    <3>7. q \in Nat /\ r \in Nat
      BY ONLY <1>1, <2>1, <3>4
    <3> QED BY ONLY <3>4, <3>6, <3>7
  <2> QED BY <2>2, <2>3
<1>7. CASE j # 1
  <2>1. u = <<>>
    BY <1>10, <1>7
  <2>2. <<>> \in Seq(Unit) /\ Len(<<>>) = 0
    BY EmptySeq
  <2>3. l \in o[k - 1] + 1 .. o[k]
    BY <1>1, <1>7
  <2>4. q = IF PairAt(text, k) THEN k + 1 ELSE k
    BY <1>1, <1>2, <2>3, ReadIs
  <2>5. q = r /\ r \in Nat
    BY ONLY <1>1, <1>3, <2>4
  <2>6. u \in Seq(Unit) /\ Len(u) = 0
    BY <2>1, <2>2
  <2> QED BY ONLY <2>5, <2>6
<1> QED BY <1>6, <1>7

(* A text comes out of UTF-8 as it went in.                                *)
THEOREM Utf8RoundTrip ==
  ASSUME NEW m, NEW text, IsText(m, text)
  PROVE  Utf8Decode(Utf8Encode(text)) = text
<1> DEFINE b == Utf8Encode(text)
           n == Len(b)
           s == [p \in 1 .. n |-> UnitsAt(b, p)]
<1>1. b \in Seq(Byte) /\ \E o : Spells(o, b, text)
  BY EncodeSpells
<1>2. PICK o : Spells(o, b, text)
  BY <1>1
<1> HIDE DEF b
<1>3. n \in Nat /\ DOMAIN b = 1 .. n
  BY <1>1, LenProperties
<1>4. Utf8Decode(b) = FlattenSeq(s)
  BY <1>1, <1>2, SoundBytes DEF Utf8Decode
<1> DEFINE r == [p \in 0 .. n |-> Read(o, b, text, p)]
<1>5. \A p \in 0 .. n : r[p] = Read(o, b, text, p)
  OBVIOUS
<1>6. \A p \in 1 .. n : s[p] = UnitsAt(b, p)
  OBVIOUS
<1>7. s = [p \in 1 .. n |-> s[p]] /\ r = [p \in 0 .. n |-> r[p]]
  OBVIOUS
<1> HIDE DEF n, s, r
<1>8. ASSUME NEW p \in 1 .. n
      PROVE  /\ s[p] \in Seq(Unit) /\ r[p] \in Nat /\ r[p - 1] \in Nat
             /\ r[p] = r[p - 1] + Len(s[p])
             /\ \A i \in 1 .. Len(s[p]) : text[r[p - 1] + i] = s[p][i]
  <2>1. PICK k, j : Places(o, b, text, p, k, j)
    BY <1>2, CharacterOfByte DEF n
  <2>2. PICK l : l = p - 1
    OBVIOUS
  <2>3. p \in 0 .. n /\ l \in 0 .. n
    BY <1>3, <2>2
  <2>4. PICK x, y : x = Read(o, b, text, p) /\ y = Read(o, b, text, l)
    OBVIOUS
  <2>5. /\ UnitsAt(b, p) \in Seq(Unit) /\ x \in Nat /\ y \in Nat
        /\ x = y + Len(UnitsAt(b, p))
        /\ \A i \in 1 .. Len(UnitsAt(b, p)) : text[y + i] = UnitsAt(b, p)[i]
    BY <1>2, <2>1, <2>2, <2>4, ReadStep
  <2> QED BY <1>5, <1>6, <2>2, <2>3, <2>4, <2>5
<1>9. r[0] = 0 /\ r[n] = Len(text)
  <2>1. r[0] = 0
    BY <1>3, <1>5 DEF Read
  <2>2. PICK k : k = Len(text)
    OBVIOUS
  <2>3. k \in 0 .. Len(text) /\ ~PairAt(text, k) /\ o[k] = n
    <3>1. Len(text) \in Nat /\ Len(text) + 1 \notin DOMAIN text
      BY LenProperties DEF IsText
    <3> QED BY <1>2, <2>2, <3>1 DEF PairAt, Spells, n
  <2>4. Read(o, b, text, o[k]) = k
    BY <1>2, <2>3, ReadUpTo
  <2> QED BY <1>3, <1>5, <2>1, <2>2, <2>3, <2>4
<1>10. PartsIn(s, n, Unit)
  BY <1>7, <1>8 DEF PartsIn
<1>11. Offsets(r, text, s, n)
  <2>1. \A p \in 0 .. n : r[p] \in Nat
    BY <1>3, <1>8, <1>9
  <2> QED BY <1>7, <1>8, <1>9, <2>1 DEF Offsets
<1>12. text \in Seq(Unit)
  BY DEF IsText
<1>13. FlattenSeq(s) = text
  BY <1>3, <1>10, <1>11, <1>12, FlattenIs
<1> QED BY <1>4, <1>13 DEF b

(* A text that is not empty has bytes.                                     *)
LEMMA EncodeNotEmpty ==
  ASSUME NEW m, NEW text, IsText(m, text)
  PROVE  /\ Utf8Encode(text) \in Seq(Byte)
         /\ text # <<>> => Len(Utf8Encode(text)) \in Nat \ {0}
<1> DEFINE b == Utf8Encode(text)
<1>1. b \in Seq(Byte) /\ \E o : Spells(o, b, text)
  BY EncodeSpells
<1>2. PICK o : Spells(o, b, text)
  BY <1>1
<1> HIDE DEF b
<1>3. ASSUME text # <<>> PROVE Len(b) \in Nat \ {0}
  <2>1. Len(text) \in Nat /\ DOMAIN text = 1 .. Len(text) /\ Len(text) # 0
    BY <1>3, LenProperties, EmptySeq DEF IsText
  <2>2. PICK k : k = 1
    OBVIOUS
  <2>3. k \in 1 .. Len(text) /\ ~PairAt(text, k - 1)
    BY <2>1, <2>2 DEF PairAt
  <2>4. o[k - 1] \in Nat /\ o[k - 1] < o[k] /\ o[k] <= Len(b) /\ o[k] \in Nat
    BY <1>2, <2>3, BytesOfCharacter
  <2> QED BY <1>1, <2>4, LenProperties
<1> QED BY <1>1, <1>3 DEF b

(* The least of a set of numbers.                                          *)
LEMMA MinIs ==
  ASSUME NEW S \in SUBSET Nat, S # {}
  PROVE  Min(S) \in S /\ \A k \in S : Min(S) <= k
BY LeastNatural DEF Min

(* The greatest of a bounded set of numbers.                               *)
LEMMA MaxIs ==
  ASSUME NEW n \in Nat, NEW S \in SUBSET (0 .. n), S # {}
  PROVE  Max(S) \in S /\ \A k \in S : k <= Max(S)
<1> DEFINE T == {n - k : k \in S}
<1>1. T \in SUBSET Nat /\ T # {}
  <2>1. \A k \in S : n - k \in Nat
    OBVIOUS
  <2>2. \E k : k \in S
    OBVIOUS
  <2> QED BY <2>1, <2>2
<1>2. PICK d \in T : \A e \in T : d <= e
  <2> HIDE DEF T
  <2> QED BY <1>1, LeastNatural
<1>3. PICK x \in S : d = n - x
  BY <1>2
<1>4. \A k \in S : k <= x
  BY <1>2, <1>3
<1> QED BY <1>4 DEF Max

(* The smaller of two numbers.                                             *)
LEMMA MinOfTwo ==
  ASSUME NEW a \in Nat, NEW b \in Nat
  PROVE  Min({a, b}) = IF a <= b THEN a ELSE b
<1>1. {a, b} \in SUBSET Nat /\ {a, b} # {}
  OBVIOUS
<1>2. Min({a, b}) \in {a, b} /\ \A k \in {a, b} : Min({a, b}) <= k
  BY <1>1, MinIs
<1> QED BY <1>2

(* What is written is a text.                                              *)
LEMMA WrittenIsText ==
  ASSUME NEW m \in Nat, NEW shape \in Seq(Class)
  PROVE  IsText(m, Written(m, shape))
<1> DEFINE n == Len(shape)
           text == Written(m, shape)
<1>1. n \in Nat /\ DOMAIN shape = 1 .. n /\ \A i \in 1 .. n : shape[i] \in Class
  BY LenProperties, ElementOfSeq
<1>2. text = [i \in 1 .. n |-> <<shape[i], m, i>>]
  BY <1>1 DEF Written
<1>3. ASSUME NEW i \in 1 .. n
      PROVE  text[i] = <<shape[i], m, i>> /\ text[i] \in Unit
  <2>1. text[i] = <<shape[i], m, i>>
    BY <1>2
  <2>2. PICK c : c = shape[i]
    OBVIOUS
  <2>3. c \in Class
    BY <1>1, <2>2
  <2>4. <<c, m, i>> \in Unit
    BY <1>1, <2>3 DEF Unit, Kind
  <2> QED BY <2>1, <2>2, <2>4
<1> HIDE DEF n
<1>4. text \in Seq(Unit)
  <2>1. text = [i \in 1 .. n |-> text[i]]
    BY <1>2
  <2> HIDE DEF text
  <2> QED BY <1>1, <1>3, <2>1, IsASeq
<1>5. DOMAIN text = 1 .. n
  BY <1>2
<1> HIDE DEF text
<1>6. ASSUME NEW i \in DOMAIN text
      PROVE  /\ text[i][1] \in Class /\ text[i][2] = m
             /\ i + 1 \in DOMAIN text => text[i + 1][3] = text[i][3] + 1
  <2>1. text[i] = <<shape[i], m, i>> /\ shape[i] \in Class
    BY <1>1, <1>3, <1>5
  <2>2. i + 1 \in DOMAIN text => text[i + 1] = <<shape[i + 1], m, i + 1>>
    BY <1>3, <1>5
  <2> QED BY <2>1, <2>2
<1> QED BY <1>4, <1>6 DEF IsText, text

(* A part of a text is a text.                                             *)
LEMMA PartIsText ==
  ASSUME NEW m, NEW text, IsText(m, text),
         NEW a \in 1 .. Len(text), NEW c \in 1 .. Len(text), a <= c
  PROVE  /\ IsText(m, SubSeq(text, a, c))
         /\ Len(SubSeq(text, a, c)) = c - a + 1
         /\ \A i \in 1 .. c - a + 1 : SubSeq(text, a, c)[i] = text[a + i - 1]
<1> DEFINE t == SubSeq(text, a, c)
<1>1. text \in Seq(Unit) /\ Len(text) \in Nat /\ DOMAIN text = 1 .. Len(text)
  BY LenProperties DEF IsText
<1>2. t \in Seq(Unit) /\ Len(t) = c - a + 1 /\ \A i \in 1 .. c - a + 1 : t[i] = text[a + i - 1]
  BY <1>1, SubSeqProperties
<1> HIDE DEF t
<1>3. DOMAIN t = 1 .. c - a + 1
  BY <1>2, LenProperties
<1>4. ASSUME NEW i \in DOMAIN t
      PROVE  /\ t[i][1] \in Class /\ t[i][2] = m
             /\ i + 1 \in DOMAIN t => t[i + 1][3] = t[i][3] + 1
  <2>1. PICK k : k = a + i - 1
    OBVIOUS
  <2>2. k \in DOMAIN text /\ t[i] = text[k]
    BY <1>1, <1>2, <1>3, <2>1
  <2>3. i + 1 \in DOMAIN t => k + 1 \in DOMAIN text /\ t[i + 1] = text[k + 1]
    BY <1>1, <1>2, <1>3, <2>1
  <2> QED BY <2>2, <2>3 DEF IsText
<1> QED BY <1>2, <1>4 DEF IsText, t

(* The text is not blank.                                                  *)
HasSolid(text) == \E i \in DOMAIN text : text[i][1] # " "

(* A trimmed text keeps its characters other than blanks.                  *)
LEMMA Trimmed ==
  ASSUME NEW m, NEW text, IsText(m, text)
  PROVE  /\ IsText(m, Trim(text))
         /\ Trim(text) # <<>> <=> HasSolid(text)
         /\ HasSolid(text) => HasSolid(Trim(text))
<1> DEFINE solid == {i \in DOMAIN text : text[i][1] # " "}
<1>1. text \in Seq(Unit) /\ Len(text) \in Nat /\ DOMAIN text = 1 .. Len(text)
  BY LenProperties DEF IsText
<1>2. solid = {} <=> ~HasSolid(text)
  BY DEF HasSolid
<1>3. Trim(text) = IF solid = {} THEN <<>> ELSE SubSeq(text, Min(solid), Max(solid))
  BY DEF Trim
<1>5. \A i \in solid : i \in 1 .. Len(text) /\ text[i][1] # " "
  BY <1>1
<1> HIDE DEF solid
<1>4. solid \in SUBSET Nat /\ solid \in SUBSET (0 .. Len(text)) /\ solid \in SUBSET (1 .. Len(text))
  <2>1. solid \subseteq 1 .. Len(text)
    BY ONLY <1>5, Zenon
  <2>2. 1 .. Len(text) \subseteq Nat /\ 1 .. Len(text) \subseteq 0 .. Len(text)
    BY ONLY <1>1
  <2> QED BY ONLY <2>1, <2>2, Zenon
<1>6. CASE solid = {}
  <2>1. IsText(m, <<>>)
    BY EmptySeq DEF IsText
  <2> QED BY <1>2, <1>3, <1>6, <2>1
<1>7. CASE solid # {}
  <2>1. PICK a, c : a = Min(solid) /\ c = Max(solid)
    OBVIOUS
  <2>2. a \in solid /\ c \in solid /\ a <= c
    BY <1>1, <1>4, <1>7, <2>1, MinIs, MaxIs
  <2>3. a \in 1 .. Len(text) /\ c \in 1 .. Len(text)
    BY <1>4, <2>2
  <2>4. /\ IsText(m, SubSeq(text, a, c)) /\ Len(SubSeq(text, a, c)) = c - a + 1
        /\ \A i \in 1 .. c - a + 1 : SubSeq(text, a, c)[i] = text[a + i - 1]
    BY <2>2, <2>3, PartIsText
  <2>5. PICK t : t = SubSeq(text, a, c)
    OBVIOUS
  <2>6. t = Trim(text) /\ IsText(m, t) /\ Len(t) = c - a + 1 /\ c - a + 1 \in Nat
        /\ \A i \in 1 .. c - a + 1 : t[i] = text[a + i - 1]
    <3>1. c - a + 1 \in Nat
      BY <1>1, <2>2, <2>3
    <3>2. t = Trim(text)
      BY <1>3, <1>7, <2>1, <2>5
    <3> QED BY <2>4, <2>5, <3>1, <3>2
  <2>7. DOMAIN t = 1 .. c - a + 1 /\ 1 \in DOMAIN t
    BY <2>2, <2>3, <2>6, LenProperties DEF IsText
  <2>8. t[1] = text[a]
    BY <2>3, <2>6, <2>7
  <2>9. HasSolid(t) /\ t # <<>>
    <3>1. t[1][1] # " "
      BY <1>5, <2>2, <2>8
    <3>2. t # <<>>
      <4>1. Len(t) # 0
        BY <2>2, <2>3, <2>6
      <4> QED BY <4>1, EmptySeq
    <3> QED BY <2>7, <3>1, <3>2 DEF HasSolid
  <2> QED BY <1>2, <1>7, <2>6, <2>9
<1> QED BY <1>6, <1>7

(* A packet is its header and the bytes of its text.                       *)
LEMMA PacketIs ==
  ASSUME NEW m \in Nat, NEW text, IsText(m, text)
  PROVE  /\ BuildPacket(m, text) \in Seq(Byte)
         /\ Len(BuildPacket(m, text)) = V6A_HEADER + Len(Utf8Encode(text))
         /\ Len(Utf8Encode(text)) \in Nat
         /\ BuildPacket(m, text)[1] =
              [of |-> <<"Header", m, Len(Utf8Encode(text))>>, part |-> 1]
         /\ SubSeq(BuildPacket(m, text), V6A_HEADER + 1,
                   V6A_HEADER + Len(Utf8Encode(text))) = Utf8Encode(text)
<1> DEFINE b == Utf8Encode(text)
           n == Len(b)
           v == V6A_HEADER
           h == [k \in 1 .. v |-> [of |-> <<"Header", m, n>>, part |-> k]]
<1>1. b \in Seq(Byte)
  BY EncodeNotEmpty
<1>2. BuildPacket(m, text) = h \o b
  BY DEF BuildPacket
<1>3. v \in Nat \ {0}
  BY Positive
<1> HIDE DEF b, v
<1>4. n \in Nat
  BY <1>1, LenProperties
<1> HIDE DEF n
<1>5. <<"Header", m, n>> \in Unit
  BY <1>4 DEF Unit, Kind
<1>6. h \in Seq(Byte) /\ Len(h) = v /\ h[1] = [of |-> <<"Header", m, n>>, part |-> 1]
  <2>1. PICK u : u = <<"Header", m, n>>
    OBVIOUS
  <2>2. \A k \in 1 .. v : [of |-> u, part |-> k] \in Byte
    BY <1>5, <2>1 DEF Byte
  <2>3. 1 \in 1 .. v
    BY <1>3
  <2> QED BY <1>3, <2>1, <2>2, <2>3, IsASeq, LenProperties
<1> HIDE DEF h
<1>7. /\ h \o b \in Seq(Byte) /\ Len(h \o b) = v + n
      /\ \A j \in 1 .. v : (h \o b)[j] = h[j]
      /\ \A j \in 1 .. n : (h \o b)[v + j] = b[j]
  <2>1. PICK x, y : x = h /\ y = b
    OBVIOUS
  <2>2. x \in Seq(Byte) /\ y \in Seq(Byte) /\ Len(x) = v /\ Len(y) = n
    BY <1>1, <1>6, <2>1 DEF n
  <2>4. x \in Seq(Byte) /\ y \in Seq(Byte)
    BY <2>2
  <2>5. /\ x \o y \in Seq(Byte) /\ Len(x \o y) = Len(x) + Len(y)
        /\ \A j \in 1 .. Len(x) : (x \o y)[j] = x[j]
        /\ \A j \in 1 .. Len(y) : (x \o y)[Len(x) + j] = y[j]
    BY ONLY <2>4, ConcatAt
  <2>3. /\ x \o y \in Seq(Byte) /\ Len(x \o y) = v + n
        /\ \A j \in 1 .. v : (x \o y)[j] = x[j]
        /\ \A j \in 1 .. n : (x \o y)[v + j] = y[j]
    BY ONLY <2>2, <2>5
  <2> QED BY <2>1, <2>3
<1>8. (h \o b)[1] = [of |-> <<"Header", m, n>>, part |-> 1]
  BY <1>3, <1>6, <1>7
<1>9. SubSeq(h \o b, v + 1, v + n) = b
  <2>1. PICK p : p = h \o b
    OBVIOUS
  <2>2. v + 1 \in Int /\ v + n \in Int /\ \A i \in v + 1 .. v + n : p[i] \in Byte
    BY <1>3, <1>4, <1>7, <2>1, ElementOfSeq
  <2>3. PICK s : s = SubSeq(p, v + 1, v + n)
    OBVIOUS
  <2>4. PICK x, y : x = v + 1 /\ y = v + n
    OBVIOUS
  <2>5. /\ SubSeq(p, x, y) \in Seq(Byte)
        /\ Len(SubSeq(p, x, y)) = IF x <= y THEN y - x + 1 ELSE 0
        /\ \A i \in 1 .. y - x + 1 : SubSeq(p, x, y)[i] = p[x + i - 1]
    BY <2>2, <2>4, SubSeqProperties
  <2>6. s \in Seq(Byte) /\ Len(s) = n
    BY <1>3, <1>4, <2>3, <2>4, <2>5
  <2>7. ASSUME NEW i \in 1 .. n PROVE s[i] = b[i]
    <3>1. i \in 1 .. y - x + 1 /\ x + i - 1 = v + i
      BY <1>3, <1>4, <2>4
    <3>2. p[v + i] = b[i]
      BY <1>7, <2>1
    <3> QED BY <2>3, <2>4, <2>5, <3>1, <3>2
  <2> QED BY <1>1, <2>1, <2>3, <2>6, <2>7, SeqEqual DEF n
<1> QED BY <1>2, <1>4, <1>7, <1>8, <1>9 DEF b, n, v

(* No packet decodes to no message.                                        *)
LEMMA RefusesNothing == Decode(<<>>) = <<>>
<1>1. V6A_HEADER \in Nat \ {0} /\ Len(<<>>) = 0
  BY Positive, EmptySeq
<1> QED BY <1>1 DEF Decode

(* A packet comes out of the codec as it went in, unless the text is       *)
(* blank.                                                                  *)
THEOREM PacketRoundTrip ==
  ASSUME NEW m \in Nat, NEW text, IsText(m, text), HasSolid(text)
  PROVE  Decode(BuildPacket(m, text)) = <<m, text>>
<1> DEFINE n == Len(Utf8Encode(text))
<1>1. PICK p : p = BuildPacket(m, text)
  OBVIOUS
<1>2. /\ p \in Seq(Byte) /\ Len(p) = V6A_HEADER + n /\ n \in Nat
      /\ p[1] = [of |-> <<"Header", m, n>>, part |-> 1]
      /\ SubSeq(p, V6A_HEADER + 1, V6A_HEADER + n) = Utf8Encode(text)
  BY <1>1, PacketIs
<1>3. n # 0
  <2>1. text # <<>>
    <3>1. PICK i \in DOMAIN text : TRUE
      BY DEF HasSolid
    <3>2. DOMAIN text = 1 .. Len(text) /\ Len(text) # 0
      BY <3>1, LenProperties DEF IsText
    <3> QED BY <3>2, EmptySeq
  <2> QED BY <2>1, EncodeNotEmpty
<1>4. Utf8Decode(Utf8Encode(text)) = text
  BY Utf8RoundTrip
<1>5. Trim(text) # <<>>
  BY Trimmed
<1>6. text # Invalid
  <2>1. SUFFICES ASSUME text = Invalid PROVE FALSE
    OBVIOUS
  <2>2. 1 \in DOMAIN text /\ text[1][1] = "Invalid"
    BY <2>1 DEF Invalid
  <2>3. text[1][1] \in Class
    BY <2>2 DEF IsText
  <2> QED BY <2>2, <2>3 DEF Class
<1>7. V6A_HEADER \in Nat \ {0}
  BY Positive
<1> HIDE DEF n
<1>8. /\ ~(Len(p) < V6A_HEADER) /\ p[1].of[1] = "Header" /\ p[1].part = 1
      /\ p[1].of[2] = m /\ p[1].of[3] = n /\ ~(Len(p) < V6A_HEADER + n)
  BY <1>2, <1>7
<1>9. Utf8Decode(SubSeq(p, V6A_HEADER + 1, V6A_HEADER + p[1].of[3])) = text
  BY <1>2, <1>4, <1>8
<1>10. Decode(p) = <<m, text>>
  BY <1>3, <1>5, <1>6, <1>8, <1>9 DEF Decode
<1> QED BY <1>1, <1>10

-----------------------------------------------------------------------------
(* Cutting a packet.                                                       *)

(* The sizes of a path fit into a frame.                                   *)
LEMMA PathIs ==
  ASSUME NEW path \in Path
  PROVE  /\ ChunkSize(path) = MAX_PAYLOAD - Envelope(path) - V7_HEADER
         /\ ChunkSize(path) \in Nat \ {0} /\ Envelope(path) \in Nat
         /\ SingleLimit(path) \in Nat /\ ChunkSize(path) <= SingleLimit(path)
         /\ SingleLimit(path) + Envelope(path) <= MAX_PAYLOAD
         /\ MAX_PAYLOAD \in Nat /\ V7_HEADER \in Nat
<1>1. /\ V7_HEADER \in Nat \ {0} /\ BITCHAT_HEADER \in Nat \ {0} /\ CHAT_HEADER \in Nat \ {0}
      /\ MAX_PAYLOAD \in Nat \ {0} /\ V6A_HEADER \in Nat \ {0}
      /\ MAX_PAYLOAD - BITCHAT_HEADER - CHAT_HEADER - V7_HEADER >= V6A_HEADER
  BY Positive
<1>2. /\ Envelope(path) \in Nat /\ MAX_PAYLOAD - Envelope(path) \in Nat
      /\ MAX_PAYLOAD - Envelope(path) - V7_HEADER \in Nat \ {0}
      /\ path = "direct" => Envelope(path) = 0
  BY <1>1 DEF Path, Envelope
<1>3. V7_HEADER + MAX_CHUNK = MAX_PAYLOAD
  BY <1>1 DEF MAX_CHUNK
<1>4. Min({MAX_PAYLOAD - Envelope(path), MAX_PAYLOAD}) = MAX_PAYLOAD - Envelope(path)
  <2>1. PICK a, b : a = MAX_PAYLOAD - Envelope(path) /\ b = MAX_PAYLOAD
    OBVIOUS
  <2>2. a \in Nat /\ b \in Nat /\ a <= b
    BY <1>1, <1>2, <2>1
  <2>3. Min({a, b}) = a
    BY <2>2, MinOfTwo
  <2> QED BY <2>1, <2>3
<1>5. ChunkSize(path) = MAX_PAYLOAD - Envelope(path) - V7_HEADER
  BY <1>3, <1>4 DEF ChunkSize
<1>6. SingleLimit(path) = IF path = "direct" THEN MAX_PAYLOAD ELSE ChunkSize(path)
  BY DEF SingleLimit
<1> QED BY <1>1, <1>2, <1>5, <1>6

(* size bytes a piece make t pieces of n bytes.                            *)
Cuts(n, size, t) ==
  /\ n \in Nat /\ size \in Nat \ {0} /\ t \in Nat \ {0}
  /\ (t - 1) * size < n /\ n <= t * size

(* The number of fragments is that of the cuts.                            *)
LEMMA TotalIs ==
  ASSUME NEW n \in Nat, NEW path \in Path, NEW t, t = Total(n, path)
  PROVE  /\ t \in Nat \ {0}
         /\ t = 1 <=> n <= SingleLimit(path)
         /\ t # 1 => Cuts(n, ChunkSize(path), t)
<1> DEFINE size == ChunkSize(path)
           limit == SingleLimit(path)
<1>1. size \in Nat \ {0} /\ limit \in Nat /\ size <= limit
  BY PathIs
<1>2. t = IF n <= limit THEN 1 ELSE (n + size - 1) \div size
  BY DEF Total
<1> HIDE DEF size, limit
<1>3. CASE n <= limit
  BY <1>2, <1>3 DEF limit
<1>4. CASE ~(n <= limit)
  <2>1. PICK x : x = n + size - 1
    OBVIOUS
  <2>2. x \in Nat /\ t = x \div size
    BY <1>1, <1>2, <1>4, <2>1
  <2>3. t \in Nat /\ t * size <= x /\ x < t * size + size
    BY <1>1, <2>2, DivBounds
  <2>4. t # 0
    BY <1>1, <1>4, <2>1, <2>3
  <2>5. t # 1
    BY <1>1, <1>4, <2>1, <2>3
  <2>6. (t - 1) * size = t * size - size /\ t * size \in Nat
    BY <1>1, <2>3
  <2>7. (t - 1) * size < n /\ n <= t * size
    <3>1. PICK y : y = t * size
      OBVIOUS
    <3>2. y \in Nat /\ y <= x /\ x < y + size /\ (t - 1) * size = y - size
      BY <2>3, <2>6, <3>1
    <3>3. y - size < n /\ n <= y
      BY <1>1, <2>1, <3>2
    <3> QED BY <3>1, <3>2, <3>3
  <2> QED BY <1>1, <1>4, <2>3, <2>4, <2>5, <2>7 DEF Cuts, limit, size
<1> QED BY <1>3, <1>4

(* Where piece k ends.                                                     *)
End(n, size, k) == IF k * size <= n THEN k * size ELSE n
(* Piece i of a packet.                                                    *)
Piece(packet, size, i) ==
  SubSeq(packet, i * size + 1, Min({(i + 1) * size, Len(packet)}))

(* The ends of the pieces are at most size apart.                          *)
LEMMA Ends ==
  ASSUME NEW n, NEW size, NEW t, Cuts(n, size, t)
  PROVE  /\ End(n, size, 0) = 0 /\ End(n, size, t) = n
         /\ \A k \in 0 .. t : End(n, size, k) \in Nat
         /\ \A k \in 0 .. t - 1 :
              /\ End(n, size, k) = k * size
              /\ End(n, size, k + 1) - End(n, size, k) \in 1 .. size
<1>0. /\ n \in Nat /\ size \in Nat \ {0} /\ t \in Nat \ {0}
      /\ (t - 1) * size < n /\ n <= t * size
  BY DEF Cuts
<1>1. ASSUME NEW k \in 0 .. t PROVE k * size \in Nat
  BY <1>0
<1>2. ASSUME NEW k \in 0 .. t - 1 PROVE k * size < n /\ (k + 1) * size = k * size + size
  <2>1. k * size <= (t - 1) * size
    <3>1. (t - 1) * size - k * size = (t - 1 - k) * size
      BY <1>0
    <3>2. t - 1 - k \in Nat /\ (t - 1 - k) * size \in Nat
      BY <1>0
    <3>3. (t - 1) * size \in Nat /\ k * size \in Nat
      BY <1>0
    <3> QED BY <3>1, <3>2, <3>3
  <2>2. (t - 1) * size \in Nat /\ k * size \in Nat
    BY <1>0
  <2>3. (k + 1) * size = k * size + size
    BY <1>0
  <2> QED BY <1>0, <2>1, <2>2, <2>3
<1>3. \A k \in 0 .. t : End(n, size, k) \in Nat
  BY <1>0, <1>1 DEF End
<1>4. End(n, size, 0) = 0
  BY <1>0 DEF End
<1>5. End(n, size, t) = n
  BY <1>0 DEF End
<1>6. ASSUME NEW k \in 0 .. t - 1
      PROVE  /\ End(n, size, k) = k * size
             /\ End(n, size, k + 1) - End(n, size, k) \in 1 .. size
  <2>1. PICK x, y : x = k * size /\ y = (k + 1) * size
    OBVIOUS
  <2>2. x \in Nat /\ x < n /\ y = x + size
    BY <1>0, <1>1, <1>2, <2>1
  <2>3. End(n, size, k) = x /\ End(n, size, k + 1) = IF y <= n THEN y ELSE n
    BY <1>0, <2>1, <2>2 DEF End
  <2> QED BY <1>0, <2>1, <2>2, <2>3
<1> QED BY <1>3, <1>4, <1>5, <1>6

(* The pieces of a packet.                                                 *)
LEMMA PieceIs ==
  ASSUME NEW T, NEW packet \in Seq(T), NEW n, n = Len(packet), NEW size, NEW t,
         Cuts(n, size, t), NEW i \in 0 .. t - 1
  PROVE  /\ Piece(packet, size, i) \in Seq(T)
         /\ Len(Piece(packet, size, i)) = End(n, size, i + 1) - End(n, size, i)
         /\ Len(Piece(packet, size, i)) \in 1 .. size
         /\ \A j \in 1 .. Len(Piece(packet, size, i)) :
              packet[End(n, size, i) + j] = Piece(packet, size, i)[j]
<1>0. n \in Nat /\ size \in Nat \ {0} /\ t \in Nat \ {0}
  BY DEF Cuts
<1>1. PICK x, y, z : x = End(n, size, i) /\ y = End(n, size, i + 1) /\ z = x + 1
  OBVIOUS
<1>2. x = i * size /\ y - x \in 1 .. size /\ x \in Nat /\ y \in Nat
  BY <1>0, <1>1, Ends
<1>3. Min({(i + 1) * size, n}) = y
  <2>1. PICK w : w = (i + 1) * size
    OBVIOUS
  <2>2. w \in Nat
    BY <1>0, <2>1
  <2>3. Min({w, n}) = IF w <= n THEN w ELSE n
    BY <1>0, <2>2, MinOfTwo
  <2>4. y = IF w <= n THEN w ELSE n
    BY <1>1, <2>1 DEF End
  <2> QED BY <2>1, <2>3, <2>4
<1>4. PICK s : s = SubSeq(packet, z, y)
  OBVIOUS
<1>5. s = Piece(packet, size, i)
  BY <1>1, <1>2, <1>3, <1>4 DEF Piece
<1>6. y <= n
  <2>1. y = IF (i + 1) * size <= n THEN (i + 1) * size ELSE n
    BY <1>1 DEF End
  <2> QED BY <1>0, <2>1
<1>7. z \in Int /\ y \in Int /\ \A k \in z .. y : packet[k] \in T
  <2>1. \A k \in z .. y : k \in 1 .. n
    BY <1>0, <1>1, <1>2, <1>6
  <2> QED BY <1>1, <1>2, <2>1, ElementOfSeq
<1>8. /\ SubSeq(packet, z, y) \in Seq(T)
      /\ Len(SubSeq(packet, z, y)) = IF z <= y THEN y - z + 1 ELSE 0
      /\ \A k \in 1 .. y - z + 1 : SubSeq(packet, z, y)[k] = packet[z + k - 1]
  BY <1>7, SubSeqProperties
<1>9. s \in Seq(T) /\ Len(s) = y - x /\ \A k \in 1 .. y - x : s[k] = packet[x + k]
  <2>1. z <= y /\ y - z + 1 = y - x /\ \A k \in 1 .. y - x : z + k - 1 = x + k
    <3>1. x \in Nat /\ y \in Nat /\ y - x >= 1 /\ z = x + 1
      BY <1>0, <1>1, <1>2
    <3> QED BY ONLY <3>1
  <2> QED BY <1>4, <1>8, <2>1
<1> QED BY <1>1, <1>2, <1>5, <1>9

-----------------------------------------------------------------------------
(* Joining the pieces.                                                     *)

(* g holds pieces of packet, and of nothing else.                          *)
Holds(g, packet, size) ==
  /\ Cuts(Len(packet), size, g.total)
  /\ DOMAIN g.chunks \subseteq 0 .. g.total - 1
  /\ \A i \in DOMAIN g.chunks : g.chunks[i] = Piece(packet, size, i)

(* The pieces a group holds, and <<>> for those it lacks.                  *)
Slots(g) == [k \in 1 .. g.total |->
                IF k - 1 \in DOMAIN g.chunks THEN g.chunks[k - 1] ELSE <<>>]

(* Every slot has its piece or nothing.                                    *)
LEMMA SlotsAre ==
  ASSUME NEW T, NEW packet \in Seq(T), NEW size, NEW g, Holds(g, packet, size)
  PROVE  /\ PartsIn(Slots(g), g.total, T) /\ g.total \in Nat \ {0}
         /\ \A k \in 1 .. g.total :
              Slots(g)[k] = IF k - 1 \in DOMAIN g.chunks
                            THEN Piece(packet, size, k - 1) ELSE <<>>
<1> DEFINE t == g.total
           s == Slots(g)
<1>1. t \in Nat \ {0} /\ Cuts(Len(packet), size, t)
  BY DEF Cuts, Holds
<1>2. s = [k \in 1 .. t |-> IF k - 1 \in DOMAIN g.chunks THEN g.chunks[k - 1] ELSE <<>>]
  BY DEF Slots
<1>3. \A i \in DOMAIN g.chunks : g.chunks[i] = Piece(packet, size, i)
  BY DEF Holds
<1>4. \A k \in 1 .. t : s[k] = IF k - 1 \in DOMAIN g.chunks
                               THEN Piece(packet, size, k - 1) ELSE <<>>
  BY <1>2, <1>3
<1>5. s = [k \in 1 .. t |-> s[k]]
  BY <1>2
<1> HIDE DEF s, t
<1>6. ASSUME NEW k \in 1 .. t PROVE s[k] \in Seq(T)
  <2>1. PICK i : i = k - 1
    OBVIOUS
  <2>2. i \in 0 .. t - 1
    BY <1>1, <2>1
  <2>3. Piece(packet, size, i) \in Seq(T)
    BY <1>1, <2>2, PieceIs
  <2>4. <<>> \in Seq(T)
    BY EmptySeq
  <2> QED BY <1>4, <2>1, <2>3, <2>4
<1>7. PartsIn(s, t, T)
  BY <1>5, <1>6 DEF PartsIn
<1> QED BY <1>1, <1>4, <1>7 DEF s, t

(* A group that holds every piece of a packet gives the packet back.       *)
THEOREM JoinedIsPacket ==
  ASSUME NEW T, NEW packet \in Seq(T), NEW size, NEW g, Holds(g, packet, size),
         DOMAIN g.chunks = 0 .. g.total - 1
  PROVE  Joined(g) = packet
<1> DEFINE t == g.total
           s == Slots(g)
           n == Len(packet)
           o == [k \in 0 .. t |-> End(n, size, k)]
<1>1. PartsIn(s, t, T) /\ t \in Nat \ {0}
  BY SlotsAre
<1>2. \A k \in 1 .. t : s[k] = Piece(packet, size, k - 1)
  <2>1. ASSUME NEW k \in 1 .. t PROVE k - 1 \in DOMAIN g.chunks
    BY <1>1
  <2> QED BY <2>1, SlotsAre
<1>3. Cuts(n, size, t)
  BY DEF Holds
<1>4. Joined(g) = FlattenSeq(s)
  BY DEF Joined, Slots
<1>5. \A k \in 0 .. t : o[k] = End(n, size, k)
  OBVIOUS
<1>6. o = [k \in 0 .. t |-> o[k]]
  OBVIOUS
<1> HIDE DEF t, s, n, o
<1>7. /\ o[0] = 0 /\ o[t] = n /\ \A k \in 0 .. t : o[k] \in Nat
  BY <1>1, <1>3, <1>5, Ends
<1>8. ASSUME NEW k \in 1 .. t
      PROVE  /\ o[k] = o[k - 1] + Len(s[k])
             /\ \A j \in 1 .. Len(s[k]) : packet[o[k - 1] + j] = s[k][j]
  <2>1. PICK i : i = k - 1
    OBVIOUS
  <2>2. i \in 0 .. t - 1 /\ k = i + 1 /\ i \in 0 .. t /\ k \in 0 .. t
    BY <1>1, <2>1
  <2>3. /\ Piece(packet, size, i) \in Seq(T)
        /\ Len(Piece(packet, size, i)) = End(n, size, i + 1) - End(n, size, i)
        /\ \A j \in 1 .. Len(Piece(packet, size, i)) :
              packet[End(n, size, i) + j] = Piece(packet, size, i)[j]
    BY <1>3, <2>2, PieceIs DEF n
  <2>4. s[k] = Piece(packet, size, i) /\ o[k - 1] = End(n, size, i) /\ o[k] = End(n, size, i + 1)
    BY <1>2, <1>5, <2>1, <2>2
  <2>5. o[k] \in Nat /\ o[k - 1] \in Nat
    BY <1>7, <2>1, <2>2
  <2> QED BY <2>3, <2>4, <2>5
<1>9. Offsets(o, packet, s, t)
  BY <1>6, <1>7, <1>8 DEF Offsets, n
<1>10. FlattenSeq(s) = packet
  BY <1>1, <1>9, FlattenIs
<1> QED BY <1>4, <1>10

(* A piece that is missing still fits.                                     *)
LEMMA MissingFits ==
  ASSUME NEW T, NEW packet \in Seq(T), NEW n, n = Len(packet), NEW size, NEW g,
         Holds(g, packet, size), NEW i \in 0 .. g.total - 1, i \notin DOMAIN g.chunks
  PROVE  /\ BytesHeld(g) \in Nat /\ Len(Piece(packet, size, i)) \in Nat
         /\ BytesHeld(g) + Len(Piece(packet, size, i)) <= n
<1> DEFINE t == g.total
           s == Slots(g)
           w == Len(Piece(packet, size, i))
           e == [k \in 0 .. t |-> End(n, size, k)]
<1>1. PartsIn(s, t, T) /\ t \in Nat \ {0}
  BY SlotsAre
<1>2. Cuts(n, size, t) /\ n \in Nat
  BY DEF Holds, Cuts
<1>3. \A k \in 0 .. t : e[k] = End(n, size, k)
  OBVIOUS
<1>4. \A k \in 1 .. t : s[k] = IF k - 1 \in DOMAIN g.chunks
                               THEN Piece(packet, size, k - 1) ELSE <<>>
  BY SlotsAre
<1> HIDE DEF t, s, w, e
<1>5. FlattenSeq(s) \in Seq(T) /\ \E o : Offsets(o, FlattenSeq(s), s, t)
  BY <1>1, FlattenOffsets
<1>6. PICK o : Offsets(o, FlattenSeq(s), s, t)
  BY <1>5
<1>7. /\ o[0] = 0 /\ o[t] = Len(FlattenSeq(s)) /\ \A k \in 0 .. t : o[k] \in Nat
      /\ \A k \in 1 .. t : o[k] = o[k - 1] + Len(s[k])
  BY <1>6 DEF Offsets
<1>8. /\ e[0] = 0 /\ e[t] = n /\ \A k \in 0 .. t : e[k] \in Nat
  BY <1>1, <1>2, <1>3, Ends
<1>9. ASSUME NEW k \in 0 .. t - 1
      PROVE  /\ Len(Piece(packet, size, k)) = e[k + 1] - e[k]
             /\ e[k] <= e[k + 1] /\ k + 1 \in 1 .. t /\ k \in 0 .. t /\ k + 1 \in 0 .. t
             /\ Len(s[k + 1]) = IF k \in DOMAIN g.chunks THEN e[k + 1] - e[k] ELSE 0
  <2>1. k \in 0 .. t /\ k + 1 \in 0 .. t /\ k + 1 \in 1 .. t /\ (k + 1) - 1 = k
    BY <1>1
  <2>2. /\ Len(Piece(packet, size, k)) = End(n, size, k + 1) - End(n, size, k)
        /\ Len(Piece(packet, size, k)) \in 1 .. size
    BY <1>2, PieceIs
  <2>3. size \in Nat
    BY <1>2 DEF Cuts
  <2>4. Len(Piece(packet, size, k)) = e[k + 1] - e[k] /\ e[k] <= e[k + 1]
    BY <1>3, <1>8, <2>1, <2>2, <2>3
  <2>5. s[k + 1] = IF k \in DOMAIN g.chunks THEN Piece(packet, size, k) ELSE <<>>
    BY <1>4, <2>1
  <2>6. Len(<<>>) = 0
    BY EmptySeq
  <2> QED BY <2>1, <2>4, <2>5, <2>6
<1>10. w = e[i + 1] - e[i] /\ w \in Nat /\ i + 1 \in 0 .. t /\ i \in 0 .. t
  <2>1. i \in 0 .. t - 1
    BY DEF t
  <2> QED BY <1>8, <1>9, <2>1 DEF w
<1>11. ASSUME NEW k \in 0 .. t
       PROVE  o[k] + (IF k <= i THEN 0 ELSE w) <= e[k]
  <2> DEFINE S == {x \in 0 .. t : o[x] + (IF x <= i THEN 0 ELSE w) <= e[x]}
  <2>1. 0 \in S
    BY <1>1, <1>7, <1>8
  <2>2. ASSUME NEW x \in 0 .. t - 1, x \in S PROVE x + 1 \in S
    <3>1. /\ e[x] <= e[x + 1] /\ x + 1 \in 1 .. t /\ x \in 0 .. t /\ x + 1 \in 0 .. t
          /\ Len(s[x + 1]) = IF x \in DOMAIN g.chunks THEN e[x + 1] - e[x] ELSE 0
      BY <1>9
    <3>2. o[x + 1] = o[x] + Len(s[x + 1])
      <4>1. (x + 1) - 1 = x
        OBVIOUS
      <4> QED BY <1>7, <3>1, <4>1
    <3>3. /\ o[x] \in Nat /\ o[x + 1] \in Nat /\ e[x] \in Nat /\ e[x + 1] \in Nat
      BY <1>7, <1>8, <3>1
    <3>4. o[x] + (IF x <= i THEN 0 ELSE w) <= e[x]
      BY <2>2
    <3>5. CASE x = i
      BY <1>10, <3>1, <3>2, <3>3, <3>4, <3>5
    <3>6. CASE x # i
      <4> DEFINE v == IF x <= i THEN 0 ELSE w
      <4>1. x + 1 <= i <=> x <= i
        BY <3>6
      <4>2. (IF x + 1 <= i THEN 0 ELSE w) = v /\ v \in Nat
        BY <1>10, <4>1
      <4>3. o[x] + v <= e[x]
        BY <3>4
      <4> HIDE DEF v
      <4>4. o[x + 1] + v <= e[x + 1]
        BY <3>1, <3>2, <3>3, <4>2, <4>3
      <4> QED BY <3>1, <4>2, <4>4
    <3> QED BY <3>5, <3>6
  <2>3. 0 .. t \subseteq S
    <3> HIDE DEF S
    <3> QED BY <1>1, <2>1, <2>2, UpTo
  <2> QED BY <2>3
<1>12. o[t] + w <= n
  <2>1. t \in 0 .. t /\ ~(t <= i)
    BY <1>1 DEF t
  <2> QED BY <1>8, <1>11, <2>1
<1>13. BytesHeld(g) = o[t] /\ o[t] \in Nat
  <2>1. BytesHeld(g) = Len(FlattenSeq(s))
    BY DEF BytesHeld, Joined, Slots, s
  <2> QED BY <1>1, <1>7, <2>1
<1> QED BY <1>10, <1>12, <1>13 DEF w

-----------------------------------------------------------------------------
(* The inductive invariant.                                                *)

(* s is a sequence.                                                        *)
IsSeq(s) == \E T : s \in Seq(T)

(* The packet of message m; whether it is queued for sending, and cut.     *)
PacketOf(m, msg) == BuildPacket(m, msg.text)
Sendable(msg) == msg.status # "refused"
Split(msg) == Sendable(msg) /\ msg.total # 1

(* Payload i of message m, as Payloads cuts it.                            *)
Original(m, msg, i) ==
  [msg |-> m, v7 |-> IF msg.total = 1 THEN FALSE ELSE TRUE, group |-> msg.group, index |-> i,
   total |-> msg.total, length |-> Len(PacketOf(m, msg)),
   bytes |-> IF msg.total = 1 THEN PacketOf(m, msg)
             ELSE Piece(PacketOf(m, msg), ChunkSize(msg.path), i)]

(* p is payload i of message m of msgs.                                    *)
IsOriginal(msgs, p, m, i) ==
  /\ m \in DOMAIN msgs /\ Sendable(msgs[m])
  /\ i \in 0 .. msgs[m].total - 1 /\ p = Original(m, msgs[m], i)

(* A message has these fields.                                             *)
IsMessage(msg) == msg = [path |-> msg.path, text |-> msg.text, group |-> msg.group,
                         total |-> msg.total, status |-> msg.status]

(* Message m is a text, not blank if it was queued, and its number of      *)
(* fragments is that of its packet.                                        *)
MessageOK(m, msg) ==
  /\ IsMessage(msg)
  /\ msg.path \in Path
  /\ msg.status \in {"refused", "sending", "sent", "failed"}
  /\ IsText(m, msg.text)
  /\ Sendable(msg) => HasSolid(msg.text)
  /\ msg.total = Total(Len(PacketOf(m, msg)), msg.path)

(* No two messages that are cut share a group id, and n is above all ids.  *)
MessagesOK(msgs, n) ==
  /\ IsSeq(msgs) /\ n \in Nat
  /\ \A m \in DOMAIN msgs : MessageOK(m, msgs[m])
  /\ \A m \in DOMAIN msgs : Split(msgs[m]) => msgs[m].group \in 0 .. n - 1
  /\ \A m, k \in DOMAIN msgs :
        Split(msgs[m]) /\ Split(msgs[k]) /\ msgs[m].group = msgs[k].group => m = k

(* A send loop has original payloads of messages of its path only.         *)
OutboxOK(msgs, path, ps) ==
  /\ IsSeq(ps)
  /\ \A j \in DOMAIN ps :
        \E m, i : IsOriginal(msgs, ps[j], m, i) /\ msgs[m].path = path

(* A frame has these fields.                                               *)
IsFrame(f) == f = [path |-> f.path, number |-> f.number, declared |-> f.declared,
                   payload |-> f.payload]

(* A frame carries its payload, or less of it than it declares.            *)
FrameOK(msgs, f) ==
  /\ IsFrame(f)
  /\ \E m, i, p :
        /\ IsOriginal(msgs, p, m, i) /\ msgs[m].path = f.path
        /\ f.declared = Len(p.bytes)
        /\ WellFormed(f) => f.payload = p

(* The frames of the direct path.                                          *)
WireOK(msgs, w) ==
  /\ IsSeq(w)
  /\ \A i \in DOMAIN w : FrameOK(msgs, w[i]) /\ w[i].path = "direct"

(* The frames in the mesh.                                                 *)
PacketsOK(msgs, ps) == \A f \in ps : FrameOK(msgs, f) /\ f.path # "direct"

(* Numbers grow along the wire, and none on it has been read.              *)
NumbersOK ==
  /\ counter \in Nat /\ lastNumber \in Nat
  /\ \A i \in DOMAIN wire : wire[i].number \in Nat /\ wire[i].number < counter
  /\ \A i, k \in DOMAIN wire : i < k => wire[i].number < wire[k].number
  /\ \/ last = {}
     \/ /\ last = {Signed(lastNumber)} /\ lastNumber < counter
        /\ \A i \in DOMAIN wire : lastNumber < wire[i].number

(* A group has these fields.                                               *)
IsGroup(g) == g = [group |-> g.group, total |-> g.total, length |-> g.length,
                   chunks |-> g.chunks]

(* A group holds pieces of one message, and has room for more.             *)
GroupOf(msgs, app, g, m) ==
  /\ m \in DOMAIN msgs /\ Split(msgs[m]) /\ App(msgs[m].path) = app
  /\ IsGroup(g) /\ g.group = msgs[m].group /\ g.total = msgs[m].total
  /\ g.length = Len(PacketOf(m, msgs[m]))
  /\ Holds(g, PacketOf(m, msgs[m]), ChunkSize(msgs[m].path))
  /\ DOMAIN g.chunks # 0 .. g.total - 1

(* No two groups share an id.                                              *)
Distinct(gs) ==
  \A i, k \in DOMAIN gs : gs[i].group = gs[k].group => i = k

(* The groups of one Reassembler.                                          *)
GroupsOK(msgs, app, gs) ==
  /\ IsSeq(gs) /\ Len(gs) <= MAX_GROUPS
  /\ Distinct(gs)
  /\ \A i \in DOMAIN gs : (\E m : GroupOf(msgs, app, gs[i], m)) /\ DOMAIN gs[i].chunks # {}

(* The fragments held of a group.                                          *)
HeldOf(gs, id) ==
  {k \in Nat : \E i \in DOMAIN gs : gs[i].group = id /\ k \in DOMAIN gs[i].chunks}

(* What was heard is a message and the text of that message.               *)
HeardOK(msgs, hs) ==
  \A h \in hs : h[1] \in DOMAIN msgs /\ h = <<h[1], msgs[h[1]].text>>

(* Message m was heard.                                                    *)
IsHeard(hs, m) == \E h \in hs : h[1] = m

(* What the histories say has come is held, or was heard.                  *)
ArrivedOK(msgs, ar, hs, gss) ==
  /\ IsSeq(ar) /\ DOMAIN ar = DOMAIN msgs
  /\ \A m \in DOMAIN msgs :
       /\ ~Sendable(msgs[m]) => ar[m] = {}
       /\ msgs[m].total = 1 => ar[m] = {} \/ IsHeard(hs, m)
       /\ Split(msgs[m]) =>
            IsHeard(hs, m) \/ ar[m] = HeldOf(gss[App(msgs[m].path)], msgs[m].group)

(* The two Reassemblers.                                                   *)
Apps == {"voice", "chat"}

(* The inductive invariant: what the writer, the air and the reader hold   *)
(* are parts of messages written, and the histories say what became of     *)
(* them.                                                                   *)
IInv ==
  /\ MessagesOK(messages, groupCounter)
  /\ DOMAIN outbox = Path /\ \A path \in Path : OutboxOK(messages, path, outbox[path])
  /\ WireOK(messages, wire)
  /\ PacketsOK(messages, packets)
  /\ NumbersOK
  /\ VerdictsAreTrue
  /\ DOMAIN partial = Apps /\ \A app \in Apps : GroupsOK(messages, app, partial[app])
  /\ HeardOK(messages, heard)
  /\ ArrivedOK(messages, arrived, heard, partial)

(* A sequence is a function over 1 .. Len.                                 *)
LEMMA SeqIs ==
  ASSUME NEW s, IsSeq(s)
  PROVE  Len(s) \in Nat /\ DOMAIN s = 1 .. Len(s) /\ s = [i \in 1 .. Len(s) |-> s[i]]
BY LenProperties DEF IsSeq

(* The empty sequence.                                                     *)
LEMMA EmptyIs == IsSeq(<<>>) /\ Len(<<>>) = 0 /\ DOMAIN <<>> = {}
<1>1. <<>> \in Seq({}) /\ Len(<<>>) = 0
  BY EmptySeq
<1> QED BY <1>1, LenProperties DEF IsSeq

(* A function over 1 .. n is a sequence.                                   *)
LEMMA FunctionIs ==
  ASSUME NEW n \in Nat, NEW f, f = [i \in 1 .. n |-> f[i]]
  PROVE  IsSeq(f) /\ Len(f) = n /\ DOMAIN f = 1 .. n
<1> DEFINE T == {f[i] : i \in 1 .. n}
<1>1. \A i \in 1 .. n : f[i] \in T
  OBVIOUS
<1> HIDE DEF T
<1>2. f \in [1 .. n -> T]
  BY <1>1
<1>3. f \in Seq(T)
  BY <1>2, SeqDef
<1>4. Len(f) = n /\ DOMAIN f = 1 .. n
  BY <1>2, <1>3, LenProperties
<1> QED BY <1>3, <1>4 DEF IsSeq

(* A sequence with x behind it.                                            *)
LEMMA AppendIs ==
  ASSUME NEW s, IsSeq(s), NEW x
  PROVE  /\ IsSeq(Append(s, x)) /\ Len(Append(s, x)) = Len(s) + 1
         /\ DOMAIN Append(s, x) = 1 .. Len(s) + 1
         /\ \A i \in 1 .. Len(s) : Append(s, x)[i] = s[i]
         /\ Append(s, x)[Len(s) + 1] = x
<1>1. PICK T : s \in Seq(T)
  BY DEF IsSeq
<1>2. s \in Seq(T \cup {x})
  BY <1>1, SeqMonotonic
<1>3. x \in T \cup {x}
  OBVIOUS
<1>4. /\ Append(s, x) \in Seq(T \cup {x}) /\ Len(Append(s, x)) = Len(s) + 1
      /\ \A i \in 1 .. Len(s) : Append(s, x)[i] = s[i]
      /\ Append(s, x)[Len(s) + 1] = x
  BY ONLY <1>2, <1>3, AppendProperties
<1>5. DOMAIN Append(s, x) = 1 .. Len(s) + 1
  BY <1>4, LenProperties
<1> QED BY <1>4, <1>5 DEF IsSeq

(* A sequence without its first element.                                   *)
LEMMA TailIs ==
  ASSUME NEW s, IsSeq(s), s # <<>>
  PROVE  /\ Len(s) \in Nat \ {0} /\ 1 \in DOMAIN s /\ Head(s) = s[1]
         /\ IsSeq(Tail(s)) /\ Len(Tail(s)) = Len(s) - 1
         /\ DOMAIN Tail(s) = 1 .. Len(s) - 1
         /\ \A i \in 1 .. Len(s) - 1 : Tail(s)[i] = s[i + 1]
<1>1. PICK T : s \in Seq(T)
  BY DEF IsSeq
<1>2. /\ Tail(s) \in Seq(T) /\ Len(Tail(s)) = Len(s) - 1
      /\ \A i \in 1 .. Len(Tail(s)) : Tail(s)[i] = s[i + 1]
  BY <1>1, HeadTailProperties
<1>3. Len(s) \in Nat \ {0} /\ DOMAIN s = 1 .. Len(s)
  BY <1>1, EmptySeq, LenProperties
<1>4. Head(s) = s[1]
  BY <1>1
<1>5. DOMAIN Tail(s) = 1 .. Len(s) - 1
  BY <1>2, LenProperties
<1> QED BY <1>2, <1>3, <1>4, <1>5 DEF IsSeq

(* A sequence without its first n elements.                                *)
LEMMA SuffixIs ==
  ASSUME NEW s, IsSeq(s), NEW n \in 0 .. Len(s)
  PROVE  /\ IsSeq(SubSeq(s, n + 1, Len(s))) /\ Len(SubSeq(s, n + 1, Len(s))) = Len(s) - n
         /\ DOMAIN SubSeq(s, n + 1, Len(s)) = 1 .. Len(s) - n
         /\ \A i \in 1 .. Len(s) - n : SubSeq(s, n + 1, Len(s))[i] = s[n + i]
<1>1. PICK T : s \in Seq(T)
  BY DEF IsSeq
<1>2. PICK l, k : l = Len(s) /\ k = n + 1
  OBVIOUS
<1>3. l \in Nat /\ k \in Int /\ n \in Nat /\ n <= l /\ k = n + 1
  BY <1>1, <1>2, LenProperties
<1>4. \A i \in k .. l : s[i] \in T
  <2>1. \A i \in k .. l : i \in 1 .. Len(s)
    BY <1>2, <1>3
  <2> QED BY <1>1, <2>1, ElementOfSeq
<1>5. /\ SubSeq(s, k, l) \in Seq(T) /\ Len(SubSeq(s, k, l)) = IF k <= l THEN l - k + 1 ELSE 0
      /\ \A i \in 1 .. l - k + 1 : SubSeq(s, k, l)[i] = s[k + i - 1]
  BY <1>3, <1>4, SubSeqProperties
<1>6. Len(SubSeq(s, k, l)) = l - n /\ \A i \in 1 .. l - n : SubSeq(s, k, l)[i] = s[n + i]
  <2>1. l - k + 1 = l - n /\ (~(k <= l) => l - n = 0) /\ \A i \in 1 .. l - n : k + i - 1 = n + i
    BY ONLY <1>3
  <2> QED BY <1>5, <2>1
<1>7. DOMAIN SubSeq(s, k, l) = 1 .. l - n
  BY <1>5, <1>6, LenProperties
<1> QED BY <1>2, <1>5, <1>6, <1>7 DEF IsSeq

(* A sequence without element i.                                           *)
LEMMA RemoveAtIs ==
  ASSUME NEW s, IsSeq(s), NEW i \in DOMAIN s, NEW r, r = RemoveAt(s, i)
  PROVE  /\ IsSeq(r) /\ Len(r) = Len(s) - 1 /\ DOMAIN r = 1 .. Len(s) - 1
         /\ \A k \in 1 .. Len(s) - 1 : r[k] = s[IF k < i THEN k ELSE k + 1]
<1>1. PICK T : s \in Seq(T)
  BY DEF IsSeq
<1>2. PICK n, a, b : n = Len(s) /\ a = i - 1 /\ b = i + 1
  OBVIOUS
<1>3. n \in Nat /\ i \in 1 .. n /\ a = i - 1 /\ b = i + 1 /\ a \in Int /\ b \in Int
  BY <1>1, <1>2, LenProperties
<1>4. \A k \in 1 .. n : s[k] \in T
  BY <1>1, <1>2, ElementOfSeq
<1>5. PICK x, y : x = SubSeq(s, 1, a) /\ y = SubSeq(s, b, n)
  OBVIOUS
<1>6. x \in Seq(T) /\ Len(x) = i - 1 /\ \A k \in 1 .. i - 1 : x[k] = s[k]
  <2>1. 1 \in Int /\ \A k \in 1 .. a : s[k] \in T
    BY <1>3, <1>4
  <2>2. /\ SubSeq(s, 1, a) \in Seq(T) /\ Len(SubSeq(s, 1, a)) = IF 1 <= a THEN a - 1 + 1 ELSE 0
        /\ \A k \in 1 .. a - 1 + 1 : SubSeq(s, 1, a)[k] = s[1 + k - 1]
    BY <1>3, <2>1, SubSeqProperties
  <2>3. a - 1 + 1 = i - 1 /\ (~(1 <= a) => i - 1 = 0) /\ \A k \in 1 .. i - 1 : 1 + k - 1 = k
    BY ONLY <1>3
  <2> QED BY <1>5, <2>2, <2>3
<1>7. y \in Seq(T) /\ Len(y) = n - i /\ \A k \in 1 .. n - i : y[k] = s[i + k]
  <2>1. \A k \in b .. n : s[k] \in T
    BY <1>3, <1>4
  <2>2. /\ SubSeq(s, b, n) \in Seq(T) /\ Len(SubSeq(s, b, n)) = IF b <= n THEN n - b + 1 ELSE 0
        /\ \A k \in 1 .. n - b + 1 : SubSeq(s, b, n)[k] = s[b + k - 1]
    BY <1>3, <2>1, SubSeqProperties
  <2>3. n - b + 1 = n - i /\ (~(b <= n) => n - i = 0) /\ \A k \in 1 .. n - i : b + k - 1 = i + k
    BY ONLY <1>3
  <2> QED BY <1>5, <2>2, <2>3
<1>8. r = x \o y
  BY <1>2, <1>5 DEF RemoveAt
<1>13. x \in Seq(T) /\ y \in Seq(T)
  BY <1>6, <1>7
<1>9. /\ x \o y \in Seq(T) /\ Len(x \o y) = Len(x) + Len(y)
      /\ \A k \in 1 .. Len(x) : (x \o y)[k] = x[k]
      /\ \A k \in 1 .. Len(y) : (x \o y)[Len(x) + k] = y[k]
  BY ONLY <1>13, ConcatAt
<1>10. r \in Seq(T) /\ Len(r) = n - 1
  BY <1>3, <1>6, <1>7, <1>8, <1>9
<1>11. ASSUME NEW k \in 1 .. n - 1 PROVE r[k] = s[IF k < i THEN k ELSE k + 1]
  <2>1. CASE k < i
    <3>1. k \in 1 .. i - 1
      BY <1>3, <2>1
    <3> QED BY <1>6, <1>8, <1>9, <2>1, <3>1
  <2>2. CASE ~(k < i)
    <3>1. PICK l : l = k - (i - 1)
      OBVIOUS
    <3>2. l \in 1 .. n - i /\ i - 1 + l = k /\ i + l = k + 1
      BY <1>3, <2>2, <3>1
    <3>3. r[i - 1 + l] = s[i + l]
      BY <1>6, <1>7, <1>8, <1>9, <3>2
    <3> QED BY <2>2, <3>2, <3>3
  <2> QED BY <2>1, <2>2
<1>12. DOMAIN r = 1 .. n - 1
  BY <1>10, LenProperties
<1> QED BY <1>2, <1>10, <1>11, <1>12 DEF IsSeq

(* The packet of a message, its fragments, and what it decodes to.         *)
LEMMA MessageIs ==
  ASSUME NEW m \in Nat, NEW msg, MessageOK(m, msg)
  PROVE  /\ msg.path \in Path /\ msg.total \in Nat \ {0}
         /\ PacketOf(m, msg) \in Seq(Byte) /\ Len(PacketOf(m, msg)) \in Nat \ {0}
         /\ msg.total = 1 => Len(PacketOf(m, msg)) <= SingleLimit(msg.path)
         /\ msg.total # 1 => Cuts(Len(PacketOf(m, msg)), ChunkSize(msg.path), msg.total)
         /\ Sendable(msg) => Decode(PacketOf(m, msg)) = <<m, msg.text>>
<1>1. IsText(m, msg.text) /\ msg.path \in Path
  BY DEF MessageOK
<1>2. PICK p : p = PacketOf(m, msg)
  OBVIOUS
<1>3. p \in Seq(Byte) /\ Len(p) \in Nat \ {0}
  <2>1. p = BuildPacket(m, msg.text)
    BY <1>2 DEF PacketOf
  <2>2. p \in Seq(Byte) /\ Len(p) = V6A_HEADER + Len(Utf8Encode(msg.text))
        /\ Len(Utf8Encode(msg.text)) \in Nat
    BY <1>1, <2>1, PacketIs
  <2>3. V6A_HEADER \in Nat \ {0}
    BY Positive
  <2> QED BY <2>2, <2>3
<1>4. PICK n, t, path : n = Len(p) /\ t = msg.total /\ path = msg.path
  OBVIOUS
<1>5. n \in Nat /\ path \in Path /\ t = Total(n, path)
  BY <1>1, <1>2, <1>3, <1>4 DEF MessageOK
<1>6. t \in Nat \ {0} /\ (t = 1 <=> n <= SingleLimit(path))
      /\ (t # 1 => Cuts(n, ChunkSize(path), t))
  BY ONLY <1>5, TotalIs
<1>7. Sendable(msg) => Decode(PacketOf(m, msg)) = <<m, msg.text>>
  BY <1>1, PacketRoundTrip DEF MessageOK, PacketOf
<1> QED BY <1>1, <1>2, <1>3, <1>4, <1>6, <1>7

(* Every payload of a message fits into a frame.                           *)
LEMMA OriginalIs ==
  ASSUME NEW m \in Nat, NEW msg, MessageOK(m, msg), NEW i \in 0 .. msg.total - 1,
         NEW p, p = Original(m, msg, i)
  PROVE  /\ p.bytes \in Seq(Byte) /\ Len(p.bytes) \in Nat \ {0}
         /\ Size(p, msg.path) <= MAX_PAYLOAD
<1>1. /\ msg.path \in Path /\ msg.total \in Nat \ {0}
      /\ PacketOf(m, msg) \in Seq(Byte) /\ Len(PacketOf(m, msg)) \in Nat \ {0}
      /\ msg.total = 1 => Len(PacketOf(m, msg)) <= SingleLimit(msg.path)
      /\ msg.total # 1 => Cuts(Len(PacketOf(m, msg)), ChunkSize(msg.path), msg.total)
  BY MessageIs
<1>2. PICK k, e, size : k = PacketOf(m, msg) /\ e = Envelope(msg.path) /\ size = ChunkSize(msg.path)
  OBVIOUS
<1>3. /\ size = MAX_PAYLOAD - e - V7_HEADER /\ size \in Nat \ {0} /\ e \in Nat
      /\ SingleLimit(msg.path) \in Nat /\ SingleLimit(msg.path) + e <= MAX_PAYLOAD
      /\ MAX_PAYLOAD \in Nat /\ V7_HEADER \in Nat
  BY <1>1, <1>2, PathIs
<1>4. Size(p, msg.path) = Len(p.bytes) + e + (IF p.v7 THEN V7_HEADER ELSE 0)
  BY <1>2 DEF Size
<1>5. p.bytes = (IF msg.total = 1 THEN k ELSE Piece(k, size, i))
      /\ p.v7 = (IF msg.total = 1 THEN FALSE ELSE TRUE)
  BY <1>2 DEF Original
<1>6. CASE msg.total = 1
  <2>1. p.bytes = k /\ ~p.v7
    BY <1>5, <1>6
  <2>2. Len(k) \in Nat \ {0} /\ Len(k) <= SingleLimit(msg.path) /\ k \in Seq(Byte)
    BY <1>1, <1>2, <1>6
  <2> QED BY <1>3, <1>4, <2>1, <2>2
<1>7. CASE msg.total # 1
  <2>1. p.bytes = Piece(k, size, i) /\ p.v7
    BY <1>5, <1>7
  <2>2. PICK n, t : n = Len(k) /\ t = msg.total
    OBVIOUS
  <2>3. Cuts(n, size, t) /\ k \in Seq(Byte) /\ i \in 0 .. t - 1
    BY <1>1, <1>2, <1>7, <2>2
  <2>4. Piece(k, size, i) \in Seq(Byte) /\ Len(Piece(k, size, i)) \in 1 .. size
    BY ONLY <2>2, <2>3, PieceIs
  <2> QED BY <1>3, <1>4, <2>1, <2>4
<1> QED BY <1>6, <1>7

(* What the writer queues is every original payload.                       *)
LEMMA PayloadsAre ==
  ASSUME NEW m \in Nat, NEW msg, MessageOK(m, msg)
  PROVE  /\ IsSeq(Payloads(m, msg)) /\ DOMAIN Payloads(m, msg) = 1 .. msg.total
         /\ \A k \in 1 .. msg.total : Payloads(m, msg)[k] = Original(m, msg, k - 1)
<1> DEFINE packet == PacketOf(m, msg)
           size == ChunkSize(msg.path)
           Fragment(i) == [msg |-> m, v7 |-> TRUE, group |-> msg.group,
                        index |-> i, total |-> msg.total, length |-> Len(packet),
                        bytes |-> Piece(packet, size, i)]
           ps == Payloads(m, msg)
<1>1. ps = IF msg.total = 1
       THEN << [Fragment(0) EXCEPT !.v7 = FALSE, !.bytes = packet] >>
       ELSE [i \in 1 .. msg.total |-> Fragment(i - 1)]
  BY DEF Payloads, PacketOf, Piece
<1>2. msg.total \in Nat \ {0}
  BY MessageIs
<1>3. \A i : Original(m, msg, i) = [msg |-> m, v7 |-> IF msg.total = 1 THEN FALSE ELSE TRUE,
         group |-> msg.group, index |-> i, total |-> msg.total, length |-> Len(packet),
         bytes |-> IF msg.total = 1 THEN packet ELSE Piece(packet, size, i)]
  BY DEF Original
<1> HIDE DEF packet, size, ps
<1>4. CASE msg.total = 1
  <2>1. ps = <<[msg |-> m, v7 |-> FALSE, group |-> msg.group,
                 index |-> 0, total |-> msg.total, length |-> Len(packet),
                 bytes |-> packet]>>
    <3>1. PICK f, r, no : f = Fragment(0) /\ no = FALSE /\ r = [f EXCEPT !.v7 = no]
      OBVIOUS
    <3>2. r = [msg |-> m, v7 |-> no, group |-> msg.group, index |-> 0,
               total |-> msg.total, length |-> Len(packet), bytes |-> Piece(packet, size, 0)]
      BY <3>1
    <3>3. [r EXCEPT !.bytes = packet] =
             [msg |-> m, v7 |-> no, group |-> msg.group, index |-> 0,
              total |-> msg.total, length |-> Len(packet), bytes |-> packet]
      BY ONLY <3>2
    <3> HIDE DEF Fragment
    <3>4. ps = <<[r EXCEPT !.bytes = packet]>>
      BY <1>1, <1>4, <3>1
    <3> QED BY <3>1, <3>3, <3>4
  <2>2. Original(m, msg, 0) = [msg |-> m, v7 |-> FALSE, group |-> msg.group,
                 index |-> 0, total |-> msg.total, length |-> Len(packet),
                 bytes |-> packet]
    BY <1>3, <1>4
  <2>3. ps = <<Original(m, msg, 0)>>
    BY <2>1, <2>2
  <2>4. PICK x : x = Original(m, msg, 0)
    OBVIOUS
  <2>5. <<x>> \in Seq({x}) /\ Len(<<x>>) = 1 /\ DOMAIN <<x>> = 1 .. 1 /\ <<x>>[1] = x
    OBVIOUS
  <2>6. \A k \in 1 .. 1 : k = 1 /\ k - 1 = 0
    OBVIOUS
  <2> QED BY <1>4, <2>3, <2>4, <2>5, <2>6 DEF ps, IsSeq
<1>5. CASE msg.total # 1
  <2>1. ps = [i \in 1 .. msg.total |-> Fragment(i - 1)]
    BY <1>1, <1>5
  <2>2. \A i : Original(m, msg, i) = Fragment(i)
    BY <1>3, <1>5
  <2> HIDE DEF Fragment
  <2>3. \A k \in 1 .. msg.total : ps[k] = Original(m, msg, k - 1)
    BY <2>1, <2>2
  <2>4. ps = [i \in 1 .. msg.total |-> ps[i]]
    BY <2>1
  <2>5. IsSeq(ps) /\ DOMAIN ps = 1 .. msg.total
    BY <1>2, <2>4, FunctionIs
  <2> QED BY <2>3, <2>5 DEF ps
<1> QED BY <1>4, <1>5

-----------------------------------------------------------------------------
(* What a change of the messages leaves true.                              *)

(* new has the messages of msgs, with other statuses perhaps, and more     *)
(* behind.                                                                 *)
Same(msgs, new) ==
  /\ DOMAIN msgs \subseteq DOMAIN new
  /\ \A m \in DOMAIN msgs :
       /\ new[m].path = msgs[m].path /\ new[m].text = msgs[m].text
       /\ new[m].group = msgs[m].group /\ new[m].total = msgs[m].total
       /\ Sendable(new[m]) <=> Sendable(msgs[m])

(* What was a payload of a message is one.                                 *)
LEMMA SameOriginal ==
  ASSUME NEW msgs, NEW new, Same(msgs, new), NEW p, NEW m, NEW i, IsOriginal(msgs, p, m, i)
  PROVE  IsOriginal(new, p, m, i) /\ new[m].path = msgs[m].path
<1>1. m \in DOMAIN msgs
  BY DEF IsOriginal
<1>2. /\ new[m].path = msgs[m].path /\ new[m].text = msgs[m].text
      /\ new[m].group = msgs[m].group /\ new[m].total = msgs[m].total
      /\ Sendable(new[m]) <=> Sendable(msgs[m])
      /\ m \in DOMAIN new
  BY <1>1 DEF Same
<1>3. Original(m, new[m], i) = Original(m, msgs[m], i)
  BY <1>2 DEF Original, PacketOf
<1> QED BY <1>2, <1>3 DEF IsOriginal

(* What could be queued can be.                                            *)
LEMMA SameOutbox ==
  ASSUME NEW msgs, NEW new, Same(msgs, new), NEW path, NEW ps, OutboxOK(msgs, path, ps)
  PROVE  OutboxOK(new, path, ps)
BY SameOriginal DEF OutboxOK

(* What was a frame of a message is one.                                   *)
LEMMA SameFrame ==
  ASSUME NEW msgs, NEW new, Same(msgs, new), NEW f, FrameOK(msgs, f)
  PROVE  FrameOK(new, f)
BY SameOriginal DEF FrameOK

(* So for everything in the air.                                           *)
LEMMA SameAir ==
  ASSUME NEW msgs, NEW new, Same(msgs, new), NEW w, WireOK(msgs, w), NEW ps, PacketsOK(msgs, ps)
  PROVE  WireOK(new, w) /\ PacketsOK(new, ps)
BY SameFrame DEF WireOK, PacketsOK

(* The groups are still of the messages they were of.                      *)
LEMMA SameGroups ==
  ASSUME NEW msgs, NEW new, Same(msgs, new), NEW app, NEW gs, GroupsOK(msgs, app, gs)
  PROVE  GroupsOK(new, app, gs)
<1>1. ASSUME NEW g, NEW m, GroupOf(msgs, app, g, m) PROVE GroupOf(new, app, g, m)
  <2>1. m \in DOMAIN msgs
    BY <1>1 DEF GroupOf
  <2>2. /\ new[m].path = msgs[m].path /\ new[m].text = msgs[m].text
        /\ new[m].group = msgs[m].group /\ new[m].total = msgs[m].total
        /\ Sendable(new[m]) <=> Sendable(msgs[m])
        /\ m \in DOMAIN new
    BY <2>1 DEF Same
  <2>3. PacketOf(m, new[m]) = PacketOf(m, msgs[m])
    BY <2>2 DEF PacketOf
  <2> QED BY <1>1, <2>2, <2>3 DEF GroupOf, Split
<1> QED BY <1>1 DEF GroupsOK

(* What was heard is still what was written.                               *)
LEMMA SameHeard ==
  ASSUME NEW msgs, NEW new, Same(msgs, new), NEW hs, HeardOK(msgs, hs)
  PROVE  HeardOK(new, hs)
<1> SUFFICES ASSUME NEW h \in hs PROVE h[1] \in DOMAIN new /\ h = <<h[1], new[h[1]].text>>
  BY DEF HeardOK
<1>1. PICK m : m = h[1]
  OBVIOUS
<1>2. m \in DOMAIN msgs /\ h = <<m, msgs[m].text>>
  BY <1>1 DEF HeardOK
<1>3. m \in DOMAIN new /\ new[m].text = msgs[m].text
  BY <1>2 DEF Same
<1> QED BY <1>1, <1>2, <1>3

(* The histories still say the truth.                                      *)
LEMMA SameArrived ==
  ASSUME NEW msgs, NEW new, Same(msgs, new), DOMAIN new = DOMAIN msgs,
         NEW ar, NEW hs, NEW gss, ArrivedOK(msgs, ar, hs, gss)
  PROVE  ArrivedOK(new, ar, hs, gss)
BY DEF Same, ArrivedOK, Split

-----------------------------------------------------------------------------
(* Lists of groups.                                                        *)

(* What is held of an id is the chunks of its group.                       *)
LEMMA HeldIs ==
  ASSUME NEW gs, Distinct(gs), NEW i \in DOMAIN gs, DOMAIN gs[i].chunks \subseteq Nat
  PROVE  HeldOf(gs, gs[i].group) = DOMAIN gs[i].chunks
BY DEF Distinct, HeldOf

(* What is left of the groups gs without the first n.                      *)
Later(s, gs, n) ==
  /\ IsSeq(s) /\ Len(s) = Len(gs) - n /\ Distinct(s)
  /\ \A k \in DOMAIN s : \E j \in DOMAIN gs : s[k] = gs[j] /\ j > n
  /\ \A id : HeldOf(s, id) = IF \E i \in 1 .. n : gs[i].group = id THEN {}
                             ELSE HeldOf(gs, id)

(* The groups gs without the first n.                                      *)
LEMMA SuffixGroups ==
  ASSUME NEW gs, IsSeq(gs), Distinct(gs), NEW n \in 0 .. Len(gs),
         NEW s, s = SubSeq(gs, n + 1, Len(gs))
  PROVE  Later(s, gs, n)
<1>0. PICK l : l = Len(gs)
  OBVIOUS
<1>1. l \in Nat /\ DOMAIN gs = 1 .. l /\ n \in Nat /\ n <= l
  BY <1>0, SeqIs
<1>2. /\ IsSeq(s) /\ Len(s) = l - n /\ DOMAIN s = 1 .. l - n
      /\ \A i \in 1 .. l - n : s[i] = gs[n + i]
  BY <1>0, SuffixIs
<1>3. ASSUME NEW k \in DOMAIN s
      PROVE  k \in Nat /\ n + k \in DOMAIN gs /\ s[k] = gs[n + k] /\ n + k > n
  <2>1. k \in 1 .. l - n
    BY <1>2
  <2>2. k \in Nat /\ n + k \in 1 .. l /\ n + k > n
    BY ONLY <1>1, <2>1
  <2> QED BY <1>1, <1>2, <2>1, <2>2
<1>4. \A j \in DOMAIN gs : j > n => j - n \in DOMAIN s /\ s[j - n] = gs[j]
  <2> SUFFICES ASSUME NEW j \in 1 .. l, j > n
               PROVE  j - n \in DOMAIN s /\ s[j - n] = gs[j]
    BY <1>1
  <2>1. j - n \in 1 .. l - n /\ n + (j - n) = j
    BY <1>1
  <2>2. s[j - n] = gs[n + (j - n)]
    BY <1>2, <2>1
  <2> QED BY <1>2, <2>1, <2>2
<1>5. Distinct(s)
  <2> SUFFICES ASSUME NEW i \in DOMAIN s, NEW k \in DOMAIN s, s[i].group = s[k].group
               PROVE  i = k
    BY DEF Distinct
  <2>1. n + i \in DOMAIN gs /\ n + k \in DOMAIN gs /\ gs[n + i].group = gs[n + k].group
    BY <1>3
  <2>2. n + i = n + k
    BY <2>1 DEF Distinct
  <2>3. i \in Nat /\ k \in Nat
    BY <1>3
  <2> QED BY ONLY <1>1, <2>2, <2>3
<1>6. ASSUME NEW id
      PROVE  HeldOf(s, id) = IF \E i \in 1 .. n : gs[i].group = id THEN {} ELSE HeldOf(gs, id)
  <2>1. CASE \E i \in 1 .. n : gs[i].group = id
    <3>1. PICK i \in 1 .. n : gs[i].group = id
      BY <2>1
    <3>2. i \in DOMAIN gs /\ i <= n
      BY <1>1
    <3>3. ASSUME NEW k \in DOMAIN s, s[k].group = id PROVE FALSE
      <4>1. n + k \in DOMAIN gs /\ gs[n + k].group = id /\ n + k > n
        BY <1>3, <3>3
      <4>2. n + k = i
        BY <3>1, <3>2, <4>1 DEF Distinct
      <4> QED BY <3>2, <4>1, <4>2
    <3>4. HeldOf(s, id) = {}
      BY <3>3 DEF HeldOf
    <3> QED BY <2>1, <3>4
  <2>2. CASE ~\E i \in 1 .. n : gs[i].group = id
    <3>1. \A j \in DOMAIN gs : gs[j].group = id => j > n
      BY <1>1, <2>2
    <3>2. \A k : (\E i \in DOMAIN s : s[i].group = id /\ k \in DOMAIN s[i].chunks)
                 <=> (\E i \in DOMAIN gs : gs[i].group = id /\ k \in DOMAIN gs[i].chunks)
      BY <1>3, <1>4, <3>1
    <3>3. HeldOf(s, id) = HeldOf(gs, id)
      BY <3>2 DEF HeldOf
    <3> QED BY <2>2, <3>3
  <2> QED BY <2>1, <2>2
<1>7. \A k \in DOMAIN s : \E j \in DOMAIN gs : s[k] = gs[j] /\ j > n
  BY <1>3
<1> QED BY <1>2, <1>5, <1>6, <1>7 DEF Later

(* What is left of the groups gs without group j.                          *)
Fewer(r, gs, j) ==
  /\ IsSeq(r) /\ Len(r) <= Len(gs) /\ Distinct(r)
  /\ \A k \in DOMAIN r : \E i \in DOMAIN gs : r[k] = gs[i] /\ i # j
  /\ \A id : id # gs[j].group => HeldOf(r, id) = HeldOf(gs, id)

(* The groups gs without group j.                                          *)
LEMMA RemovedGroup ==
  ASSUME NEW gs, IsSeq(gs), Distinct(gs), NEW j \in DOMAIN gs,
         NEW r, r = RemoveAt(gs, j)
  PROVE  Fewer(r, gs, j)
<1>1. Len(gs) \in Nat /\ DOMAIN gs = 1 .. Len(gs)
  BY SeqIs
<1>2. /\ IsSeq(r) /\ Len(r) = Len(gs) - 1 /\ DOMAIN r = 1 .. Len(gs) - 1
      /\ \A k \in 1 .. Len(gs) - 1 : r[k] = gs[IF k < j THEN k ELSE k + 1]
  BY RemoveAtIs
<1>3. ASSUME NEW k \in DOMAIN r
      PROVE  /\ k < j => k \in DOMAIN gs /\ r[k] = gs[k]
             /\ ~(k < j) => k + 1 \in DOMAIN gs /\ r[k] = gs[k + 1] /\ k + 1 # j
  <2>1. CASE k < j
    BY <1>1, <1>2, <2>1
  <2>2. CASE ~(k < j)
    BY <1>1, <1>2, <2>2
  <2> QED BY <2>1, <2>2
<1>4. \A k \in DOMAIN r : \E i \in DOMAIN gs : r[k] = gs[i] /\ i # j
  BY <1>1, <1>3
<1>5. Distinct(r)
  <2> SUFFICES ASSUME NEW i \in DOMAIN r, NEW k \in DOMAIN r, r[i].group = r[k].group
               PROVE  i = k
    BY DEF Distinct
  <2>1. PICK a : a = IF i < j THEN i ELSE i + 1
    OBVIOUS
  <2>2. PICK b : b = IF k < j THEN k ELSE k + 1
    OBVIOUS
  <2>3. a \in DOMAIN gs /\ r[i] = gs[a]
    BY <1>3, <2>1
  <2>4. b \in DOMAIN gs /\ r[k] = gs[b]
    BY <1>3, <2>2
  <2>5. a = b
    BY <2>3, <2>4 DEF Distinct
  <2>6. i \in Nat /\ k \in Nat /\ j \in Nat
    BY <1>1, <1>2
  <2> QED BY <2>1, <2>2, <2>5, <2>6
<1>6. ASSUME NEW i \in DOMAIN gs, i # j PROVE \E k \in DOMAIN r : r[k] = gs[i]
  <2>1. CASE i < j
    <3>1. i \in DOMAIN r
      BY <1>1, <1>2, <2>1
    <3> QED BY <1>3, <2>1, <3>1
  <2>2. CASE ~(i < j)
    <3>1. PICK k : k = i - 1
      OBVIOUS
    <3>2. k \in DOMAIN r /\ ~(k < j) /\ k + 1 = i
      BY <1>1, <1>2, <1>6, <2>2, <3>1
    <3> QED BY <1>3, <3>2
  <2> QED BY <2>1, <2>2
<1>7. ASSUME NEW id, id # gs[j].group PROVE HeldOf(r, id) = HeldOf(gs, id)
  <2>1. \A k : (\E i \in DOMAIN r : r[i].group = id /\ k \in DOMAIN r[i].chunks)
               <=> (\E i \in DOMAIN gs : gs[i].group = id /\ k \in DOMAIN gs[i].chunks)
    <3>1. \A i \in DOMAIN gs : gs[i].group = id => i # j
      BY <1>7
    <3> QED BY <1>4, <1>6, <3>1
  <2> QED BY <2>1 DEF HeldOf
<1>8. Len(r) <= Len(gs)
  BY <1>1, <1>2
<1> QED BY <1>2, <1>4, <1>5, <1>7, <1>8 DEF Fewer

(* The groups gs with x for group j.                                       *)
Changed(r, gs, j, x) ==
  /\ IsSeq(r) /\ Len(r) = Len(gs) /\ Distinct(r) /\ DOMAIN r = DOMAIN gs
  /\ r[j] = x /\ \A k \in DOMAIN gs : k # j => r[k] = gs[k]
  /\ HeldOf(r, x.group) = DOMAIN x.chunks
  /\ \A id : id # x.group => HeldOf(r, id) = HeldOf(gs, id)

(* The groups gs with x for group j.                                       *)
LEMMA ReplacedGroup ==
  ASSUME NEW gs, IsSeq(gs), Distinct(gs), NEW j \in DOMAIN gs, NEW x,
         x.group = gs[j].group, DOMAIN x.chunks \subseteq Nat,
         NEW r, r = [gs EXCEPT ![j] = x]
  PROVE  Changed(r, gs, j, x)
<1>1. /\ IsSeq(r) /\ Len(r) = Len(gs) /\ DOMAIN r = DOMAIN gs
      /\ \A k \in DOMAIN gs : r[k] = IF k = j THEN x ELSE gs[k]
  <2>1. Len(gs) \in Nat /\ DOMAIN gs = 1 .. Len(gs)
    BY SeqIs
  <2>2. DOMAIN r = DOMAIN gs /\ \A k \in DOMAIN gs : r[k] = IF k = j THEN x ELSE gs[k]
    OBVIOUS
  <2>3. r = [k \in 1 .. Len(gs) |-> r[k]]
    BY <2>1
  <2> QED BY <2>1, <2>2, <2>3, FunctionIs
<1>2. \A k \in DOMAIN gs : r[k].group = gs[k].group
  BY <1>1
<1>3. Distinct(r)
  BY <1>1, <1>2 DEF Distinct
<1>4. r[j] = x /\ \A k \in DOMAIN gs : k # j => r[k] = gs[k]
  BY <1>1
<1>5. HeldOf(r, x.group) = DOMAIN x.chunks
  BY <1>1, <1>3, <1>4, HeldIs
<1>6. ASSUME NEW id, id # x.group PROVE HeldOf(r, id) = HeldOf(gs, id)
  <2>1. \A k : (\E i \in DOMAIN r : r[i].group = id /\ k \in DOMAIN r[i].chunks)
               <=> (\E i \in DOMAIN gs : gs[i].group = id /\ k \in DOMAIN gs[i].chunks)
    <3>1. \A i \in DOMAIN gs : gs[i].group = id => i # j
      BY <1>6
    <3>2. \A i \in DOMAIN r : r[i].group = id => i # j
      BY <1>4, <1>6
    <3> QED BY <1>1, <1>4, <3>1, <3>2
  <2> QED BY <2>1 DEF HeldOf
<1> QED BY <1>1, <1>3, <1>4, <1>5, <1>6 DEF Changed

(* The groups gs with x behind them.                                       *)
Longer(r, gs, x) ==
  /\ IsSeq(r) /\ Len(r) = Len(gs) + 1 /\ Distinct(r)
  /\ Len(gs) + 1 \in DOMAIN r /\ r[Len(gs) + 1] = x
  /\ \A k \in DOMAIN r : k # Len(gs) + 1 => k \in DOMAIN gs /\ r[k] = gs[k]
  /\ \A id : HeldOf(r, id) = HeldOf(gs, id)

(* The groups gs with the empty group x behind them.                       *)
LEMMA AppendedGroup ==
  ASSUME NEW gs, IsSeq(gs), Distinct(gs), NEW x, DOMAIN x.chunks = {},
         \A i \in DOMAIN gs : gs[i].group # x.group, NEW r, r = Append(gs, x)
  PROVE  Longer(r, gs, x)
<1>1. Len(gs) \in Nat /\ DOMAIN gs = 1 .. Len(gs)
  BY SeqIs
<1>2. /\ IsSeq(r) /\ Len(r) = Len(gs) + 1 /\ DOMAIN r = 1 .. Len(gs) + 1
      /\ \A i \in 1 .. Len(gs) : r[i] = gs[i]
      /\ r[Len(gs) + 1] = x
  BY AppendIs
<1>3. PICK l : l = Len(gs) + 1
  OBVIOUS
<1>4. l \in DOMAIN r /\ r[l] = x /\ \A k \in DOMAIN r : k # l => k \in DOMAIN gs /\ r[k] = gs[k]
  BY <1>1, <1>2, <1>3
<1>5. \A k \in DOMAIN gs : k \in DOMAIN r /\ r[k] = gs[k] /\ k # l
  BY <1>1, <1>2, <1>3
<1>6. Distinct(r)
  BY <1>4, <1>5 DEF Distinct
<1>7. ASSUME NEW id PROVE HeldOf(r, id) = HeldOf(gs, id)
  <2>1. \A k : (\E i \in DOMAIN r : r[i].group = id /\ k \in DOMAIN r[i].chunks)
               <=> (\E i \in DOMAIN gs : gs[i].group = id /\ k \in DOMAIN gs[i].chunks)
    BY <1>4, <1>5
  <2> QED BY <2>1 DEF HeldOf
<1> QED BY <1>2, <1>3, <1>4, <1>6, <1>7 DEF Longer

-----------------------------------------------------------------------------
(* The Reassembler.                                                        *)

(* Payload p is fragment i of message m, which comes through app.          *)
FragmentOf(msgs, app, p, m, i) ==
  IsOriginal(msgs, p, m, i) /\ Split(msgs[m]) /\ App(msgs[m].path) = app

(* What a fragment says of its message.                                    *)
LEMMA FragmentIs ==
  ASSUME NEW msgs, NEW n, MessagesOK(msgs, n), NEW app, NEW p, NEW m, NEW i,
         FragmentOf(msgs, app, p, m, i)
  PROVE  /\ m \in Nat /\ m \in DOMAIN msgs /\ MessageOK(m, msgs[m])
         /\ Split(msgs[m]) /\ App(msgs[m].path) = app
         /\ msgs[m].total \in Nat \ {0} /\ i \in 0 .. msgs[m].total - 1
         /\ PacketOf(m, msgs[m]) \in Seq(Byte)
         /\ Cuts(Len(PacketOf(m, msgs[m])), ChunkSize(msgs[m].path), msgs[m].total)
         /\ p.msg = m /\ p.v7 /\ p.group = msgs[m].group /\ p.index = i
         /\ p.total = msgs[m].total /\ p.length = Len(PacketOf(m, msgs[m]))
         /\ p.bytes = Piece(PacketOf(m, msgs[m]), ChunkSize(msgs[m].path), i)
<1>1. m \in DOMAIN msgs /\ IsSeq(msgs) /\ MessageOK(m, msgs[m])
  BY DEF FragmentOf, IsOriginal, MessagesOK
<1>2. m \in Nat
  <2>1. DOMAIN msgs = 1 .. Len(msgs) /\ Len(msgs) \in Nat
    BY <1>1, SeqIs
  <2> QED BY <1>1, <2>1
<1>3. PICK msg : msg = msgs[m]
  OBVIOUS
<1>4. /\ msg.total \in Nat \ {0} /\ PacketOf(m, msg) \in Seq(Byte)
      /\ msg.total # 1 => Cuts(Len(PacketOf(m, msg)), ChunkSize(msg.path), msg.total)
  BY <1>1, <1>2, <1>3, MessageIs
<1>5. msg.total # 1
  BY <1>3 DEF FragmentOf, Split
<1>6. p = [msg |-> m, v7 |-> TRUE, group |-> msg.group, index |-> i,
           total |-> msg.total, length |-> Len(PacketOf(m, msg)),
           bytes |-> Piece(PacketOf(m, msg), ChunkSize(msg.path), i)]
  BY <1>3, <1>5 DEF FragmentOf, IsOriginal, Original
<1>7. i \in 0 .. msg.total - 1
  BY <1>3 DEF FragmentOf, IsOriginal
<1>8. Split(msgs[m]) /\ App(msgs[m].path) = app
  BY DEF FragmentOf
<1>9. /\ p.msg = m /\ p.v7 /\ p.group = msg.group /\ p.index = i
      /\ p.total = msg.total /\ p.length = Len(PacketOf(m, msg))
      /\ p.bytes = Piece(PacketOf(m, msg), ChunkSize(msg.path), i)
  BY <1>6
<1> QED BY <1>1, <1>2, <1>3, <1>4, <1>5, <1>7, <1>8, <1>9

(* A group of the message's id is the message's.                           *)
LEMMA GroupIsOf ==
  ASSUME NEW msgs, NEW n, MessagesOK(msgs, n), NEW app, NEW other, NEW g, NEW k,
         GroupOf(msgs, app, g, k), NEW m \in DOMAIN msgs, Split(msgs[m]),
         g.group = msgs[m].group
  PROVE  k = m /\ app = App(msgs[m].path) /\ GroupOf(msgs, app, g, m)
BY DEF MessagesOK, GroupOf

(* ls has a group for message m at j, the others hold something.           *)
ListedOK(msgs, app, ls, j, m) ==
  /\ IsSeq(ls) /\ Len(ls) <= MAX_GROUPS /\ Distinct(ls)
  /\ j \in DOMAIN ls /\ GroupOf(msgs, app, ls[j], m)
  /\ \A k \in DOMAIN ls : k # j =>
       (\E x : GroupOf(msgs, app, ls[k], x)) /\ DOMAIN ls[k].chunks # {}

(* Listed finds or makes room for the group of a fragment, and what it     *)
(* evicts is of other messages.                                            *)
LEMMA ListedIs ==
  ASSUME NEW msgs, NEW n, MessagesOK(msgs, n), NEW app, NEW gs, GroupsOK(msgs, app, gs),
         NEW p, NEW m, NEW i, FragmentOf(msgs, app, p, m, i)
  PROVE  /\ ListedOK(msgs, app, Listed(gs, p), GroupIndex(Listed(gs, p), p.group), m)
         /\ p.group \notin Evicted(gs, p)
         /\ \A id : HeldOf(Listed(gs, p), id) =
                      IF id \in Evicted(gs, p) THEN {} ELSE HeldOf(gs, id)
         /\ \A id \in Evicted(gs, p) : \E k \in DOMAIN gs : gs[k].group = id
<1>1. /\ m \in Nat /\ m \in DOMAIN msgs /\ Split(msgs[m]) /\ App(msgs[m].path) = app
      /\ msgs[m].total \in Nat \ {0}
      /\ Cuts(Len(PacketOf(m, msgs[m])), ChunkSize(msgs[m].path), msgs[m].total)
      /\ p.group = msgs[m].group
      /\ p.total = msgs[m].total /\ p.length = Len(PacketOf(m, msgs[m]))
  BY FragmentIs
<1>2. /\ IsSeq(gs) /\ Len(gs) <= MAX_GROUPS /\ Distinct(gs)
      /\ \A k \in DOMAIN gs : (\E x : GroupOf(msgs, app, gs[k], x)) /\ DOMAIN gs[k].chunks # {}
  BY DEF GroupsOK
<1>3. Len(gs) \in Nat /\ DOMAIN gs = 1 .. Len(gs) /\ MAX_GROUPS \in Nat \ {0}
  BY <1>2, SeqIs, Positive
<1>4. PICK ls, j, e : ls = Listed(gs, p) /\ j = GroupIndex(Listed(gs, p), p.group)
      /\ e = Evicted(gs, p)
  OBVIOUS
<1> SUFFICES /\ ListedOK(msgs, app, ls, j, m) /\ p.group \notin e
             /\ \A id : HeldOf(ls, id) = IF id \in e THEN {} ELSE HeldOf(gs, id)
             /\ \A id \in e : \E k \in DOMAIN gs : gs[k].group = id
  BY <1>4
<1>5. CASE HasGroup(gs, p.group)
  <2>1. ls = gs /\ e = {}
    BY <1>4, <1>5 DEF Listed, Evicted
  <2>2. j \in DOMAIN gs /\ gs[j].group = p.group
    BY <1>4, <1>5, <2>1 DEF HasGroup, GroupIndex
  <2>3. PICK x : GroupOf(msgs, app, gs[j], x)
    BY <1>2, <2>2
  <2>4. GroupOf(msgs, app, gs[j], m)
    BY <1>1, <2>2, <2>3, GroupIsOf
  <2> QED BY <1>2, <2>1, <2>2, <2>4 DEF ListedOK
<1>6. CASE ~HasGroup(gs, p.group)
  <2> DEFINE ng == NewGroup(p)
  <2>1. ng.group = p.group /\ ng.total = p.total /\ ng.length = p.length /\ ng.chunks = <<>>
        /\ IsGroup(ng)
    BY DEF NewGroup, IsGroup
  <2>2. DOMAIN ng.chunks = {}
    BY <2>1, EmptyIs
  <2> HIDE DEF ng
  <2>3. GroupOf(msgs, app, ng, m)
    <3>1. Holds(ng, PacketOf(m, msgs[m]), ChunkSize(msgs[m].path))
      BY <1>1, <2>1, <2>2 DEF Holds
    <3>2. 0 \in 0 .. ng.total - 1
      BY <1>1, <2>1
    <3> QED BY <1>1, <2>1, <2>2, <3>1, <3>2 DEF GroupOf
  <2>4. PICK base : base = IF e = {} THEN gs ELSE Tail(gs)
    OBVIOUS
  <2>5. ls = Append(base, ng)
    BY <1>4, <1>6, <2>4 DEF Listed, ng
  <2>6. /\ IsSeq(base) /\ Len(base) < MAX_GROUPS /\ Distinct(base)
        /\ \A k \in DOMAIN base : \E l \in DOMAIN gs : base[k] = gs[l]
        /\ \A id : HeldOf(base, id) = IF id \in e THEN {} ELSE HeldOf(gs, id)
        /\ \A id \in e : \E k \in DOMAIN gs : gs[k].group = id
    <3>1. CASE Len(gs) >= MAX_GROUPS
      <4>1. Len(gs) # 0
        BY <1>3, <3>1
      <4>2. gs # <<>>
        BY <4>1, EmptyIs
      <4>3. Head(gs) = gs[1] /\ 1 \in DOMAIN gs
        BY <1>2, <4>2, TailIs
      <4>4. e = {gs[1].group}
        BY <1>4, <1>6, <3>1, <4>3 DEF Evicted
      <4>5. base = Tail(gs)
        BY <2>4, <4>4
      <4>6. Tail(gs) = SubSeq(gs, 1 + 1, Len(gs))
        <5>1. PICK T : gs \in Seq(T)
          BY <1>2 DEF IsSeq
        <5>2. Tail(gs) = SubSeq(gs, 2, Len(gs))
          BY <4>2, <5>1, TailIsSubSeq
        <5> QED BY <5>2
      <4>7. PICK one : one = 1
        OBVIOUS
      <4>8. one \in 0 .. Len(gs) /\ base = SubSeq(gs, one + 1, Len(gs))
        BY <1>3, <4>1, <4>5, <4>6, <4>7
      <4>9. /\ IsSeq(base) /\ Len(base) = Len(gs) - one /\ Distinct(base)
            /\ \A k \in DOMAIN base : \E l \in DOMAIN gs : base[k] = gs[l] /\ l > one
            /\ \A id : HeldOf(base, id) = IF \E x \in 1 .. one : gs[x].group = id THEN {}
                                          ELSE HeldOf(gs, id)
        <5>1. IsSeq(gs) /\ Distinct(gs)
          BY <1>2
        <5>2. Later(base, gs, one)
          BY ONLY <4>8, <5>1, SuffixGroups
        <5> QED BY <5>2 DEF Later
      <4>10. \A id : (\E x \in 1 .. one : gs[x].group = id) <=> id \in e
        BY <4>4, <4>7
      <4>11. Len(base) < MAX_GROUPS
        BY <1>2, <1>3, <4>7, <4>9
      <4>12. \A id \in e : \E k \in DOMAIN gs : gs[k].group = id
        BY <4>3, <4>4
      <4> QED BY <4>9, <4>10, <4>11, <4>12
    <3>2. CASE ~(Len(gs) >= MAX_GROUPS)
      <4>1. e = {}
        BY <1>4, <3>2 DEF Evicted
      <4>2. base = gs
        BY <2>4, <4>1
      <4>3. Len(gs) < MAX_GROUPS
        BY <1>3, <3>2
      <4> QED BY <1>2, <4>1, <4>2, <4>3
    <3> QED BY <3>1, <3>2
  <2>7. \A k \in DOMAIN base : base[k].group # ng.group
    BY <1>6, <2>1, <2>6 DEF HasGroup
  <2>8. /\ IsSeq(ls) /\ Len(ls) = Len(base) + 1 /\ Distinct(ls)
        /\ Len(base) + 1 \in DOMAIN ls /\ ls[Len(base) + 1] = ng
        /\ \A k \in DOMAIN ls : k # Len(base) + 1 => k \in DOMAIN base /\ ls[k] = base[k]
        /\ \A id : HeldOf(ls, id) = HeldOf(base, id)
    <3>1. IsSeq(base) /\ Distinct(base)
      BY <2>6
    <3>2. Longer(ls, base, ng)
      BY ONLY <2>2, <2>5, <2>7, <3>1, AppendedGroup
    <3> QED BY <3>2 DEF Longer
  <2>9. PICK l : l = Len(base) + 1
    OBVIOUS
  <2>10. j = l
    <3>1. l \in DOMAIN ls /\ ls[l].group = p.group
      BY <2>1, <2>8, <2>9
    <3>2. j \in DOMAIN ls /\ ls[j].group = p.group
      BY <1>4, <3>1 DEF GroupIndex
    <3> QED BY <2>8, <3>1, <3>2 DEF Distinct
  <2>11. Len(ls) <= MAX_GROUPS
    <3>1. Len(base) \in Nat
      BY <2>6, SeqIs
    <3> QED BY <1>3, <2>6, <2>8, <3>1
  <2>12. ASSUME NEW k \in DOMAIN ls, k # j
         PROVE  (\E x : GroupOf(msgs, app, ls[k], x)) /\ DOMAIN ls[k].chunks # {}
    <3>1. k \in DOMAIN base /\ ls[k] = base[k]
      BY <2>8, <2>9, <2>10, <2>12
    <3>2. PICK y \in DOMAIN gs : ls[k] = gs[y]
      BY <2>6, <3>1
    <3> QED BY <1>2, <3>2
  <2>13. ListedOK(msgs, app, ls, j, m)
    BY <2>3, <2>8, <2>9, <2>10, <2>11, <2>12 DEF ListedOK
  <2>14. p.group \notin e
    BY <1>6, <2>6 DEF HasGroup
  <2>15. \A id : HeldOf(ls, id) = IF id \in e THEN {} ELSE HeldOf(gs, id)
    BY <2>6, <2>8
  <2> QED BY <2>6, <2>13, <2>14, <2>15
<1> QED BY <1>5, <1>6

(* Counting the chunks tells whether all are there.                        *)
LEMMA FullCount ==
  ASSUME NEW t \in Nat \ {0}, NEW D, D \subseteq 0 .. t - 1
  PROVE  /\ Cardinality(D) \in Nat
         /\ Cardinality(D) < t <=> D # 0 .. t - 1
         /\ D # {} => Cardinality(D) # 0
<1>1. PICK u, F : u = t - 1 /\ F = 0 .. u
  OBVIOUS
<1>2. IsFiniteSet(F) /\ Cardinality(F) = t
  <2>1. 0 \in Int /\ u \in Int /\ u >= 0
    BY <1>1
  <2>2. IsFiniteSet(0 .. u) /\ Cardinality(0 .. u) = IF 0 > u THEN 0 ELSE u - 0 + 1
    BY <2>1, FS_Interval
  <2> QED BY <1>1, <2>1, <2>2
<1>3. D \subseteq F
  BY <1>1
<1>4. IsFiniteSet(D) /\ Cardinality(D) <= Cardinality(F)
      /\ (Cardinality(F) = Cardinality(D) => F = D)
  BY ONLY <1>2, <1>3, FS_Subset
<1>5. Cardinality(D) \in Nat
  BY <1>4, FS_CardinalityType
<1>6. D # {} => Cardinality(D) # 0
  BY <1>4, FS_EmptySet
<1> QED BY <1>1, <1>2, <1>4, <1>5, <1>6

(* s is the group g with fragment p in it.                                 *)
Filled(s, g, p) ==
  /\ IsGroup(s) /\ s.group = g.group /\ s.total = g.total /\ s.length = g.length
  /\ DOMAIN s.chunks = DOMAIN g.chunks \cup {p.index}
  /\ \A k \in DOMAIN g.chunks \cup {p.index} :
       s.chunks[k] = IF k = p.index THEN p.bytes ELSE g.chunks[k]

(* Stored puts the fragment into the group.                                *)
LEMMA StoredIs ==
  ASSUME NEW g, IsGroup(g), NEW p
  PROVE  Filled(Stored(g, p), g, p)
<1> DEFINE c == [k \in DOMAIN g.chunks \cup {p.index} |->
                    IF k = p.index THEN p.bytes ELSE g.chunks[k]]
           s == [g EXCEPT !.chunks = c]
<1>1. /\ DOMAIN c = DOMAIN g.chunks \cup {p.index}
      /\ \A k \in DOMAIN g.chunks \cup {p.index} :
            c[k] = IF k = p.index THEN p.bytes ELSE g.chunks[k]
  OBVIOUS
<1>2. Stored(g, p) = s
  BY DEF Stored
<1> HIDE DEF c
<1>3. s = [group |-> g.group, total |-> g.total, length |-> g.length, chunks |-> c]
  <2>1. PICK i, t, l, k : i = g.group /\ t = g.total /\ l = g.length /\ k = g.chunks
    OBVIOUS
  <2>2. g = [group |-> i, total |-> t, length |-> l, chunks |-> k]
    BY <2>1 DEF IsGroup
  <2>3. [g EXCEPT !.chunks = c] = [group |-> i, total |-> t, length |-> l, chunks |-> c]
    BY ONLY <2>2
  <2> QED BY <2>1, <2>3
<1> HIDE DEF s
<1>4. s.group = g.group /\ s.total = g.total /\ s.length = g.length /\ s.chunks = c
  BY <1>3
<1>5. IsGroup(s)
  BY <1>3, <1>4 DEF IsGroup
<1> QED BY <1>1, <1>2, <1>4, <1>5 DEF Filled

(* What adding fragment i of message m to the groups gs makes of them.     *)
Added(msgs, app, gs, p, m, i, r) ==
  /\ GroupsOK(msgs, app, r.groups)
  /\ r.packet = <<>> \/ r.packet = PacketOf(m, msgs[m])
  /\ \A id : id # p.group =>
       HeldOf(r.groups, id) = IF id \in Evicted(gs, p) THEN {} ELSE HeldOf(gs, id)
  /\ r.packet = <<>> => HeldOf(r.groups, p.group) = HeldOf(gs, p.group) \cup {i}

(* addFragment returns the packet of the message or nothing, and loses     *)
(* only what it evicts.                                                    *)
LEMMA AddFragmentIs ==
  ASSUME NEW msgs, NEW n, MessagesOK(msgs, n), NEW app, NEW gs, GroupsOK(msgs, app, gs),
         NEW p, NEW m, NEW i, FragmentOf(msgs, app, p, m, i)
  PROVE  Added(msgs, app, gs, p, m, i, AddFragment(gs, p))
<1> DEFINE ls == Listed(gs, p)
           j == GroupIndex(ls, p.group)
           g == ls[j]
           s == Stored(g, p)
           r == AddFragment(gs, p)
           packet == PacketOf(m, msgs[m])
           size == ChunkSize(msgs[m].path)
<1>1. /\ m \in Nat /\ m \in DOMAIN msgs /\ MessageOK(m, msgs[m])
      /\ Split(msgs[m]) /\ App(msgs[m].path) = app
      /\ msgs[m].total \in Nat \ {0} /\ i \in 0 .. msgs[m].total - 1
      /\ packet \in Seq(Byte) /\ Cuts(Len(packet), size, msgs[m].total)
      /\ p.group = msgs[m].group /\ p.index = i
      /\ p.total = msgs[m].total /\ p.length = Len(packet)
      /\ p.bytes = Piece(packet, size, i)
  BY FragmentIs
<1>2. /\ ListedOK(msgs, app, ls, j, m) /\ p.group \notin Evicted(gs, p)
      /\ \A id : HeldOf(ls, id) = IF id \in Evicted(gs, p) THEN {} ELSE HeldOf(gs, id)
  BY ListedIs
<1>3. r = IF Conflict(g, p) THEN [groups |-> RemoveAt(ls, j), packet |-> <<>>]
          ELSE IF p.index \in DOMAIN g.chunks THEN [groups |-> ls, packet |-> <<>>]
          ELSE IF Overflow(g, p) THEN [groups |-> RemoveAt(ls, j), packet |-> <<>>]
          ELSE IF Cardinality(DOMAIN s.chunks) < s.total
          THEN [groups |-> [ls EXCEPT ![j] = s], packet |-> <<>>]
          ELSE [groups |-> RemoveAt(ls, j),
                packet |-> IF BytesHeld(s) = s.length THEN Joined(s) ELSE <<>>]
  BY DEF AddFragment
<1> HIDE DEF ls, j, s, r, packet, size
<1>4. /\ IsSeq(ls) /\ Len(ls) <= MAX_GROUPS /\ Distinct(ls)
      /\ j \in DOMAIN ls /\ GroupOf(msgs, app, g, m)
      /\ \A k \in DOMAIN ls : k # j =>
           (\E x : GroupOf(msgs, app, ls[k], x)) /\ DOMAIN ls[k].chunks # {}
  BY <1>2 DEF ListedOK
<1>5. /\ IsGroup(g) /\ g.group = p.group /\ g.total = msgs[m].total /\ g.length = Len(packet)
      /\ Holds(g, packet, size) /\ DOMAIN g.chunks # 0 .. g.total - 1
  BY <1>1, <1>4 DEF GroupOf, packet, size
<1>6. /\ DOMAIN g.chunks \subseteq 0 .. g.total - 1
      /\ \A k \in DOMAIN g.chunks : g.chunks[k] = Piece(packet, size, k)
  BY <1>5 DEF Holds
<1>7. ~Conflict(g, p)
  BY <1>1, <1>5 DEF Conflict
<1>8. HeldOf(ls, p.group) = HeldOf(gs, p.group) /\ HeldOf(ls, p.group) = DOMAIN g.chunks
  <2>1. DOMAIN g.chunks \subseteq Nat
    BY <1>6
  <2> QED BY <1>2, <1>4, <1>5, <2>1, HeldIs
<1>9. CASE i \in DOMAIN g.chunks
  <2>1. r.groups = ls /\ r.packet = <<>>
    BY <1>1, <1>3, <1>7, <1>9
  <2>2. \A k \in DOMAIN ls : (\E x : GroupOf(msgs, app, ls[k], x)) /\ DOMAIN ls[k].chunks # {}
    BY <1>4, <1>9
  <2>3. GroupsOK(msgs, app, ls)
    BY <1>4, <2>2 DEF GroupsOK
  <2>4. HeldOf(ls, p.group) = HeldOf(gs, p.group) \cup {i}
    BY <1>8, <1>9
  <2> QED BY <1>2, <2>1, <2>3, <2>4 DEF Added, r
<1>10. CASE i \notin DOMAIN g.chunks
  <2>1. ~Overflow(g, p)
    <3>1. PICK l : l = Len(packet)
      OBVIOUS
    <3>2. i \in 0 .. g.total - 1
      BY <1>1, <1>5
    <3>3. /\ BytesHeld(g) \in Nat /\ Len(Piece(packet, size, i)) \in Nat
          /\ BytesHeld(g) + Len(Piece(packet, size, i)) <= l
      BY <1>1, <1>5, <1>10, <3>1, <3>2, MissingFits
    <3>4. l \in Nat
      BY <1>1, <3>1, LenProperties
    <3> QED BY <1>1, <1>5, <3>1, <3>3, <3>4 DEF Overflow
  <2>2. /\ IsGroup(s) /\ s.group = g.group /\ s.total = g.total /\ s.length = g.length
        /\ DOMAIN s.chunks = DOMAIN g.chunks \cup {i}
        /\ \A k \in DOMAIN g.chunks \cup {i} :
             s.chunks[k] = IF k = i THEN p.bytes ELSE g.chunks[k]
    <3>1. PICK x : x = g
      OBVIOUS
    <3>2. IsGroup(x) /\ s = Stored(x, p) /\ p.index = i
      BY <1>1, <1>5, <3>1 DEF s
    <3>3. Filled(s, x, p)
      BY <3>2, StoredIs
    <3> QED BY <3>1, <3>2, <3>3 DEF Filled
  <2>3. Holds(s, packet, size)
    <3>1. DOMAIN s.chunks \subseteq 0 .. s.total - 1
      BY <1>1, <1>5, <1>6, <2>2
    <3>2. \A k \in DOMAIN s.chunks : s.chunks[k] = Piece(packet, size, k)
      BY <1>1, <1>6, <2>2
    <3> QED BY <1>5, <2>2, <3>1, <3>2 DEF Holds
  <2>4. DOMAIN s.chunks # {} /\ DOMAIN s.chunks \subseteq 0 .. s.total - 1 /\ s.total \in Nat \ {0}
    BY <1>1, <1>5, <2>2, <2>3 DEF Holds
  <2>5. Cardinality(DOMAIN s.chunks) < s.total <=> DOMAIN s.chunks # 0 .. s.total - 1
    BY <2>4, FullCount
  <2>6. CASE DOMAIN s.chunks # 0 .. s.total - 1
    <3> DEFINE q == [ls EXCEPT ![j] = s]
    <3>1. r.groups = q /\ r.packet = <<>>
      BY <1>1, <1>3, <1>7, <1>10, <2>1, <2>5, <2>6
    <3> HIDE DEF q
    <3>2. DOMAIN s.chunks \subseteq Nat
      BY <2>4
    <3>3. Changed(q, ls, j, s)
      <4>1. q = [ls EXCEPT ![j] = s]
        BY DEF q
      <4>2. IsSeq(ls) /\ Distinct(ls) /\ j \in DOMAIN ls /\ s.group = ls[j].group
        BY <1>4, <2>2
      <4> QED BY ONLY <3>2, <4>1, <4>2, ReplacedGroup
    <3>4. /\ IsSeq(q) /\ Len(q) = Len(ls) /\ Distinct(q) /\ DOMAIN q = DOMAIN ls
          /\ q[j] = s /\ \A k \in DOMAIN ls : k # j => q[k] = ls[k]
          /\ HeldOf(q, s.group) = DOMAIN s.chunks
          /\ \A id : id # s.group => HeldOf(q, id) = HeldOf(ls, id)
      BY <3>3 DEF Changed
    <3>5. GroupOf(msgs, app, s, m)
      BY <1>1, <1>5, <2>2, <2>3, <2>6 DEF GroupOf, packet, size
    <3>6. \A k \in DOMAIN q : (\E x : GroupOf(msgs, app, q[k], x)) /\ DOMAIN q[k].chunks # {}
      BY <1>4, <2>4, <3>4, <3>5
    <3>7. GroupsOK(msgs, app, q)
      BY <1>4, <3>4, <3>6 DEF GroupsOK
    <3>8. HeldOf(q, p.group) = HeldOf(gs, p.group) \cup {i}
      BY <1>5, <1>8, <2>2, <3>4
    <3>9. \A id : id # p.group =>
             HeldOf(q, id) = IF id \in Evicted(gs, p) THEN {} ELSE HeldOf(gs, id)
      BY <1>2, <1>5, <2>2, <3>4
    <3> QED BY <3>1, <3>7, <3>8, <3>9 DEF Added, r
  <2>7. CASE DOMAIN s.chunks = 0 .. s.total - 1
    <3>1. Joined(s) = packet
      BY <1>1, <2>3, <2>7, JoinedIsPacket
    <3>2. BytesHeld(s) = s.length
      BY <1>5, <2>2, <3>1 DEF BytesHeld
    <3>3. PICK q : q = RemoveAt(ls, j)
      OBVIOUS
    <3>4. r.groups = q /\ r.packet = packet
      BY <1>1, <1>3, <1>7, <1>10, <2>1, <2>5, <2>7, <3>1, <3>2, <3>3
    <3>5. Fewer(q, ls, j)
      BY <1>4, <3>3, RemovedGroup
    <3>6. /\ IsSeq(q) /\ Len(q) <= Len(ls) /\ Distinct(q)
          /\ \A k \in DOMAIN q : \E x \in DOMAIN ls : q[k] = ls[x] /\ x # j
          /\ \A id : id # g.group => HeldOf(q, id) = HeldOf(ls, id)
      BY <3>5 DEF Fewer
    <3>7. Len(q) <= MAX_GROUPS
      <4>1. Len(q) \in Nat /\ Len(ls) \in Nat /\ MAX_GROUPS \in Nat
        BY <1>4, <3>6, SeqIs, Positive
      <4> QED BY <1>4, <3>6, <4>1
    <3>8. \A k \in DOMAIN q : (\E x : GroupOf(msgs, app, q[k], x)) /\ DOMAIN q[k].chunks # {}
      BY <1>4, <3>6
    <3>9. GroupsOK(msgs, app, q)
      BY <3>6, <3>7, <3>8 DEF GroupsOK
    <3>10. \A id : id # p.group =>
             HeldOf(q, id) = IF id \in Evicted(gs, p) THEN {} ELSE HeldOf(gs, id)
      BY <1>2, <1>5, <3>6
    <3>11. packet # <<>>
      <4>1. Len(packet) \in Nat \ {0}
        BY <1>1, MessageIs DEF packet
      <4> QED BY <4>1, EmptyIs
    <3> QED BY <3>4, <3>9, <3>10, <3>11 DEF Added, r, packet
  <2> QED BY <2>6, <2>7
<1> QED BY <1>9, <1>10

-----------------------------------------------------------------------------
(* Steps of the writer.                                                    *)

(* What becomes of a message; CutsFit rules out the one that is missing.   *)
Statuses == {"refused", "sending", "sent", "failed"}

(* A message with another status.                                          *)
LEMMA Restated ==
  ASSUME NEW msg, IsMessage(msg), NEW status, NEW new, new = [msg EXCEPT !.status = status]
  PROVE  /\ IsMessage(new) /\ new.path = msg.path /\ new.text = msg.text
         /\ new.group = msg.group /\ new.total = msg.total /\ new.status = status
<1>1. PICK a, b, c, d, e : /\ a = msg.path /\ b = msg.text /\ c = msg.group
                           /\ d = msg.total /\ e = msg.status
  OBVIOUS
<1>2. msg = [path |-> a, text |-> b, group |-> c, total |-> d, status |-> e]
  BY <1>1 DEF IsMessage
<1>3. new = [path |-> a, text |-> b, group |-> c, total |-> d, status |-> status]
  BY ONLY <1>2, new = [msg EXCEPT !.status = status]
<1> QED BY <1>1, <1>3 DEF IsMessage

(* Messages with other statuses are messages.                              *)
LEMMA SameMessages ==
  ASSUME NEW msgs, NEW n, MessagesOK(msgs, n), NEW new, IsSeq(new),
         DOMAIN new = DOMAIN msgs, Same(msgs, new),
         \A m \in DOMAIN msgs : IsMessage(new[m]) /\ new[m].status \in Statuses
  PROVE  MessagesOK(new, n)
<1>1. ASSUME NEW m \in DOMAIN msgs PROVE MessageOK(m, new[m])
  <2>1. /\ new[m].path = msgs[m].path /\ new[m].text = msgs[m].text
        /\ new[m].total = msgs[m].total
        /\ Sendable(new[m]) <=> Sendable(msgs[m])
    BY DEF Same
  <2>2. MessageOK(m, msgs[m])
    BY DEF MessagesOK
  <2> QED BY <2>1, <2>2 DEF MessageOK, PacketOf, Statuses
<1>2. \A m \in DOMAIN msgs : (Split(new[m]) <=> Split(msgs[m])) /\ new[m].group = msgs[m].group
  BY DEF Same, Split
<1> QED BY <1>1, <1>2 DEF MessagesOK

(* A message sent or failed.                                               *)
LEMMA StatusIs ==
  ASSUME NEW n, MessagesOK(messages, n), NEW m, m \in DOMAIN messages,
         Sendable(messages[m]), NEW status, status \in {"sent", "failed"}
  PROVE  /\ MessagesOK(StatusOf(m, status), n) /\ Same(messages, StatusOf(m, status))
         /\ DOMAIN StatusOf(m, status) = DOMAIN messages
<1> DEFINE new == StatusOf(m, status)
<1>1. IsSeq(messages) /\ \A k \in DOMAIN messages : MessageOK(k, messages[k])
  BY DEF MessagesOK
<1>2. Len(messages) \in Nat /\ DOMAIN messages = 1 .. Len(messages)
  BY <1>1, SeqIs
<1>3. PICK x : x = [messages[m] EXCEPT !.status = status]
  OBVIOUS
<1>4. new = [messages EXCEPT ![m] = x]
  BY <1>3 DEF StatusOf
<1>5. DOMAIN new = DOMAIN messages
      /\ \A k \in DOMAIN messages : new[k] = IF k = m THEN x ELSE messages[k]
  BY <1>4
<1>6. new = [k \in 1 .. Len(messages) |-> new[k]]
  BY <1>2, <1>4
<1> HIDE DEF new
<1>7. IsSeq(new)
  BY <1>2, <1>6, FunctionIs
<1>8. /\ IsMessage(x) /\ x.path = messages[m].path /\ x.text = messages[m].text
      /\ x.group = messages[m].group /\ x.total = messages[m].total /\ x.status = status
  BY <1>1, <1>3, Restated DEF MessageOK
<1>9. status # "refused" /\ status \in Statuses
  BY DEF Statuses
<1>10. Same(messages, new)
  BY <1>5, <1>8, <1>9 DEF Same, Sendable
<1>11. \A k \in DOMAIN messages : IsMessage(new[k]) /\ new[k].status \in Statuses
  BY <1>1, <1>5, <1>8, <1>9 DEF MessageOK, Statuses
<1>12. MessagesOK(new, n)
  BY <1>5, <1>7, <1>10, <1>11, SameMessages
<1> QED BY <1>5, <1>10, <1>12 DEF new

(* The part of the invariant about the reader.                             *)
ReaderInv ==
  /\ DOMAIN partial = Apps /\ \A app \in Apps : GroupsOK(messages, app, partial[app])
  /\ HeardOK(messages, heard)
  /\ ArrivedOK(messages, arrived, heard, partial)

(* The part of the invariant about the send loops.                         *)
OutboxInv ==
  DOMAIN outbox = Path /\ \A path \in Path : OutboxOK(messages, path, outbox[path])

(* The reader rests while the writer goes on.                              *)
LEMMA ReaderRests ==
  ASSUME IInv, Same(messages, messages'), DOMAIN messages' = DOMAIN messages,
         UNCHANGED <<partial, heard, arrived>>
  PROVE  ReaderInv'
<1>1. /\ DOMAIN partial = Apps /\ \A app \in Apps : GroupsOK(messages, app, partial[app])
      /\ HeardOK(messages, heard) /\ ArrivedOK(messages, arrived, heard, partial)
  BY DEF IInv
<1>2. \A app \in Apps : GroupsOK(messages', app, partial[app])
  BY <1>1, SameGroups
<1>3. HeardOK(messages', heard)
  BY <1>1, SameHeard
<1>4. ArrivedOK(messages', arrived, heard, partial)
  BY <1>1, SameArrived
<1> QED BY <1>1, <1>2, <1>3, <1>4 DEF ReaderInv

(* The air rests.                                                          *)
LEMMA AirRests ==
  ASSUME IInv, Same(messages, messages'), UNCHANGED <<wire, packets>>
  PROVE  WireOK(messages', wire') /\ PacketsOK(messages', packets')
BY SameAir DEF IInv

(* The verdict rests.                                                      *)
LEMMA VerdictRests ==
  ASSUME IInv, UNCHANGED verdict
  PROVE  VerdictsAreTrue'
BY DEF IInv, VerdictsAreTrue

(* The numbers rest.                                                       *)
LEMMA NumbersRest ==
  ASSUME IInv, UNCHANGED <<counter, lastNumber, last, wire>>
  PROVE  NumbersOK'
BY DEF IInv, NumbersOK

(* Nothing has changed.                                                    *)
LEMMA SameItself == \A msgs : Same(msgs, msgs)
BY DEF Same

(* The payload at the head of a send loop.                                 *)
LEMMA HeadIs ==
  ASSUME IInv, NEW path \in Path, outbox[path] # <<>>
  PROVE  \E m, i : /\ IsOriginal(messages, Head(outbox[path]), m, i)
                   /\ messages[m].path = path /\ m \in Nat /\ MessageOK(m, messages[m])
                   /\ Head(outbox[path]).msg = m
                   /\ OutboxOK(messages, path, Tail(outbox[path]))
<1>1. OutboxOK(messages, path, outbox[path]) /\ MessagesOK(messages, groupCounter)
  BY DEF IInv
<1>2. PICK s : s = outbox[path]
  OBVIOUS
<1>3. /\ IsSeq(s) /\ s # <<>>
      /\ \A j \in DOMAIN s : \E m, i : IsOriginal(messages, s[j], m, i) /\ messages[m].path = path
  BY <1>1, <1>2 DEF OutboxOK
<1>4. /\ Len(s) \in Nat \ {0} /\ 1 \in DOMAIN s /\ Head(s) = s[1]
      /\ IsSeq(Tail(s)) /\ DOMAIN Tail(s) = 1 .. Len(s) - 1
      /\ \A i \in 1 .. Len(s) - 1 : Tail(s)[i] = s[i + 1]
  BY <1>3, TailIs
<1>5. PICK m, i : IsOriginal(messages, s[1], m, i) /\ messages[m].path = path
  BY <1>3, <1>4
<1>6. m \in DOMAIN messages /\ IsSeq(messages) /\ MessageOK(m, messages[m])
  BY <1>1, <1>5 DEF IsOriginal, MessagesOK
<1>7. m \in Nat
  <2>1. DOMAIN messages = 1 .. Len(messages)
    BY <1>6, SeqIs
  <2> QED BY <1>6, <2>1
<1>8. s[1].msg = m
  BY <1>5 DEF IsOriginal, Original
<1>9. OutboxOK(messages, path, Tail(s))
  <2>1. DOMAIN s = 1 .. Len(s)
    BY <1>3, SeqIs
  <2>2. ASSUME NEW j \in DOMAIN Tail(s)
        PROVE  \E k, l : IsOriginal(messages, Tail(s)[j], k, l) /\ messages[k].path = path
    <3>1. j + 1 \in DOMAIN s /\ Tail(s)[j] = s[j + 1]
      BY <1>4, <2>1
    <3> QED BY <1>3, <3>1
  <2> QED BY <1>4, <2>2 DEF OutboxOK
<1> QED BY <1>2, <1>4, <1>5, <1>6, <1>7, <1>8, <1>9

(* The outbox when one send loop has changed.                              *)
LEMMA OutboxWith ==
  ASSUME IInv, Same(messages, messages'), NEW path \in Path, NEW ps,
         OutboxOK(messages, path, ps), outbox' = [outbox EXCEPT ![path] = ps]
  PROVE  OutboxInv'
<1>1. DOMAIN outbox = Path /\ \A q \in Path : OutboxOK(messages, q, outbox[q])
  BY DEF IInv
<1>2. DOMAIN outbox' = Path /\ \A q \in Path : outbox'[q] = IF q = path THEN ps ELSE outbox[q]
  BY <1>1
<1>3. \A q \in Path : OutboxOK(messages, q, outbox'[q])
  BY <1>1, <1>2
<1>4. \A q \in Path : OutboxOK(messages', q, outbox'[q])
  BY <1>3, SameOutbox
<1> QED BY <1>2, <1>4 DEF OutboxInv

(* An empty send loop.                                                     *)
LEMMA NothingToSend == \A msgs, path : OutboxOK(msgs, path, <<>>)
BY EmptyIs DEF OutboxOK

(* The invariant from its parts.                                           *)
LEMMA InvParts ==
  ASSUME MessagesOK(messages, groupCounter)', OutboxInv', WireOK(messages, wire)',
         PacketsOK(messages, packets)', NumbersOK', VerdictsAreTrue', ReaderInv'
  PROVE  IInv'
BY DEF IInv, OutboxInv, ReaderInv

(* Transmit: the payload fits, so it becomes a frame, and its number is    *)
(* above those before it.                                                  *)
LEMMA TransmitStep ==
  ASSUME IInv, NEW path \in Path, Transmit(path)
  PROVE  IInv'
<1> DEFINE p == Head(outbox[path])
           f == [path |-> path, number |-> counter, declared |-> Len(p.bytes), payload |-> p]
<1>1. outbox[path] # <<>>
  BY DEF Transmit
<1>2. PICK m, i : /\ IsOriginal(messages, p, m, i)
                  /\ messages[m].path = path /\ m \in Nat /\ MessageOK(m, messages[m])
                  /\ p.msg = m /\ OutboxOK(messages, path, Tail(outbox[path]))
  BY <1>1, HeadIs
<1>3. Size(p, path) <= MAX_PAYLOAD
  <2>1. PICK msg : msg = messages[m]
    OBVIOUS
  <2>2. MessageOK(m, msg) /\ m \in Nat /\ i \in 0 .. msg.total - 1 /\ p = Original(m, msg, i)
        /\ msg.path = path
    BY <1>2, <2>1 DEF IsOriginal
  <2>3. PICK q : q = p
    OBVIOUS
  <2>4. Size(q, msg.path) <= MAX_PAYLOAD
    BY <2>2, <2>3, OriginalIs
  <2> QED BY <2>2, <2>3, <2>4
<1>4. /\ counter' = counter + 1
      /\ outbox' = [outbox EXCEPT ![path] = Tail(@)]
      /\ wire' = IF path = "direct" THEN Append(wire, f) ELSE wire
      /\ packets' = IF path # "direct" THEN packets \cup {f} ELSE packets
      /\ messages' = IF Len(outbox[path]) = 1 THEN StatusOf(m, "sent") ELSE messages
      /\ UNCHANGED <<groupCounter, partial, completed, heard, last, lastNumber, verdict, arrived>>
  BY <1>2, <1>3 DEF Transmit, readerVars
<1> HIDE DEF p
<1>5. MessagesOK(messages', groupCounter') /\ Same(messages, messages')
      /\ DOMAIN messages' = DOMAIN messages
  <2>1. m \in DOMAIN messages /\ Sendable(messages[m])
    BY <1>2 DEF IsOriginal
  <2>2. MessagesOK(messages, groupCounter)
    BY DEF IInv
  <2>3. PICK new : new = StatusOf(m, "sent")
    OBVIOUS
  <2>4. MessagesOK(new, groupCounter) /\ Same(messages, new) /\ DOMAIN new = DOMAIN messages
    BY <2>1, <2>2, <2>3, StatusIs
  <2> QED BY <1>4, <2>2, <2>3, <2>4, SameItself
<1>6. OutboxInv'
  <2>1. PICK ps : ps = Tail(outbox[path])
    OBVIOUS
  <2>2. outbox' = [outbox EXCEPT ![path] = ps] /\ OutboxOK(messages, path, ps)
    BY <1>2, <1>4, <2>1
  <2> QED BY <1>5, <2>2, OutboxWith
<1>7. IsFrame(f) /\ f.path = path /\ f.number = counter /\ f.declared = Len(p.bytes)
      /\ f.payload = p
  BY DEF IsFrame
<1> HIDE DEF f
<1>8. FrameOK(messages, f)
  BY <1>2, <1>7 DEF FrameOK
<1>9. WireOK(messages, wire) /\ PacketsOK(messages, packets) /\ NumbersOK
  BY DEF IInv
<1>12. ReaderInv'
  BY <1>4, <1>5, ReaderRests
<1>13. VerdictsAreTrue'
  BY <1>4, VerdictRests
<1>10. CASE path = "direct"
  <2>1. wire' = Append(wire, f) /\ packets' = packets
    BY <1>4, <1>10
  <2>2. /\ IsSeq(wire) /\ \A k \in DOMAIN wire : FrameOK(messages, wire[k])
              /\ wire[k].path = "direct"
    BY <1>9 DEF WireOK
  <2>3. /\ IsSeq(wire') /\ DOMAIN wire' = 1 .. Len(wire) + 1
        /\ \A k \in 1 .. Len(wire) : wire'[k] = wire[k]
        /\ wire'[Len(wire) + 1] = f
    BY <2>1, <2>2, AppendIs
  <2>4. Len(wire) \in Nat /\ DOMAIN wire = 1 .. Len(wire)
    BY <2>2, SeqIs
  <2>5. ASSUME NEW k \in DOMAIN wire'
        PROVE  \/ k \in DOMAIN wire /\ wire'[k] = wire[k]
               \/ k = Len(wire) + 1 /\ wire'[k] = f
    BY <2>3, <2>4
  <2>6. WireOK(messages, wire')
    BY <1>7, <1>8, <1>10, <2>2, <2>3, <2>5 DEF WireOK
  <2>7. WireOK(messages', wire') /\ PacketsOK(messages', packets')
    BY <1>5, <1>9, <2>1, <2>6, SameAir
  <2>8. NumbersOK'
    <3>1. counter \in Nat /\ counter' = counter + 1 /\ counter' \in Nat
      BY <1>4, <1>9 DEF NumbersOK
    <3>2. \A k \in DOMAIN wire' : wire'[k].number \in Nat /\ wire'[k].number < counter'
      BY <1>7, <1>9, <2>5, <3>1 DEF NumbersOK
    <3>3. ASSUME NEW k \in DOMAIN wire', NEW l \in DOMAIN wire', k < l
          PROVE  wire'[k].number < wire'[l].number
      <4>1. k \in DOMAIN wire /\ wire'[k] = wire[k]
        <5>1. k # Len(wire) + 1
          BY <2>3, <2>4, <3>3
        <5> QED BY <2>5, <5>1
      <4> QED BY <1>7, <1>9, <2>5, <3>3, <4>1 DEF NumbersOK
    <3>4. lastNumber' = lastNumber /\ last' = last /\ lastNumber \in Nat
      BY <1>4, <1>9 DEF NumbersOK
    <3>5. ASSUME last # {}
          PROVE  /\ last = {Signed(lastNumber)} /\ lastNumber < counter'
                 /\ \A k \in DOMAIN wire' : lastNumber < wire'[k].number
      <4>1. /\ last = {Signed(lastNumber)} /\ lastNumber < counter
            /\ \A k \in DOMAIN wire : lastNumber < wire[k].number
        BY <1>9, <3>5 DEF NumbersOK
      <4> QED BY <1>7, <2>5, <3>1, <3>4, <4>1
    <3> QED BY <3>1, <3>2, <3>3, <3>4, <3>5 DEF NumbersOK
  <2> QED BY <1>5, <1>6, <1>12, <1>13, <2>7, <2>8, InvParts
<1>11. CASE path # "direct"
  <2>1. wire' = wire /\ packets' = packets \cup {f}
    BY <1>4, <1>11
  <2>2. PacketsOK(messages, packets')
    BY <1>7, <1>8, <1>9, <1>11, <2>1 DEF PacketsOK
  <2>3. WireOK(messages', wire') /\ PacketsOK(messages', packets')
    BY <1>5, <1>9, <2>1, <2>2, SameAir
  <2>4. NumbersOK'
    BY <1>4, <1>9, <2>1 DEF NumbersOK
  <2> QED BY <1>5, <1>6, <1>12, <1>13, <2>3, <2>4, InvParts
<1> QED BY <1>10, <1>11

(* SendFails: the message has failed and its loop ends.                    *)
LEMMA SendFailsStep ==
  ASSUME IInv, NEW path \in Path, SendFails(path)
  PROVE  IInv'
<1>1. outbox[path] # <<>>
  BY DEF SendFails
<1>2. PICK m, i : /\ IsOriginal(messages, Head(outbox[path]), m, i)
                  /\ Head(outbox[path]).msg = m
  BY <1>1, HeadIs
<1>3. /\ counter' = counter + 1 /\ messages' = StatusOf(m, "failed")
      /\ outbox' = [outbox EXCEPT ![path] = <<>>]
      /\ UNCHANGED <<groupCounter, wire, packets, partial, heard, last, lastNumber, verdict, arrived>>
  BY <1>2 DEF SendFails, readerVars
<1>4. MessagesOK(messages', groupCounter') /\ Same(messages, messages')
      /\ DOMAIN messages' = DOMAIN messages
  <2>1. m \in DOMAIN messages /\ Sendable(messages[m])
    BY <1>2 DEF IsOriginal
  <2>2. MessagesOK(messages, groupCounter)
    BY DEF IInv
  <2>3. PICK new : new = StatusOf(m, "failed")
    OBVIOUS
  <2>4. MessagesOK(new, groupCounter) /\ Same(messages, new) /\ DOMAIN new = DOMAIN messages
    BY <2>1, <2>2, <2>3, StatusIs
  <2> QED BY <1>3, <2>3, <2>4
<1>5. OutboxInv'
  BY <1>3, <1>4, NothingToSend, OutboxWith
<1>6. WireOK(messages', wire') /\ PacketsOK(messages', packets')
  BY <1>3, <1>4, AirRests
<1>7. NumbersOK'
  <2>1. NumbersOK
    BY DEF IInv
  <2> QED BY <1>3, <2>1 DEF NumbersOK
<1>8. ReaderInv'
  BY <1>3, <1>4, ReaderRests
<1>9. VerdictsAreTrue'
  BY <1>3, VerdictRests
<1> QED BY <1>4, <1>5, <1>6, <1>7, <1>8, <1>9, InvParts

(* What Payloads cuts may be queued.                                       *)
LEMMA PayloadsFit ==
  ASSUME NEW msgs, NEW n, MessagesOK(msgs, n), NEW m, m \in DOMAIN msgs, Sendable(msgs[m])
  PROVE  OutboxOK(msgs, msgs[m].path, Payloads(m, msgs[m]))
<1>1. IsSeq(msgs) /\ MessageOK(m, msgs[m])
  BY DEF MessagesOK
<1>2. m \in Nat
  <2>1. DOMAIN msgs = 1 .. Len(msgs)
    BY <1>1, SeqIs
  <2> QED BY <2>1
<1>3. PICK msg, ps : msg = msgs[m] /\ ps = Payloads(m, msgs[m])
  OBVIOUS
<1>4. /\ IsSeq(ps) /\ DOMAIN ps = 1 .. msg.total
      /\ \A k \in 1 .. msg.total : ps[k] = Original(m, msg, k - 1)
  BY <1>1, <1>2, <1>3, PayloadsAre
<1>5. msg.total \in Nat \ {0}
  BY <1>1, <1>2, <1>3, MessageIs
<1>6. ASSUME NEW k \in DOMAIN ps PROVE IsOriginal(msgs, ps[k], m, k - 1)
  <2>1. k \in 1 .. msg.total /\ k - 1 \in 0 .. msg.total - 1
    BY <1>4, <1>5
  <2> QED BY <1>3, <1>4, <2>1 DEF IsOriginal
<1> QED BY <1>3, <1>4, <1>6 DEF OutboxOK

(* Resend: the payloads are queued again.                                  *)
LEMMA ResendStep ==
  ASSUME IInv, NEW m \in DOMAIN messages, Resend(m)
  PROVE  IInv'
<1>1. /\ messages[m].path = "direct" /\ messages[m].status = "sent"
      /\ outbox' = [outbox EXCEPT !["direct"] = Payloads(m, messages[m])]
      /\ UNCHANGED <<messages, groupCounter, counter, wire, packets, partial, heard, last,
                     lastNumber, verdict, arrived>>
  BY DEF Resend, readerVars
<1>2. MessagesOK(messages, groupCounter) /\ Same(messages, messages')
  BY <1>1, SameItself DEF IInv
<1>3. OutboxInv'
  <2>1. PICK path, ps : path = "direct" /\ ps = Payloads(m, messages[m])
    OBVIOUS
  <2>2. path \in Path /\ Sendable(messages[m])
    BY <1>1, <2>1 DEF Path, Sendable
  <2>3. OutboxOK(messages, path, ps)
    BY <1>1, <1>2, <2>1, <2>2, PayloadsFit
  <2>4. outbox' = [outbox EXCEPT ![path] = ps]
    BY <1>1, <2>1
  <2> QED BY <1>2, <2>2, <2>3, <2>4, OutboxWith
<1>4. WireOK(messages', wire') /\ PacketsOK(messages', packets')
  BY <1>1, <1>2, AirRests
<1>5. ReaderInv'
  BY <1>1, <1>2, ReaderRests
<1>6. VerdictsAreTrue' /\ NumbersOK'
  BY <1>1, VerdictRests, NumbersRest
<1>7. MessagesOK(messages, groupCounter)'
  BY <1>1, <1>2
<1> QED BY <1>3, <1>4, <1>5, <1>6, <1>7, InvParts

(* Steps that change the air only.                                         *)
LEMMA AirChanges ==
  ASSUME IInv, UNCHANGED <<messages, groupCounter, outbox, partial, heard, verdict, arrived>>,
         WireOK(messages, wire'), PacketsOK(messages, packets'), NumbersOK'
  PROVE  IInv'
<1>1. MessagesOK(messages, groupCounter)' /\ OutboxInv' /\ WireOK(messages, wire)'
      /\ PacketsOK(messages, packets)'
  BY DEF IInv, OutboxInv
<1>2. ReaderInv'
  BY SameItself, ReaderRests
<1>3. VerdictsAreTrue'
  BY VerdictRests
<1> QED BY <1>1, <1>2, <1>3, InvParts

(* PacketLost: one frame of the mesh less.                                 *)
LEMMA PacketLostStep ==
  ASSUME IInv, NEW f \in packets, PacketLost(f)
  PROVE  IInv'
<1>1. /\ packets' = packets \ {f}
      /\ UNCHANGED <<messages, groupCounter, counter, wire, outbox, partial, heard, last,
                     lastNumber, verdict, arrived>>
  BY DEF PacketLost, writerVars, readerVars
<1>2. PacketsOK(messages, packets')
  BY <1>1 DEF IInv, PacketsOK
<1>3. WireOK(messages, wire')
  BY <1>1 DEF IInv
<1>4. NumbersOK'
  BY <1>1, NumbersRest
<1> QED BY <1>1, <1>2, <1>3, <1>4, AirChanges

(* A frame cut short is shorter than it declares.                          *)
LEMMA CutIs ==
  ASSUME NEW n, MessagesOK(messages, n), NEW f, FrameOK(messages, f), WellFormed(f)
  PROVE  FrameOK(messages, Cut(f)) /\ Cut(f).path = f.path /\ Cut(f).number = f.number
<1>1. PICK m, i, p : /\ IsOriginal(messages, p, m, i) /\ messages[m].path = f.path
                     /\ f.declared = Len(p.bytes)
                     /\ f.payload = p
  BY DEF FrameOK
<1>2. PICK a, b, c, d : a = f.path /\ b = f.number /\ c = f.declared /\ d = f.payload
  OBVIOUS
<1>3. f = [path |-> a, number |-> b, declared |-> c, payload |-> d]
  BY <1>2 DEF FrameOK, IsFrame
<1>4. p.bytes \in Seq(Byte) /\ Len(p.bytes) \in Nat \ {0}
  <2>1. PICK msg : msg = messages[m]
    OBVIOUS
  <2>2. m \in DOMAIN messages /\ IsSeq(messages) /\ MessageOK(m, msg)
    BY <1>1, <2>1 DEF IsOriginal, MessagesOK
  <2>3. m \in Nat
    <3>1. DOMAIN messages = 1 .. Len(messages)
      BY <2>2, SeqIs
    <3> QED BY <2>2, <3>1
  <2>4. i \in 0 .. msg.total - 1 /\ p = Original(m, msg, i)
    BY <1>1, <2>1 DEF IsOriginal
  <2> QED BY <2>2, <2>3, <2>4, OriginalIs
<1>5. PICK s, e : s = Front(p.bytes) /\ e = [d EXCEPT !.bytes = s]
  OBVIOUS
<1>6. Len(s) = Len(p.bytes) - 1
  <2>1. PICK t, l : t = p.bytes /\ l = Len(p.bytes) - 1
    OBVIOUS
  <2>2. t \in Seq(Byte) /\ l \in Nat /\ 1 \in Int /\ l \in Int /\ l + 1 = Len(t)
    BY <1>4, <2>1
  <2>3. \A k \in 1 .. l : t[k] \in Byte
    <3>1. \A k \in 1 .. l : k \in 1 .. Len(t)
      BY <2>2
    <3> QED BY <2>2, <3>1, ElementOfSeq
  <2>4. Len(SubSeq(t, 1, l)) = IF 1 <= l THEN l - 1 + 1 ELSE 0
    BY <2>2, <2>3, SubSeqProperties
  <2>5. s = SubSeq(t, 1, l)
    BY <1>5, <2>1 DEF Front
  <2> QED BY <2>1, <2>2, <2>4, <2>5
<1>7. PICK g : g = [f EXCEPT !.payload = e]
  OBVIOUS
<1>8. g = [path |-> a, number |-> b, declared |-> c, payload |-> e]
  BY ONLY <1>3, <1>7
<1>9. Cut(f) = g
  BY <1>1, <1>2, <1>5, <1>7 DEF Cut
<1>10. e.bytes = s
  <2>1. PICK x1, x2, x3, x4, x5, x6, x7 :
           /\ x1 = p.msg /\ x2 = p.v7 /\ x3 = p.group /\ x4 = p.index /\ x5 = p.total
           /\ x6 = p.length /\ x7 = p.bytes
    OBVIOUS
  <2>2. "bytes" \in DOMAIN p
    BY <1>1 DEF IsOriginal, Original
  <2> QED BY <1>1, <1>2, <1>5, <2>2
<1>11. g.path = f.path /\ g.number = f.number /\ g.declared = f.declared /\ g.payload = e
      /\ IsFrame(g)
  BY <1>2, <1>8 DEF IsFrame
<1>12. ~WellFormed(g)
  BY <1>1, <1>4, <1>6, <1>10, <1>11 DEF WellFormed
<1>13. FrameOK(messages, g)
  BY <1>1, <1>11, <1>12 DEF FrameOK
<1> QED BY <1>9, <1>11, <1>13

(* PacketCut: a frame of the mesh is too short now.                        *)
LEMMA PacketCutStep ==
  ASSUME IInv, NEW f \in packets, PacketCut(f)
  PROVE  IInv'
<1>1. /\ WellFormed(f) /\ packets' = (packets \ {f}) \cup {Cut(f)}
      /\ UNCHANGED <<messages, groupCounter, counter, wire, outbox, partial, heard, last,
                     lastNumber, verdict, arrived>>
  BY DEF PacketCut, writerVars, readerVars
<1>2. PacketsOK(messages, packets) /\ MessagesOK(messages, groupCounter)
  BY DEF IInv
<1>3. FrameOK(messages, Cut(f)) /\ Cut(f).path # "direct"
  BY <1>1, <1>2, CutIs DEF PacketsOK
<1>4. PacketsOK(messages, packets')
  BY <1>1, <1>2, <1>3 DEF PacketsOK
<1>5. WireOK(messages, wire')
  BY <1>1 DEF IInv
<1>6. NumbersOK'
  BY <1>1, NumbersRest
<1> QED BY <1>1, <1>4, <1>5, <1>6, AirChanges

(* FrameCut: a frame of the link is too short now.                         *)
LEMMA FrameCutStep ==
  ASSUME IInv, NEW i \in DOMAIN wire, FrameCut(i)
  PROVE  IInv'
<1>1. PICK f : f = Cut(wire[i])
  OBVIOUS
<1>2. /\ WellFormed(wire[i]) /\ wire' = [wire EXCEPT ![i] = f]
      /\ UNCHANGED <<messages, groupCounter, counter, packets, outbox, partial, heard, last,
                     lastNumber, verdict, arrived>>
  BY <1>1 DEF FrameCut, writerVars, readerVars
<1>3. WireOK(messages, wire) /\ MessagesOK(messages, groupCounter) /\ NumbersOK
  BY DEF IInv
<1>4. FrameOK(messages, f) /\ f.path = "direct" /\ f.number = wire[i].number
  BY <1>1, <1>2, <1>3, CutIs DEF WireOK
<1>5. Len(wire) \in Nat /\ DOMAIN wire = 1 .. Len(wire)
  BY <1>3, SeqIs DEF WireOK
<1>6. DOMAIN wire' = DOMAIN wire /\ \A k \in DOMAIN wire : wire'[k] = IF k = i THEN f ELSE wire[k]
  BY <1>2
<1>7. IsSeq(wire')
  <2>1. PICK w : w = wire'
    OBVIOUS
  <2>2. w = [k \in 1 .. Len(wire) |-> w[k]]
    BY <1>2, <1>5, <2>1
  <2> QED BY <1>5, <2>1, <2>2, FunctionIs
<1>8. WireOK(messages, wire')
  BY <1>3, <1>4, <1>6, <1>7 DEF WireOK
<1>9. NumbersOK'
  <2>1. \A k \in DOMAIN wire : wire'[k].number = wire[k].number
    BY <1>4, <1>6
  <2> QED BY <1>2, <1>3, <1>6, <2>1 DEF NumbersOK
<1>10. PacketsOK(messages, packets')
  BY <1>2 DEF IInv
<1> QED BY <1>2, <1>8, <1>9, <1>10, AirChanges

(* The invariant holds at the start.                                       *)
LEMMA InitIInv ==
  ASSUME Init PROVE IInv
<1>1. /\ messages = <<>> /\ groupCounter = 0 /\ counter = 0 /\ outbox = [path \in Path |-> <<>>]
      /\ wire = <<>> /\ packets = {} /\ partial = [app \in Apps |-> <<>>]
      /\ heard = {} /\ last = {} /\ lastNumber = 0 /\ verdict = NoVerdict /\ arrived = <<>>
  BY DEF Init, Apps
<1>2. IsSeq(<<>>) /\ Len(<<>>) = 0 /\ DOMAIN <<>> = {}
  BY EmptyIs
<1>3. MessagesOK(messages, groupCounter)
  BY <1>1, <1>2 DEF MessagesOK
<1>4. DOMAIN outbox = Path /\ \A path \in Path : OutboxOK(messages, path, outbox[path])
  BY <1>1, NothingToSend
<1>5. WireOK(messages, wire) /\ PacketsOK(messages, packets) /\ NumbersOK
  BY <1>1, <1>2 DEF WireOK, PacketsOK, NumbersOK
<1>6. VerdictsAreTrue
  BY <1>1 DEF VerdictsAreTrue, NoVerdict
<1>7. DOMAIN partial = Apps /\ \A app \in Apps : GroupsOK(messages, app, partial[app])
  <2>1. GroupsOK(messages, "x", <<>>) /\ \A app : GroupsOK(messages, app, <<>>)
    <3>1. MAX_GROUPS \in Nat
      BY Positive
    <3> QED BY <1>2, <3>1 DEF GroupsOK, Distinct
  <2> QED BY <1>1, <2>1
<1>8. HeardOK(messages, heard)
  BY <1>1 DEF HeardOK
<1>9. ArrivedOK(messages, arrived, heard, partial)
  BY <1>1, <1>2 DEF ArrivedOK
<1> QED BY <1>3, <1>4, <1>5, <1>6, <1>7, <1>8, <1>9 DEF IInv

(* LinkLost and Restart: what was under way has failed, the numbers start  *)
(* again, and the group ids do not.                                        *)
LEMMA LinkBreaksStep ==
  ASSUME IInv, NEW running, LinkBreaks(running), groupCounter' = groupCounter
  PROVE  IInv'
<1> DEFINE Hit(m) == /\ messages[m].path = "direct" \/ ~running
                     /\ messages[m].status \in {"sending", "sent"}
           Now(m) == [messages[m] EXCEPT !.status = "failed"]
           Keep(path) == running /\ path # "direct"
<1>1. /\ counter' = 0 /\ wire' = <<>> /\ last' = {} /\ lastNumber' = 0 /\ verdict' = NoVerdict
      /\ outbox' = [path \in Path |-> IF Keep(path) THEN outbox[path] ELSE <<>>]
      /\ messages' = [m \in DOMAIN messages |-> IF Hit(m) THEN Now(m) ELSE messages[m]]
      /\ UNCHANGED <<packets, partial, heard, arrived>>
  BY DEF LinkBreaks
<1>2. /\ MessagesOK(messages, groupCounter) /\ DOMAIN outbox = Path
      /\ \A path \in Path : OutboxOK(messages, path, outbox[path])
      /\ PacketsOK(messages, packets)
  BY DEF IInv
<1>3. IsSeq(messages) /\ \A k \in DOMAIN messages : MessageOK(k, messages[k])
  BY <1>2 DEF MessagesOK
<1>4. Len(messages) \in Nat /\ DOMAIN messages = 1 .. Len(messages)
  BY <1>3, SeqIs
<1>5. ASSUME NEW m \in DOMAIN messages
      PROVE  /\ messages'[m].path = messages[m].path /\ messages'[m].text = messages[m].text
             /\ messages'[m].group = messages[m].group /\ messages'[m].total = messages[m].total
             /\ Sendable(messages'[m]) <=> Sendable(messages[m])
             /\ IsMessage(messages'[m]) /\ messages'[m].status \in Statuses
  <2>1. IsMessage(messages[m]) /\ messages[m].status \in Statuses
    BY <1>3 DEF MessageOK, Statuses
  <2>2. messages'[m] = IF Hit(m) THEN Now(m) ELSE messages[m]
    BY <1>1
  <2>3. PICK x, failed : failed = "failed" /\ x = [messages[m] EXCEPT !.status = failed]
    OBVIOUS
  <2>4. /\ IsMessage(x) /\ x.path = messages[m].path /\ x.text = messages[m].text
        /\ x.group = messages[m].group /\ x.total = messages[m].total /\ x.status = failed
    BY <2>1, <2>3, Restated
  <2>5. CASE Hit(m)
    <3>1. messages'[m] = x
      BY <2>2, <2>3, <2>5
    <3>2. messages[m].status # "refused"
      BY <2>5
    <3> QED BY <2>3, <2>4, <3>1, <3>2 DEF Sendable, Statuses
  <2>6. CASE ~Hit(m)
    BY <2>1, <2>2, <2>6
  <2> QED BY <2>5, <2>6
<1>6. DOMAIN messages' = DOMAIN messages
  BY <1>1
<1>7. Same(messages, messages')
  BY <1>5, <1>6 DEF Same
<1>8. IsSeq(messages')
  <2>1. PICK new : new = messages'
    OBVIOUS
  <2>2. new = [m \in 1 .. Len(messages) |-> new[m]]
    BY <1>1, <1>4, <2>1
  <2> QED BY <1>4, <2>1, <2>2, FunctionIs
<1>9. MessagesOK(messages', groupCounter')
  BY <1>2, <1>5, <1>6, <1>7, <1>8, SameMessages
<1>10. OutboxInv'
  <2>1. ASSUME NEW path \in Path PROVE OutboxOK(messages', path, outbox'[path])
    <3>1. outbox'[path] = outbox[path] \/ outbox'[path] = <<>>
      BY <1>1
    <3>2. OutboxOK(messages, path, outbox'[path])
      BY <1>2, <3>1, NothingToSend
    <3> QED BY <1>7, <3>2, SameOutbox
  <2>2. DOMAIN outbox' = Path
    BY <1>1
  <2> QED BY <2>1, <2>2 DEF OutboxInv
<1>11. WireOK(messages', wire') /\ PacketsOK(messages', packets')
  <2>1. WireOK(messages, wire')
    BY <1>1, EmptyIs DEF WireOK
  <2> QED BY <1>1, <1>2, <1>7, <2>1, SameAir
<1>12. NumbersOK'
  BY <1>1, EmptyIs DEF NumbersOK
<1>13. VerdictsAreTrue'
  BY <1>1 DEF VerdictsAreTrue, NoVerdict
<1>14. ReaderInv'
  BY <1>1, <1>6, <1>7, ReaderRests
<1> QED BY <1>9, <1>10, <1>11, <1>12, <1>13, <1>14, InvParts

(* What is forgotten with the groups that go.                              *)
LEMMA ForgetIs ==
  ASSUME IInv, NEW gone, NEW ar, ar = Forget(arrived, gone)
  PROVE  /\ IsSeq(ar) /\ DOMAIN ar = DOMAIN messages
         /\ \A m \in DOMAIN messages :
              ar[m] = IF messages[m].group \in gone /\ messages[m].total > 1
                      THEN {} ELSE arrived[m]
<1>1. IsSeq(arrived) /\ DOMAIN arrived = DOMAIN messages
  BY DEF IInv, ArrivedOK
<1>2. Len(arrived) \in Nat /\ DOMAIN arrived = 1 .. Len(arrived)
  BY <1>1, SeqIs
<1>3. ar = [m \in DOMAIN arrived |-> IF messages[m].group \in gone /\ messages[m].total > 1
                                     THEN {} ELSE arrived[m]]
  BY DEF Forget
<1>4. ar = [m \in 1 .. Len(arrived) |-> ar[m]]
  BY <1>2, <1>3
<1>5. IsSeq(ar)
  BY <1>2, <1>4, FunctionIs
<1> QED BY <1>1, <1>3, <1>5

(* A message that is in pieces has more than one.                          *)
LEMMA SplitIs ==
  ASSUME IInv, NEW m \in DOMAIN messages, Split(messages[m])
  PROVE  /\ m \in Nat /\ messages[m].total > 1 /\ App(messages[m].path) \in Apps
         /\ \A k \in DOMAIN messages :
              Split(messages[k]) /\ messages[k].group = messages[m].group => k = m
<1>1. MessagesOK(messages, groupCounter)
  BY DEF IInv
<1>2. IsSeq(messages) /\ MessageOK(m, messages[m])
  BY <1>1 DEF MessagesOK
<1>3. m \in Nat
  <2>1. DOMAIN messages = 1 .. Len(messages)
    BY <1>2, SeqIs
  <2> QED BY <2>1
<1>4. PICK msg : msg = messages[m]
  OBVIOUS
<1>5. msg.total \in Nat \ {0}
  BY <1>2, <1>3, <1>4, MessageIs
<1>6. msg.total # 1
  BY <1>4 DEF Split
<1>7. App(messages[m].path) \in Apps
  BY DEF App, Apps
<1> QED BY <1>1, <1>3, <1>4, <1>5, <1>6, <1>7 DEF MessagesOK

(* Expire: the oldest groups go, and so does what the histories say of     *)
(* them.                                                                   *)
LEMMA ExpireStep ==
  ASSUME IInv, Expire
  PROVE  IInv'
<1> DEFINE gs == partial["voice"]
<1>1. PICK n \in 1 .. Len(gs) :
         /\ partial' = [partial EXCEPT !["voice"] = SubSeq(gs, n + 1, Len(gs))]
         /\ arrived' = Forget(arrived, {gs[i].group : i \in 1 .. n})
  BY DEF Expire
<1>2. UNCHANGED <<messages, groupCounter, outbox, counter, wire, packets, heard, last,
                  lastNumber, verdict>>
  BY DEF Expire, writerVars
<1>3. /\ DOMAIN partial = Apps /\ \A app \in Apps : GroupsOK(messages, app, partial[app])
      /\ HeardOK(messages, heard) /\ ArrivedOK(messages, arrived, heard, partial)
  BY DEF IInv
<1>4. "voice" \in Apps
  BY DEF Apps
<1>5. PICK s : s = SubSeq(gs, n + 1, Len(gs))
  OBVIOUS
<1>6. partial' = [partial EXCEPT !["voice"] = s]
  BY <1>1, <1>5
<1>7. GroupsOK(messages, "voice", gs)
  BY <1>3, <1>4
<1> HIDE DEF gs
<1>8. /\ IsSeq(gs) /\ Len(gs) <= MAX_GROUPS /\ Distinct(gs)
      /\ \A i \in DOMAIN gs : (\E m : GroupOf(messages, "voice", gs[i], m))
            /\ DOMAIN gs[i].chunks # {}
  BY <1>7 DEF GroupsOK
<1>9. Len(gs) \in Nat /\ DOMAIN gs = 1 .. Len(gs) /\ n \in 0 .. Len(gs) /\ MAX_GROUPS \in Nat
      /\ n \in Nat
  BY <1>1, <1>8, SeqIs, Positive
<1>10. Later(s, gs, n)
  BY <1>5, <1>8, <1>9, SuffixGroups
<1>11. /\ IsSeq(s) /\ Len(s) = Len(gs) - n /\ Distinct(s)
       /\ \A k \in DOMAIN s : \E j \in DOMAIN gs : s[k] = gs[j]
       /\ \A id : HeldOf(s, id) = IF \E i \in 1 .. n : gs[i].group = id THEN {}
                                  ELSE HeldOf(gs, id)
  BY <1>10 DEF Later
<1>12. GroupsOK(messages, "voice", s)
  <2>1. Len(s) <= MAX_GROUPS
    BY <1>8, <1>9, <1>11
  <2> QED BY <1>8, <1>11, <2>1 DEF GroupsOK
<1>13. /\ DOMAIN partial' = Apps
       /\ \A app \in Apps : partial'[app] = IF app = "voice" THEN s ELSE partial[app]
  BY <1>3, <1>6
<1>14. \A app \in Apps : GroupsOK(messages', app, partial'[app])
  BY <1>2, <1>3, <1>12, <1>13
<1>15. PICK gone : gone = {gs[i].group : i \in 1 .. n}
  OBVIOUS
<1>16. \A id : (\E i \in 1 .. n : gs[i].group = id) <=> id \in gone
  BY <1>15
<1>17. arrived' = Forget(arrived, gone)
  BY <1>1, <1>15 DEF gs
<1>18. /\ IsSeq(arrived') /\ DOMAIN arrived' = DOMAIN messages
       /\ \A m \in DOMAIN messages :
            arrived'[m] = IF messages[m].group \in gone /\ messages[m].total > 1
                          THEN {} ELSE arrived[m]
  BY <1>17, ForgetIs
<1>19. \A id \in gone : \E k \in DOMAIN messages :
          Split(messages[k]) /\ App(messages[k].path) = "voice" /\ messages[k].group = id
  <2> SUFFICES ASSUME NEW id \in gone
               PROVE  \E k \in DOMAIN messages :
                         Split(messages[k]) /\ App(messages[k].path) = "voice"
                               /\ messages[k].group = id
    OBVIOUS
  <2>1. PICK i \in 1 .. n : gs[i].group = id
    BY <1>16
  <2>2. i \in DOMAIN gs
    BY <1>9
  <2>3. PICK k : GroupOf(messages, "voice", gs[i], k)
    BY <1>8, <2>2
  <2> QED BY <2>1, <2>3 DEF GroupOf
<1>20. ASSUME NEW m \in DOMAIN messages, Split(messages[m])
       PROVE  \/ IsHeard(heard, m)
              \/ arrived'[m] = HeldOf(partial'[App(messages[m].path)], messages[m].group)
  <2>1. /\ messages[m].total > 1 /\ App(messages[m].path) \in Apps
        /\ \A k \in DOMAIN messages :
              Split(messages[k]) /\ messages[k].group = messages[m].group => k = m
    BY <1>20, SplitIs
  <2>2. IsHeard(heard, m) \/ arrived[m] = HeldOf(partial[App(messages[m].path)], messages[m].group)
    BY <1>3, <1>20 DEF ArrivedOK
  <2>3. CASE messages[m].group \in gone
    <3>1. App(messages[m].path) = "voice"
      BY <1>19, <2>1, <2>3
    <3>2. arrived'[m] = {}
      BY <1>18, <2>1, <2>3
    <3>3. HeldOf(s, messages[m].group) = {}
      BY <1>11, <1>16, <2>3
    <3> QED BY <1>13, <2>1, <3>1, <3>2, <3>3
  <2>4. CASE messages[m].group \notin gone
    <3>1. arrived'[m] = arrived[m]
      BY <1>18, <2>4
    <3>2. HeldOf(s, messages[m].group) = HeldOf(gs, messages[m].group)
      BY <1>11, <1>16, <2>4
    <3>3. HeldOf(partial'[App(messages[m].path)], messages[m].group)
            = HeldOf(partial[App(messages[m].path)], messages[m].group)
      BY <1>13, <2>1, <3>2 DEF gs
    <3> QED BY <2>2, <3>1, <3>3
  <2> QED BY <2>3, <2>4
<1>21. ArrivedOK(messages', arrived', heard', partial')
  BY <1>2, <1>3, <1>18, <1>20 DEF ArrivedOK
<1>22. ReaderInv'
  BY <1>2, <1>3, <1>13, <1>14, <1>21 DEF ReaderInv
<1>23. /\ MessagesOK(messages, groupCounter)' /\ OutboxInv' /\ WireOK(messages, wire)'
       /\ PacketsOK(messages, packets)'
  BY <1>2 DEF IInv, OutboxInv
<1>24. VerdictsAreTrue' /\ NumbersOK'
  BY <1>2, VerdictRests, NumbersRest
<1> QED BY <1>22, <1>23, <1>24, InvParts

(* The messages with x behind them.                                        *)
LEMMA AppendedMessage ==
  ASSUME NEW n, MessagesOK(messages, n), NEW k \in Nat, NEW x, MessageOK(Len(messages) + 1, x),
         Split(x) => x.group \in n .. n + k - 1,
         NEW new, new = Append(messages, x)
  PROVE  /\ MessagesOK(new, n + k) /\ Same(messages, new)
         /\ Len(messages) + 1 \in DOMAIN new /\ new[Len(messages) + 1] = x
         /\ DOMAIN new = DOMAIN messages \cup {Len(messages) + 1}
         /\ Len(messages) + 1 \notin DOMAIN messages /\ Len(messages) \in Nat
<1>1. /\ IsSeq(messages) /\ n \in Nat
      /\ \A m \in DOMAIN messages : MessageOK(m, messages[m])
      /\ \A m \in DOMAIN messages : Split(messages[m]) => messages[m].group \in 0 .. n - 1
      /\ \A m, l \in DOMAIN messages :
           Split(messages[m]) /\ Split(messages[l])
                 /\ messages[m].group = messages[l].group => m = l
  BY DEF MessagesOK
<1>2. Len(messages) \in Nat /\ DOMAIN messages = 1 .. Len(messages)
  BY <1>1, SeqIs
<1>3. PICK c : c = Len(messages) + 1
  OBVIOUS
<1>4. /\ IsSeq(new) /\ DOMAIN new = 1 .. c /\ new[c] = x
      /\ \A m \in DOMAIN messages : new[m] = messages[m]
  BY <1>1, <1>2, <1>3, AppendIs
<1>5. c \in DOMAIN new /\ DOMAIN new = DOMAIN messages \cup {c} /\ c \notin DOMAIN messages
  BY <1>2, <1>3, <1>4
<1>6. Same(messages, new)
  BY <1>4, <1>5 DEF Same
<1>7. \A m \in DOMAIN new : MessageOK(m, new[m])
  BY <1>1, <1>3, <1>4, <1>5
<1>8. \A m \in DOMAIN messages : Split(new[m]) => new[m].group \in 0 .. n - 1
  BY <1>1, <1>4
<1>9. Split(new[c]) => new[c].group \in n .. n + k - 1
  BY <1>4
<1>10. \A m \in DOMAIN new : Split(new[m]) => new[m].group \in 0 .. n + k - 1
  <2>1. 0 .. n - 1 \subseteq 0 .. n + k - 1 /\ n .. n + k - 1 \subseteq 0 .. n + k - 1
    BY <1>1
  <2> QED BY <1>5, <1>8, <1>9, <2>1
<1>11. ASSUME NEW m \in DOMAIN new, NEW l \in DOMAIN new, Split(new[m]), Split(new[l]),
              new[m].group = new[l].group
       PROVE  m = l
  <2>1. \A a : ~(a \in 0 .. n - 1 /\ a \in n .. n + k - 1)
    BY <1>1
  <2>2. CASE m \in DOMAIN messages /\ l \in DOMAIN messages
    BY <1>1, <1>4, <1>11, <2>2
  <2>3. CASE m = c /\ l = c
    BY <2>3
  <2>4. CASE m = c /\ l \in DOMAIN messages
    BY <1>8, <1>9, <1>11, <2>1, <2>4
  <2>5. CASE l = c /\ m \in DOMAIN messages
    BY <1>8, <1>9, <1>11, <2>1, <2>5
  <2> QED BY <1>5, <2>2, <2>3, <2>4, <2>5
<1>12. n + k \in Nat
  BY <1>1
<1> QED BY <1>2, <1>3, <1>4, <1>5, <1>6, <1>7, <1>10, <1>11, <1>12 DEF MessagesOK

(* No group is held of an id that is still to be used.                     *)
LEMMA NothingHeld ==
  ASSUME IInv, NEW app \in Apps, NEW id \in Nat, id >= groupCounter
  PROVE  HeldOf(partial[app], id) = {}
<1>1. GroupsOK(messages, app, partial[app]) /\ MessagesOK(messages, groupCounter)
  BY DEF IInv
<1>2. ASSUME NEW i \in DOMAIN partial[app], partial[app][i].group = id PROVE FALSE
  <2>1. PICK m : GroupOf(messages, app, partial[app][i], m)
    BY <1>1 DEF GroupsOK
  <2>2. messages[m].group = id /\ messages[m].group \in 0 .. groupCounter - 1
        /\ groupCounter \in Nat
    BY <1>1, <1>2, <2>1 DEF GroupOf, MessagesOK
  <2> QED BY <2>2
<1> QED BY <1>2 DEF HeldOf

(* Write: one more message, whose group id is new.                         *)
LEMMA WriteStep ==
  ASSUME IInv, NEW path \in Path, NEW shape \in Shapes, Write(path, shape)
  PROVE  IInv'
<1> DEFINE m == Len(messages) + 1
           text == Trim(Written(m, shape))
           length == V6A_HEADER + Len(Utf8Encode(text))
           taken == GroupsTaken(length, path)
           refused == text = <<>> \/ SplitRefuses(length, path)
           status == IF refused THEN "refused" ELSE "sending"
           msg == [path |-> path, text |-> text, group |-> groupCounter + taken - 1,
                   total |-> Total(length, path), status |-> status]
           k == IF refused THEN 0 ELSE taken
           ps == IF refused THEN <<>> ELSE Payloads(m, msg)
<1>1. /\ messages' = Append(messages, msg) /\ arrived' = Append(arrived, {})
      /\ groupCounter' = IF refused THEN groupCounter ELSE groupCounter + taken
      /\ outbox' = [outbox EXCEPT ![path] = ps]
      /\ UNCHANGED <<counter, wire, packets, partial, completed, heard, last, lastNumber, verdict>>
  BY DEF Write
<1>2. /\ msg.path = path /\ msg.text = text /\ msg.group = groupCounter + taken - 1
      /\ msg.total = Total(length, path) /\ msg.status = status /\ IsMessage(msg)
  BY DEF IsMessage
<1>3. MessagesOK(messages, groupCounter) /\ IsSeq(messages) /\ groupCounter \in Nat
  BY DEF IInv, MessagesOK
<1>4. m \in Nat
  BY <1>3, SeqIs
<1>5. IsText(m, text) /\ (text # <<>> => HasSolid(text))
  <2>1. shape \in Seq(Class)
    BY FramingAssumption
  <2>2. PICK w : w = Written(m, shape)
    OBVIOUS
  <2>3. IsText(m, w)
    BY <1>4, <2>1, <2>2, WrittenIsText
  <2>4. IsText(m, Trim(w)) /\ (Trim(w) # <<>> <=> HasSolid(w)) /\ (HasSolid(w) => HasSolid(Trim(w)))
    BY <2>3, Trimmed
  <2> QED BY <2>2, <2>4
<1> HIDE DEF text, m
<1>6. length = Len(BuildPacket(m, text)) /\ length \in Nat
  <2>1. Len(BuildPacket(m, text)) = V6A_HEADER + Len(Utf8Encode(text))
        /\ Len(Utf8Encode(text)) \in Nat
    BY <1>4, <1>5, PacketIs
  <2>2. V6A_HEADER \in Nat
    BY Positive
  <2> QED BY <2>1, <2>2
<1> HIDE DEF length
<1>7. taken \in Nat /\ (Total(length, path) # 1 => taken >= 1)
  <2>1. Total(length, path) \in Nat \ {0}
    BY <1>6, TotalIs
  <2>2. taken = (IF Total(length, path) > 1 THEN 1 ELSE 0)
                + (IF path = "mesh" /\ Total(length, "direct") > 1 THEN 1 ELSE 0)
    BY DEF GroupsTaken
  <2>3. PICK a, b : /\ a = (IF Total(length, path) > 1 THEN 1 ELSE 0)
                    /\ b = (IF path = "mesh" /\ Total(length, "direct") > 1 THEN 1 ELSE 0)
    OBVIOUS
  <2>4. a \in {0, 1} /\ b \in {0, 1} /\ (Total(length, path) # 1 => a = 1)
    BY <2>1, <2>3
  <2>5. taken = a + b
    BY <2>2, <2>3
  <2> QED BY <2>4, <2>5
<1> HIDE DEF taken, refused
<1>8. status \in {"refused", "sending"} /\ (status = "refused" <=> refused)
  OBVIOUS
<1>9. refused \/ HasSolid(text)
  BY <1>5 DEF refused
<1> HIDE DEF status, msg
<1>10. MessageOK(m, msg)
  <2>1. PacketOf(m, msg) = BuildPacket(m, text)
    BY <1>2 DEF PacketOf
  <2>2. msg.total = Total(Len(PacketOf(m, msg)), msg.path)
    BY <1>2, <1>6, <2>1
  <2>3. Sendable(msg) => HasSolid(msg.text)
    BY <1>2, <1>8, <1>9 DEF Sendable
  <2> QED BY <1>2, <1>5, <1>8, <2>2, <2>3 DEF MessageOK
<1>11. Sendable(msg) <=> ~refused
  BY <1>2, <1>8 DEF Sendable
<1>12. k \in Nat /\ groupCounter' = groupCounter + k
  <2>1. groupCounter + 0 = groupCounter
    BY <1>3
  <2> QED BY <1>1, <1>7, <2>1
<1>13. Split(msg) => msg.group \in groupCounter .. groupCounter + k - 1
  <2> SUFFICES ASSUME Split(msg) PROVE msg.group \in groupCounter .. groupCounter + k - 1
    OBVIOUS
  <2>1. ~refused /\ Total(length, path) # 1
    BY <1>2, <1>11 DEF Split
  <2>2. k = taken /\ taken >= 1
    BY <1>7, <2>1
  <2>3. msg.group = groupCounter + taken - 1
    BY <1>2
  <2> QED BY <1>3, <1>7, <2>2, <2>3
<1> HIDE DEF k
<1>14. /\ MessagesOK(messages', groupCounter + k) /\ Same(messages, messages')
       /\ m \in DOMAIN messages' /\ messages'[m] = msg
       /\ DOMAIN messages' = DOMAIN messages \cup {m}
       /\ m \notin DOMAIN messages
  BY <1>1, <1>3, <1>10, <1>12, <1>13, AppendedMessage DEF m
<1>15. MessagesOK(messages', groupCounter')
  BY <1>12, <1>14
<1>16. OutboxInv'
  <2>1. DOMAIN outbox = Path /\ \A q \in Path : OutboxOK(messages, q, outbox[q])
    BY DEF IInv
  <2>2. \A q \in Path : OutboxOK(messages', q, outbox[q])
    BY <1>14, <2>1, SameOutbox
  <2>5. (refused /\ ps = <<>>) \/ (~refused /\ ps = Payloads(m, msg))
    OBVIOUS
  <2> HIDE DEF ps
  <2>3. OutboxOK(messages', path, ps)
    <3>1. CASE refused /\ ps = <<>>
      BY <3>1, NothingToSend
    <3>2. CASE ~refused /\ ps = Payloads(m, msg)
      <4>1. OutboxOK(messages', msg.path, Payloads(m, msg))
        BY <1>11, <1>14, <3>2, PayloadsFit
      <4> QED BY <1>2, <3>2, <4>1
    <3> QED BY <2>5, <3>1, <3>2
  <2>4. DOMAIN outbox' = Path /\ \A q \in Path : outbox'[q] = IF q = path THEN ps ELSE outbox[q]
    BY <1>1, <2>1
  <2> QED BY <2>2, <2>3, <2>4 DEF OutboxInv
<1>17. WireOK(messages', wire') /\ PacketsOK(messages', packets')
  BY <1>1, <1>14, AirRests
<1>18. VerdictsAreTrue' /\ NumbersOK'
  BY <1>1, VerdictRests, NumbersRest
<1>19. /\ DOMAIN partial = Apps /\ \A app \in Apps : GroupsOK(messages, app, partial[app])
       /\ HeardOK(messages, heard) /\ ArrivedOK(messages, arrived, heard, partial)
  BY DEF IInv
<1>20. \A app \in Apps : GroupsOK(messages', app, partial[app])
  BY <1>14, <1>19, SameGroups
<1>21. HeardOK(messages', heard)
  BY <1>14, <1>19, SameHeard
<1>22. /\ IsSeq(arrived') /\ DOMAIN arrived' = DOMAIN messages'
       /\ arrived'[m] = {} /\ \A l \in DOMAIN messages : arrived'[l] = arrived[l]
  <2>1. IsSeq(arrived) /\ DOMAIN arrived = DOMAIN messages
    BY <1>19 DEF ArrivedOK
  <2>2. Len(arrived) \in Nat /\ DOMAIN arrived = 1 .. Len(arrived)
    BY <2>1, SeqIs
  <2>3. Len(messages) \in Nat /\ DOMAIN messages = 1 .. Len(messages)
    BY <1>3, SeqIs
  <2>4. Len(arrived) = Len(messages)
    <3>1. PICK a, b : a = Len(arrived) /\ b = Len(messages)
      OBVIOUS
    <3>2. a \in Nat /\ b \in Nat /\ 1 .. a = 1 .. b
      BY <2>1, <2>2, <2>3, <3>1
    <3>3. a = b
      BY ONLY <3>2
    <3> QED BY <3>1, <3>3
  <2>5. /\ IsSeq(arrived') /\ DOMAIN arrived' = 1 .. Len(arrived) + 1
        /\ \A i \in 1 .. Len(arrived) : arrived'[i] = arrived[i]
        /\ arrived'[Len(arrived) + 1] = {}
    BY <1>1, <2>1, AppendIs
  <2>6. 1 .. m = DOMAIN messages'
    BY <1>14, <2>3 DEF m
  <2> QED BY <2>1, <2>3, <2>4, <2>5, <2>6 DEF m
<1>23. Split(msg) => HeldOf(partial[App(msg.path)], msg.group) = {}
  <2> SUFFICES ASSUME Split(msg) PROVE HeldOf(partial[App(msg.path)], msg.group) = {}
    OBVIOUS
  <2>1. PICK id, app : id = msg.group /\ app = App(msg.path)
    OBVIOUS
  <2>2. id \in Nat /\ id >= groupCounter
    BY <1>3, <1>12, <1>13, <2>1
  <2>3. app \in Apps
    BY <2>1 DEF App, Apps
  <2> QED BY <2>1, <2>2, <2>3, NothingHeld
<1>24. ASSUME NEW l \in DOMAIN messages'
       PROVE  /\ ~Sendable(messages'[l]) => arrived'[l] = {}
              /\ messages'[l].total = 1 => arrived'[l] = {} \/ IsHeard(heard, l)
              /\ Split(messages'[l]) =>
                   IsHeard(heard, l)
                   \/ arrived'[l] = HeldOf(partial[App(messages'[l].path)], messages'[l].group)
  <2>1. CASE l = m
    BY <1>14, <1>22, <1>23, <2>1
  <2>2. CASE l \in DOMAIN messages
    <3>1. /\ messages'[l].path = messages[l].path
          /\ messages'[l].group = messages[l].group /\ messages'[l].total = messages[l].total
          /\ Sendable(messages'[l]) <=> Sendable(messages[l])
      BY <1>14, <2>2 DEF Same
    <3>2. Split(messages'[l]) <=> Split(messages[l])
      BY <3>1 DEF Split
    <3> QED BY <1>19, <1>22, <2>2, <3>1, <3>2 DEF ArrivedOK
  <2> QED BY <1>14, <2>1, <2>2
<1>25. ArrivedOK(messages', arrived', heard, partial)
  BY <1>22, <1>24 DEF ArrivedOK
<1>26. ReaderInv'
  BY <1>1, <1>19, <1>20, <1>21, <1>25 DEF ReaderInv
<1> QED BY <1>15, <1>16, <1>17, <1>18, <1>26, InvParts

-----------------------------------------------------------------------------
(* Steps of the reader.                                                    *)

(* The validator's answer to the first frame of the wire is true, and it   *)
(* remembers a number that the frames behind it are above.                 *)
LEMMA ValidateKeeps ==
  ASSUME IInv, wire # <<>>, wire' = Tail(wire), UNCHANGED counter,
         UNCHANGED <<last, lastNumber, verdict>> \/ Validate(Head(wire))
  PROVE  NumbersOK' /\ VerdictsAreTrue'
<1>1. NumbersOK /\ VerdictsAreTrue /\ WireOK(messages, wire)
  BY DEF IInv
<1>2. PICK f, n : f = Head(wire) /\ n = f.number
  OBVIOUS
<1>3. /\ Len(wire) \in Nat \ {0} /\ 1 \in DOMAIN wire /\ f = wire[1]
      /\ DOMAIN wire' = 1 .. Len(wire) - 1
      /\ \A i \in 1 .. Len(wire) - 1 : wire'[i] = wire[i + 1]
  BY <1>1, <1>2, TailIs DEF WireOK
<1>4. DOMAIN wire = 1 .. Len(wire)
  BY <1>1, SeqIs DEF WireOK
<1>5. ASSUME NEW i \in DOMAIN wire'
      PROVE  i \in Nat /\ i + 1 \in DOMAIN wire /\ 1 < i + 1 /\ wire'[i] = wire[i + 1]
  BY <1>3, <1>4
<1>6. f.path = "direct"
  BY <1>1, <1>3 DEF WireOK
<1>7. n \in Nat /\ n < counter /\ counter \in Nat
  BY <1>1, <1>2, <1>3 DEF NumbersOK
<1>8. \A i \in DOMAIN wire' : wire'[i].number \in Nat /\ wire'[i].number < counter
      /\ n < wire'[i].number
  BY <1>1, <1>2, <1>3, <1>5 DEF NumbersOK
<1>9. \A i, k \in DOMAIN wire' : i < k => wire'[i].number < wire'[k].number
  <2> SUFFICES ASSUME NEW i \in DOMAIN wire', NEW k \in DOMAIN wire', i < k
               PROVE  wire'[i].number < wire'[k].number
    OBVIOUS
  <2>1. i + 1 \in DOMAIN wire /\ k + 1 \in DOMAIN wire /\ wire'[i] = wire[i + 1]
        /\ wire'[k] = wire[k + 1]
    BY <1>5
  <2>2. i + 1 < k + 1
    BY <1>5
  <2> QED BY <1>1, <2>1, <2>2 DEF NumbersOK
<1>10. \/ last = {}
       \/ /\ last = {Signed(lastNumber)} /\ lastNumber < counter /\ lastNumber < n
          /\ \A i \in DOMAIN wire' : lastNumber < wire'[i].number
  <2>1. \/ last = {}
        \/ /\ last = {Signed(lastNumber)} /\ lastNumber < counter
           /\ \A i \in DOMAIN wire : lastNumber < wire[i].number
    BY <1>1 DEF NumbersOK
  <2> QED BY <1>2, <1>3, <1>5, <2>1
<1>11. lastNumber \in Nat
  BY <1>1 DEF NumbersOK
<1>12. CASE UNCHANGED <<last, lastNumber, verdict>>
  <2>1. NumbersOK'
    BY <1>7, <1>8, <1>9, <1>10, <1>11, <1>12 DEF NumbersOK
  <2> QED BY <1>12, <2>1, VerdictRests
<1>13. CASE Validate(Head(wire))
  <2>1. PICK says : says = Validated(Signed(n))
    OBVIOUS
  <2>2. /\ verdict' = [number |-> n, after |-> lastNumber, says |-> says]
        /\ \/ says = "duplicate" /\ UNCHANGED <<last, lastNumber>>
           \/ last' = {Signed(n)} /\ lastNumber' = n
    BY <1>2, <1>6, <1>13, <2>1 DEF Validate, Sequence
  <2>3. NumbersOK'
    <3>1. CASE UNCHANGED <<last, lastNumber>>
      BY <1>7, <1>8, <1>9, <1>10, <1>11, <3>1 DEF NumbersOK
    <3>2. CASE last' = {Signed(n)} /\ lastNumber' = n
      BY <1>7, <1>8, <1>9, <3>2 DEF NumbersOK
    <3> QED BY <2>2, <3>1, <3>2
  <2>4. VerdictsAreTrue'
    <3>1. PICK v : v = verdict'
      OBVIOUS
    <3>2. v.number = n /\ v.after = lastNumber /\ v.says = says
      BY <2>2, <3>1
    <3>3. ASSUME says # "first", n - lastNumber <= HALF
          PROVE  ~(n <= lastNumber) /\ says = IF n = lastNumber + 1 THEN "next" ELSE "gap"
      <4>1. last # {}
        BY <2>1, <3>3 DEF Validated
      <4>2. last = {Signed(lastNumber)} /\ lastNumber < n
        BY <1>10, <4>1
      <4>3. says = IF n = lastNumber + 1 THEN "next" ELSE "gap"
        BY <1>7, <1>11, <2>1, <3>3, <4>2, ForwardVerdict
      <4> QED BY <1>7, <1>11, <4>2, <4>3
    <3> QED BY <3>1, <3>2, <3>3 DEF VerdictsAreTrue
  <2> QED BY <2>3, <2>4
<1> QED BY <1>12, <1>13

(* A message that comes out of the codec is heard.                         *)
LEMMA DeliverIs ==
  ASSUME IInv, NEW m \in DOMAIN messages, NEW message,
         message = <<>> \/ message = <<m, messages[m].text>>, NEW asks, Deliver(message, asks)
  PROVE  /\ HeardOK(messages, heard')
         /\ \A k : IsHeard(heard, k) => IsHeard(heard', k)
         /\ message # <<>> => IsHeard(heard', m)
<1>1. HeardOK(messages, heard)
  BY DEF IInv
<1>2. heard' = IF message = <<>> \/ (asks /\ Known(message)) THEN heard ELSE heard \cup {message}
  BY DEF Deliver
<1>3. CASE message = <<>>
  BY <1>1, <1>2, <1>3
<1>4. CASE message # <<>>
  <2>1. message = <<m, messages[m].text>> /\ message[1] = m
    BY <1>4
  <2>2. HeardOK(messages, heard \cup {message})
    BY <1>1, <2>1 DEF HeardOK
  <2>3. IsHeard(heard \cup {message}, m)
        /\ \A k : IsHeard(heard, k) => IsHeard(heard \cup {message}, k)
    BY <2>1 DEF IsHeard
  <2>4. Known(message) => IsHeard(heard, m)
    BY <2>1 DEF Known, IsHeard
  <2> QED BY <1>1, <1>2, <1>4, <2>2, <2>3, <2>4
<1> QED BY <1>3, <1>4

(* ReadSingle: a packet that is not cut is heard.                          *)
LEMMA SingleKeeps ==
  ASSUME IInv, NEW f, UNCHANGED messages, ReadSingle(f), NEW m, NEW i,
         IsOriginal(messages, f.payload, m, i)
  PROVE  ReaderInv'
<1>1. MessagesOK(messages, groupCounter)
  BY DEF IInv
<1>2. m \in DOMAIN messages /\ MessageOK(m, messages[m]) /\ Sendable(messages[m]) /\ IsSeq(messages)
  BY <1>1 DEF IsOriginal, MessagesOK
<1>3. m \in Nat
  <2>1. DOMAIN messages = 1 .. Len(messages)
    BY <1>2, SeqIs
  <2> QED BY <1>2, <2>1
<1>4. PICK p, msg : p = f.payload /\ msg = messages[m]
  OBVIOUS
<1>5. /\ p.msg = m /\ p.v7 = (IF msg.total = 1 THEN FALSE ELSE TRUE)
      /\ p.bytes = IF msg.total = 1 THEN PacketOf(m, msg)
                   ELSE Piece(PacketOf(m, msg), ChunkSize(msg.path), i)
  BY <1>4 DEF IsOriginal, Original
<1>6. /\ ~p.v7 /\ Deliver(Decode(p.bytes), f.path # "mesh")
      /\ arrived' = [arrived EXCEPT ![p.msg] = {0}]
      /\ UNCHANGED partial
  BY <1>4 DEF ReadSingle
<1>7. msg.total = 1 /\ p.bytes = PacketOf(m, msg)
  BY <1>5, <1>6
<1>8. Decode(p.bytes) = <<m, messages[m].text>>
  BY <1>2, <1>3, <1>4, <1>7, MessageIs
<1>9. PICK message, asks : message = Decode(p.bytes) /\ asks = (f.path # "mesh")
  OBVIOUS
<1>10. Deliver(message, asks)
  BY <1>6, <1>9 DEF Deliver
<1>11. message = <<m, messages[m].text>> /\ message # <<>>
  <2>1. message = <<m, messages[m].text>>
    BY <1>8, <1>9
  <2>2. \A a, b : <<a, b>> # <<>>
    OBVIOUS
  <2> QED BY <2>1, <2>2
<1>12. /\ HeardOK(messages, heard') /\ IsHeard(heard', m)
       /\ \A k : IsHeard(heard, k) => IsHeard(heard', k)
  BY <1>2, <1>10, <1>11, DeliverIs
<1>13. ArrivedOK(messages, arrived, heard, partial)
  BY DEF IInv
<1>14. IsSeq(arrived) /\ DOMAIN arrived = DOMAIN messages
  BY <1>13 DEF ArrivedOK
<1>15. DOMAIN arrived' = DOMAIN messages
      /\ \A k \in DOMAIN messages : k # m => arrived'[k] = arrived[k]
  BY <1>5, <1>6, <1>14
<1>16. IsSeq(arrived')
  <2>1. PICK ar : ar = arrived'
    OBVIOUS
  <2>2. Len(arrived) \in Nat /\ DOMAIN arrived = 1 .. Len(arrived)
    BY <1>14, SeqIs
  <2>3. ar = [k \in 1 .. Len(arrived) |-> ar[k]]
    BY <1>6, <2>1, <2>2
  <2> QED BY <2>1, <2>2, <2>3, FunctionIs
<1>17. ASSUME NEW k \in DOMAIN messages
       PROVE  /\ ~Sendable(messages[k]) => arrived'[k] = {}
              /\ messages[k].total = 1 => arrived'[k] = {} \/ IsHeard(heard', k)
              /\ Split(messages[k]) =>
                   IsHeard(heard', k)
                   \/ arrived'[k] = HeldOf(partial[App(messages[k].path)], messages[k].group)
  <2>1. CASE k = m
    BY <1>2, <1>12, <2>1
  <2>2. CASE k # m
    BY <1>12, <1>13, <1>15, <2>2 DEF ArrivedOK
  <2> QED BY <2>1, <2>2
<1>18. ArrivedOK(messages, arrived', heard', partial)
  BY <1>15, <1>16, <1>17 DEF ArrivedOK
<1> QED BY <1>6, <1>12, <1>18 DEF IInv, ReaderInv

(* A fragment of message m has gone into the groups of its app, which are  *)
(* r's now, and those of the ids in gone have left them.                   *)
LEMMA FragmentArrives ==
  ASSUME IInv, NEW app \in Apps, NEW p, NEW m, NEW i, FragmentOf(messages, app, p, m, i),
         NEW r, Added(messages, app, partial[app], p, m, i, r),
         NEW hs, \A k : IsHeard(heard, k) => IsHeard(hs, k),
         r.packet # <<>> => IsHeard(hs, m),
         NEW ar, ar = [Forget(arrived, Evicted(partial[app], p)) EXCEPT ![m] = @ \cup {i}],
         NEW gss, gss = [partial EXCEPT ![app] = r.groups]
  PROVE  ArrivedOK(messages, ar, hs, gss)
<1>1. /\ DOMAIN partial = Apps /\ GroupsOK(messages, app, partial[app])
      /\ ArrivedOK(messages, arrived, heard, partial) /\ MessagesOK(messages, groupCounter)
  BY DEF IInv
<1>2. PICK gs, gone, id : gs = partial[app] /\ gone = Evicted(partial[app], p)
      /\ id = messages[m].group
  OBVIOUS
<1>3. /\ m \in DOMAIN messages /\ Split(messages[m]) /\ App(messages[m].path) = app /\ p.group = id
  BY <1>1, <1>2, FragmentIs
<1>4. id \notin gone /\ \A x \in gone : \E k \in DOMAIN gs : gs[k].group = x
  BY <1>1, <1>2, <1>3, ListedIs
<1>5. /\ \A x : x # id => HeldOf(r.groups, x) = IF x \in gone THEN {} ELSE HeldOf(gs, x)
      /\ r.packet = <<>> => HeldOf(r.groups, id) = HeldOf(gs, id) \cup {i}
  BY <1>2, <1>3 DEF Added
<1>6. PICK forgot : forgot = Forget(arrived, gone)
  OBVIOUS
<1>7. /\ IsSeq(forgot) /\ DOMAIN forgot = DOMAIN messages
      /\ \A k \in DOMAIN messages :
           forgot[k] = IF messages[k].group \in gone /\ messages[k].total > 1
                       THEN {} ELSE arrived[k]
  BY <1>6, ForgetIs
<1>8. ar = [forgot EXCEPT ![m] = @ \cup {i}]
  BY <1>2, <1>6
<1>9. /\ DOMAIN ar = DOMAIN messages /\ ar[m] = forgot[m] \cup {i}
      /\ \A k \in DOMAIN messages : k # m => ar[k] = forgot[k]
  BY <1>3, <1>7, <1>8
<1>10. IsSeq(ar)
  <2>1. Len(forgot) \in Nat /\ DOMAIN forgot = 1 .. Len(forgot)
    BY <1>7, SeqIs
  <2>2. ar = [k \in 1 .. Len(forgot) |-> ar[k]]
    BY <1>8, <2>1
  <2> QED BY <2>1, <2>2, FunctionIs
<1>11. \A a \in Apps : gss[a] = IF a = app THEN r.groups ELSE partial[a]
  BY <1>1
<1>12. \A x \in gone : \E k \in DOMAIN messages :
          Split(messages[k]) /\ App(messages[k].path) = app /\ messages[k].group = x
  <2> SUFFICES ASSUME NEW x \in gone
               PROVE  \E k \in DOMAIN messages :
                         Split(messages[k]) /\ App(messages[k].path) = app /\ messages[k].group = x
    OBVIOUS
  <2>1. PICK l \in DOMAIN gs : gs[l].group = x
    BY <1>4
  <2>2. PICK k : GroupOf(messages, app, gs[l], k)
    BY <1>1, <1>2 DEF GroupsOK
  <2> QED BY <2>1, <2>2 DEF GroupOf
<1>13. ASSUME NEW k \in DOMAIN messages, Split(messages[k])
       PROVE  IsHeard(hs, k) \/ ar[k] = HeldOf(gss[App(messages[k].path)], messages[k].group)
  <2>1. /\ messages[k].total > 1 /\ App(messages[k].path) \in Apps
        /\ \A l \in DOMAIN messages :
              Split(messages[l]) /\ messages[l].group = messages[k].group => l = k
    BY <1>13, SplitIs
  <2>2. IsHeard(heard, k) \/ arrived[k] = HeldOf(partial[App(messages[k].path)], messages[k].group)
    BY <1>1, <1>13 DEF ArrivedOK
  <2>3. CASE k = m
    <3>1. ar[k] = arrived[k] \cup {i}
      BY <1>2, <1>4, <1>7, <1>9, <2>3
    <3>2. r.packet = <<>> => HeldOf(gss[App(messages[k].path)], messages[k].group)
                             = HeldOf(partial[App(messages[k].path)], messages[k].group) \cup {i}
      BY <1>2, <1>3, <1>5, <1>11, <2>3
    <3> QED BY <2>2, <2>3, <3>1, <3>2
  <2>4. CASE k # m
    <3>1. messages[k].group # id
      BY <1>2, <1>3, <2>1, <2>4
    <3>2. ar[k] = forgot[k]
      BY <1>9, <2>4
    <3>3. CASE messages[k].group \in gone
      <4>1. App(messages[k].path) = app
        BY <1>12, <2>1, <3>3
      <4>2. ar[k] = {}
        BY <1>7, <2>1, <3>2, <3>3
      <4>3. HeldOf(r.groups, messages[k].group) = {}
        BY <1>5, <3>1, <3>3
      <4> QED BY <1>11, <4>1, <4>2, <4>3
    <3>4. CASE messages[k].group \notin gone
      <4>1. ar[k] = arrived[k]
        BY <1>7, <3>2, <3>4
      <4>2. HeldOf(r.groups, messages[k].group) = HeldOf(gs, messages[k].group)
        BY <1>5, <3>1, <3>4
      <4>3. HeldOf(gss[App(messages[k].path)], messages[k].group)
              = HeldOf(partial[App(messages[k].path)], messages[k].group)
        BY <1>2, <1>11, <2>1, <4>2
      <4> QED BY <2>2, <4>1, <4>3
    <3> QED BY <3>3, <3>4
  <2> QED BY <2>3, <2>4
<1>14. ASSUME NEW k \in DOMAIN messages
       PROVE  /\ ~Sendable(messages[k]) => ar[k] = {}
              /\ messages[k].total = 1 => ar[k] = {} \/ IsHeard(hs, k)
  <2>1. CASE k = m
    BY <1>3, <2>1 DEF Split
  <2>2. CASE k # m
    <3>1. ar[k] = {} \/ ar[k] = arrived[k]
      BY <1>7, <1>9, <2>2
    <3> QED BY <1>1, <3>1 DEF ArrivedOK
  <2> QED BY <2>1, <2>2
<1> QED BY <1>9, <1>10, <1>13, <1>14 DEF ArrivedOK

(* ReadFragment: a fragment is held or completes its message.              *)
LEMMA FragmentKeeps ==
  ASSUME IInv, NEW f, UNCHANGED messages, ReadFragment(f), NEW m, NEW i,
         IsOriginal(messages, f.payload, m, i), messages[m].path = f.path
  PROVE  ReaderInv'
<1>1. /\ MessagesOK(messages, groupCounter) /\ DOMAIN partial = Apps
      /\ \A app \in Apps : GroupsOK(messages, app, partial[app])
  BY DEF IInv
<1>2. PICK p, app, r, message : /\ p = f.payload /\ app = App(f.path)
                                /\ r = AddFragment(partial[app], p)
                                /\ message = Decode(r.packet)
  OBVIOUS
<1>3. /\ p.v7 /\ partial' = [partial EXCEPT ![app] = r.groups]
      /\ Deliver(message, TRUE)
      /\ arrived' = [Forget(arrived, Evicted(partial[app], p)) EXCEPT ![p.msg] = @ \cup {p.index}]
  BY <1>2 DEF ReadFragment, Deliver
<1>4. app \in Apps
  BY <1>2 DEF App, Apps
<1>5. FragmentOf(messages, app, p, m, i)
  <2>1. p.v7 = (IF messages[m].total = 1 THEN FALSE ELSE TRUE)
    BY <1>2 DEF IsOriginal, Original
  <2>2. messages[m].total # 1
    BY <1>3, <2>1
  <2> QED BY <1>2, <2>2 DEF FragmentOf, Split, IsOriginal
<1>6. m \in Nat /\ m \in DOMAIN messages /\ MessageOK(m, messages[m]) /\ Split(messages[m])
      /\ p.msg = m /\ p.index = i
  BY <1>1, <1>5, FragmentIs
<1>7. Added(messages, app, partial[app], p, m, i, r)
  <2>1. PICK gs : gs = partial[app]
    OBVIOUS
  <2>2. GroupsOK(messages, app, gs) /\ r = AddFragment(gs, p)
    BY <1>1, <1>2, <1>4, <2>1
  <2> QED BY <1>1, <1>5, <2>1, <2>2, AddFragmentIs
<1>8. Decode(PacketOf(m, messages[m])) = <<m, messages[m].text>>
  BY <1>6, MessageIs DEF Split
<1>9. r.packet = <<>> \/ r.packet = PacketOf(m, messages[m])
  BY <1>7 DEF Added
<1>10. message = <<>> \/ message = <<m, messages[m].text>>
  BY <1>2, <1>8, <1>9, RefusesNothing
<1>11. r.packet # <<>> => message # <<>>
  <2>1. \A a, b : <<a, b>> # <<>>
    OBVIOUS
  <2> QED BY <1>2, <1>8, <1>9, <2>1
<1>12. /\ HeardOK(messages, heard')
       /\ \A k : IsHeard(heard, k) => IsHeard(heard', k)
       /\ message # <<>> => IsHeard(heard', m)
  BY <1>3, <1>6, <1>10, DeliverIs
<1>13. ArrivedOK(messages, arrived', heard', partial')
  <2>1. PICK hs, ar, gss : hs = heard' /\ ar = arrived' /\ gss = partial'
    OBVIOUS
  <2>2. /\ \A k : IsHeard(heard, k) => IsHeard(hs, k)
        /\ r.packet # <<>> => IsHeard(hs, m)
        /\ ar = [Forget(arrived, Evicted(partial[app], p)) EXCEPT ![m] = @ \cup {i}]
        /\ gss = [partial EXCEPT ![app] = r.groups]
    BY <1>3, <1>6, <1>11, <1>12, <2>1
  <2>3. ArrivedOK(messages, ar, hs, gss)
    BY ONLY IInv, <1>4, <1>5, <1>7, <2>2, FragmentArrives
  <2> QED BY <2>1, <2>3
<1>14. GroupsOK(messages, app, r.groups)
  BY <1>7 DEF Added
<1>15. /\ DOMAIN partial' = Apps
       /\ \A a \in Apps : GroupsOK(messages, a, partial'[a])
  <2>1. DOMAIN partial' = Apps
        /\ \A a \in Apps : partial'[a] = IF a = app THEN r.groups ELSE partial[a]
    BY <1>1, <1>3
  <2> QED BY <1>1, <1>14, <2>1
<1> QED BY <1>12, <1>13, <1>15 DEF ReaderInv

(* Whatever frame is read.                                                 *)
LEMMA ReceiveKeeps ==
  ASSUME IInv, NEW f, UNCHANGED messages, FrameOK(messages, f), Receive(f)
  PROVE  /\ ReaderInv'
         /\ UNCHANGED <<last, lastNumber, verdict>> \/ Validate(f)
<1>1. CASE ~WellFormed(f)
  <2>1. UNCHANGED <<partial, heard, arrived, last, lastNumber, verdict>>
    BY <1>1 DEF Receive, readerVars
  <2> QED BY <2>1, SameItself, ReaderRests
<1>2. CASE WellFormed(f)
  <2>1. Validate(f) /\ (ReadSingle(f) \/ ReadOfCompletedGroup(f) \/ ReadFragment(f))
    BY <1>2 DEF Receive
  <2>2. PICK m, i : IsOriginal(messages, f.payload, m, i) /\ messages[m].path = f.path
    BY <1>2 DEF FrameOK
  <2>3. CASE ReadSingle(f)
    BY <2>1, <2>2, <2>3, SingleKeeps
  <2>4. CASE ReadOfCompletedGroup(f)
    <3>1. UNCHANGED <<partial, heard, arrived>>
      BY <2>4 DEF ReadOfCompletedGroup
    <3> QED BY <2>1, <3>1, SameItself, ReaderRests
  <2>5. CASE ReadFragment(f)
    BY <2>1, <2>2, <2>5, FragmentKeeps
  <2> QED BY <2>1, <2>3, <2>4, <2>5
<1> QED BY <1>1, <1>2

(* ReadFrame, of the first frame of the link.                              *)
LEMMA ReadFrameStep ==
  ASSUME IInv, ReadFrame
  PROVE  IInv'
<1>1. /\ wire # <<>> /\ wire' = Tail(wire) /\ Receive(Head(wire))
      /\ UNCHANGED <<packets, messages, groupCounter, outbox, counter>>
  BY DEF ReadFrame, writerVars
<1>2. WireOK(messages, wire)
  BY DEF IInv
<1>3. /\ 1 \in DOMAIN wire /\ Head(wire) = wire[1] /\ IsSeq(Tail(wire))
      /\ DOMAIN Tail(wire) = 1 .. Len(wire) - 1 /\ DOMAIN wire = 1 .. Len(wire)
      /\ Len(wire) \in Nat
      /\ \A i \in 1 .. Len(wire) - 1 : Tail(wire)[i] = wire[i + 1]
  BY <1>1, <1>2, TailIs, SeqIs DEF WireOK
<1>4. PICK f : f = Head(wire)
  OBVIOUS
<1>5. FrameOK(messages, f) /\ Receive(f)
  BY <1>1, <1>2, <1>3, <1>4 DEF WireOK
<1>6. ReaderInv' /\ (UNCHANGED <<last, lastNumber, verdict>> \/ Validate(f))
  BY <1>1, <1>5, ReceiveKeeps
<1>7. NumbersOK' /\ VerdictsAreTrue'
  BY <1>1, <1>4, <1>6, ValidateKeeps
<1>8. WireOK(messages, Tail(wire))
  <2>1. ASSUME NEW i \in DOMAIN Tail(wire)
        PROVE i + 1 \in DOMAIN wire /\ Tail(wire)[i] = wire[i + 1]
    BY <1>3
  <2> QED BY <1>2, <1>3, <2>1 DEF WireOK
<1>9. /\ MessagesOK(messages, groupCounter)' /\ OutboxInv' /\ WireOK(messages, wire)'
      /\ PacketsOK(messages, packets)'
  BY <1>1, <1>8 DEF IInv, OutboxInv
<1> QED BY <1>6, <1>7, <1>9, InvParts

(* ReadPacket, of any frame in the mesh.                                   *)
LEMMA ReadPacketStep ==
  ASSUME IInv, NEW f \in packets, ReadPacket(f)
  PROVE  IInv'
<1>1. /\ packets' = packets \ {f} /\ Receive(f)
      /\ UNCHANGED <<wire, messages, groupCounter, outbox, counter>>
  BY DEF ReadPacket, writerVars
<1>2. PacketsOK(messages, packets)
  BY DEF IInv
<1>3. FrameOK(messages, f) /\ f.path # "direct"
  BY <1>2 DEF PacketsOK
<1>4. ReaderInv' /\ (UNCHANGED <<last, lastNumber, verdict>> \/ Validate(f))
  BY <1>1, <1>3, ReceiveKeeps
<1>5. UNCHANGED <<last, lastNumber, verdict>>
  BY <1>3, <1>4 DEF Validate
<1>6. NumbersOK' /\ VerdictsAreTrue'
  BY <1>1, <1>5, NumbersRest, VerdictRests
<1>7. PacketsOK(messages, packets')
  BY <1>1, <1>2 DEF PacketsOK
<1>8. /\ MessagesOK(messages, groupCounter)' /\ OutboxInv' /\ WireOK(messages, wire)'
      /\ PacketsOK(messages, packets)'
  BY <1>1, <1>7 DEF IInv, OutboxInv
<1> QED BY <1>4, <1>6, <1>8, InvParts

(* Every step keeps the invariant.                                         *)
LEMMA NextStep ==
  ASSUME IInv, [Next]_vars
  PROVE  IInv'
<1>1. CASE \E path \in Path, shape \in Shapes : Write(path, shape)
  BY <1>1, WriteStep
<1>2. CASE \E path \in Path : Transmit(path) \/ SendFails(path)
  BY <1>2, TransmitStep, SendFailsStep
<1>3. CASE \E m \in DOMAIN messages : Resend(m)
  BY <1>3, ResendStep
<1>4. CASE ReadFrame
  BY <1>4, ReadFrameStep
<1>5. CASE \E f \in packets : ReadPacket(f) \/ PacketLost(f) \/ PacketCut(f)
  BY <1>5, ReadPacketStep, PacketLostStep, PacketCutStep
<1>6. CASE \E i \in DOMAIN wire : FrameCut(i)
  BY <1>6, FrameCutStep
<1>7. CASE Expire
  BY <1>7, ExpireStep
<1>8. CASE LinkLost
  <2>1. PICK running : running = TRUE
    OBVIOUS
  <2>2. LinkBreaks(running) /\ groupCounter' = groupCounter
    BY <1>8, <2>1 DEF LinkLost
  <2> QED BY <2>2, LinkBreaksStep
<1>9. CASE Restart
  <2>1. PICK running : running = FALSE
    OBVIOUS
  <2>2. LinkBreaks(running) /\ groupCounter' = groupCounter
    BY <1>9, <2>1 DEF Restart, ProcessSeed
  <2> QED BY <2>2, LinkBreaksStep
<1>10. CASE UNCHANGED vars
  <2>1. UNCHANGED <<messages, groupCounter, counter, outbox, wire, packets, partial, heard,
                    last, lastNumber, verdict, arrived>>
    BY <1>10 DEF vars
  <2>2. WireOK(messages, wire') /\ PacketsOK(messages, packets')
    BY <2>1 DEF IInv
  <2>3. NumbersOK'
    BY <2>1, NumbersRest
  <2> QED BY <2>1, <2>2, <2>3, AirChanges
<1> QED BY <1>1, <1>2, <1>3, <1>4, <1>5, <1>6, <1>7, <1>8, <1>9, <1>10 DEF Next

(* The inductive invariant holds in every behaviour, for any sizes, texts  *)
(* and bounds that FramingAssumption admits.                               *)
THEOREM InductiveInvariant == Spec => []IInv
<1>1. Init => IInv
  BY InitIInv
<1>2. IInv /\ [Next]_vars => IInv'
  BY NextStep
<1> QED BY <1>1, <1>2, PTL DEF Spec

(* The types follow: a group whose chunks are not all there has fewer than *)
(* all.                                                                    *)
LEMMA TypeFromIInv ==
  ASSUME IInv PROVE FramingTypeOK
<1>1. /\ MessagesOK(messages, groupCounter) /\ NumbersOK
      /\ DOMAIN partial = Apps /\ \A app \in Apps : GroupsOK(messages, app, partial[app])
      /\ HeardOK(messages, heard)
  BY DEF IInv
<1>2. ASSUME NEW m \in DOMAIN messages
      PROVE  /\ messages[m].path \in Path
             /\ messages[m].status \in {"refused", "sending", "sent", "failed", "oversize"}
  BY <1>1 DEF MessagesOK, MessageOK
<1>3. groupCounter \in Nat /\ counter \in Nat
  BY <1>1 DEF MessagesOK, NumbersOK
<1>4. ASSUME NEW app \in DOMAIN partial
      PROVE  /\ Len(partial[app]) <= MAX_GROUPS
             /\ \A i \in DOMAIN partial[app] :
                   Cardinality(DOMAIN partial[app][i].chunks) \in 1 .. partial[app][i].total - 1
  <2>1. GroupsOK(messages, app, partial[app])
    BY <1>1
  <2>2. ASSUME NEW i \in DOMAIN partial[app]
        PROVE  Cardinality(DOMAIN partial[app][i].chunks) \in 1 .. partial[app][i].total - 1
    <3>1. PICK g, t, D : g = partial[app][i] /\ t = g.total /\ D = DOMAIN g.chunks
      OBVIOUS
    <3>2. PICK m : GroupOf(messages, app, g, m)
      BY <2>1, <3>1 DEF GroupsOK
    <3>3. /\ m \in DOMAIN messages /\ Split(messages[m]) /\ t = messages[m].total
          /\ D # 0 .. t - 1 /\ D \subseteq 0 .. t - 1
      BY <3>1, <3>2 DEF GroupOf, Holds
    <3>4. D # {}
      BY <2>1, <3>1 DEF GroupsOK
    <3>5. messages[m].total > 1 /\ t \in Nat \ {0}
      <4>1. IsSeq(messages) /\ MessageOK(m, messages[m])
        BY <1>1, <3>3 DEF MessagesOK
      <4>2. m \in Nat
        <5>1. DOMAIN messages = 1 .. Len(messages)
          BY <4>1, SeqIs
        <5> QED BY <3>3, <5>1
      <4>3. messages[m].total \in Nat \ {0}
        BY <4>1, <4>2, MessageIs
      <4> QED BY <3>3, <4>3, SplitIs
    <3>6. Cardinality(D) \in Nat /\ Cardinality(D) < t /\ Cardinality(D) # 0
      BY <3>3, <3>4, <3>5, FullCount
    <3>7. Cardinality(D) \in 1 .. t - 1
      BY <3>5, <3>6
    <3> QED BY <3>1, <3>7
  <2> QED BY <2>1, <2>2 DEF GroupsOK
<1>5. \A h \in heard : h[1] \in DOMAIN messages
  BY <1>1 DEF HeardOK
<1>6. last \subseteq -HALF .. HALF - 1
  <2>1. lastNumber \in Nat /\ (last = {} \/ last = {Signed(lastNumber)})
    BY <1>1 DEF NumbersOK
  <2> QED BY <2>1, SignedIsCongruent
<1> QED BY <1>2, <1>3, <1>4, <1>5, <1>6 DEF FramingTypeOK

(* A message that is cut and not heard has a group that lacks a piece, or  *)
(* none.                                                                   *)
LEMMA CompleteFromIInv ==
  ASSUME IInv PROVE CompleteIsHeard
<1> SUFFICES ASSUME NEW m \in DOMAIN messages, arrived[m] = 0 .. messages[m].total - 1
             PROVE  IsHeard(heard, m)
  BY DEF CompleteIsHeard, IsHeard
<1>1. /\ MessagesOK(messages, groupCounter) /\ ArrivedOK(messages, arrived, heard, partial)
      /\ \A app \in Apps : GroupsOK(messages, app, partial[app])
  BY DEF IInv
<1>2. IsSeq(messages) /\ MessageOK(m, messages[m])
  BY <1>1 DEF MessagesOK
<1>3. m \in Nat
  <2>1. DOMAIN messages = 1 .. Len(messages)
    BY <1>2, SeqIs
  <2> QED BY <2>1
<1>4. messages[m].total \in Nat \ {0}
  BY <1>2, <1>3, MessageIs
<1>5. 0 \in arrived[m]
  BY <1>4
<1>6. CASE ~Sendable(messages[m])
  BY <1>1, <1>5, <1>6 DEF ArrivedOK
<1>7. CASE messages[m].total = 1
  BY <1>1, <1>5, <1>7 DEF ArrivedOK
<1>8. CASE Split(messages[m])
  <2> SUFFICES ASSUME ~IsHeard(heard, m) PROVE FALSE
    OBVIOUS
  <2>1. PICK app, gs, id : app = App(messages[m].path) /\ gs = partial[app]
        /\ id = messages[m].group
    OBVIOUS
  <2>2. arrived[m] = HeldOf(gs, id)
    BY <1>1, <1>8, <2>1 DEF ArrivedOK
  <2>3. GroupsOK(messages, app, gs)
    BY <1>1, <1>8, <2>1, SplitIs
  <2>4. PICK j \in DOMAIN gs : gs[j].group = id
    BY <1>5, <2>2 DEF HeldOf
  <2>5. PICK k : GroupOf(messages, app, gs[j], k)
    BY <2>3 DEF GroupsOK
  <2>6. PICK g : g = gs[j]
    OBVIOUS
  <2>7. GroupOf(messages, app, g, m)
    BY <1>1, <1>8, <2>1, <2>4, <2>5, <2>6, GroupIsOf
  <2>8. /\ DOMAIN g.chunks # 0 .. g.total - 1 /\ g.total = messages[m].total
        /\ DOMAIN g.chunks \subseteq 0 .. g.total - 1
    BY <2>7 DEF GroupOf, Holds
  <2>9. HeldOf(gs, id) = DOMAIN g.chunks
    <3>1. Distinct(gs) /\ DOMAIN gs[j].chunks \subseteq Nat
      BY <1>4, <2>3, <2>6, <2>8 DEF GroupsOK
    <3> QED BY <2>4, <2>6, <3>1, HeldIs
  <2> QED BY <2>2, <2>8, <2>9
<1> QED BY <1>6, <1>7, <1>8 DEF Split

(* Every part of the state has its shape, no Reassembler has more groups   *)
(* than MAX_GROUPS, and none is whole.                                     *)
THEOREM FramingTypes == Spec => []FramingTypeOK
<1>1. IInv => FramingTypeOK
  BY TypeFromIInv
<1> QED BY <1>1, InductiveInvariant, PTL

(* What the reader speaks or lists is the text written, character by       *)
(* character, whatever is lost, cut short, reordered or sent again.        *)
THEOREM HeardIsWritten == Spec => []OnlyWhatWasWritten
<1>1. IInv => OnlyWhatWasWritten
  <2> SUFFICES ASSUME IInv, NEW h \in heard PROVE h[2] = messages[h[1]].text
    BY DEF OnlyWhatWasWritten
  <2>1. h = <<h[1], messages[h[1]].text>>
    BY DEF IInv, HeardOK
  <2> QED BY <2>1
<1> QED BY <1>1, InductiveInvariant, PTL

(* A message whose every fragment has come to one group that was neither   *)
(* evicted nor expired has been spoken or listed.                          *)
THEOREM CompleteMessagesAreHeard == Spec => []CompleteIsHeard
<1>1. IInv => CompleteIsHeard
  BY CompleteFromIInv
<1> QED BY <1>1, InductiveInvariant, PTL

(* No payload that is cut on any of the three paths is too long for its    *)
(* frame.                                                                  *)
THEOREM EveryCutFits == Spec => []CutsFit
<1>1. IInv => CutsFit
  BY DEF IInv, MessagesOK, MessageOK, CutsFit
<1> QED BY <1>1, InductiveInvariant, PTL

(* The validator tells the next frame from one after a gap, and calls no   *)
(* later frame a duplicate, at the wrap and at half of it too.             *)
THEOREM TrueVerdicts == Spec => []VerdictsAreTrue
<1>1. IInv => VerdictsAreTrue
  BY DEF IInv
<1> QED BY <1>1, InductiveInvariant, PTL
=============================================================================
