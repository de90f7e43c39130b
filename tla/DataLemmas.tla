------------------------------ MODULE DataLemmas ------------------------------
(***************************************************************************)
(* Facts about numbers, sequences and folds that the proofs about several  *)
(* components need.  Each stands for an induction, which is done here by   *)
(* the least element of a set of numbers.                                  *)
(***************************************************************************)
EXTENDS Integers, Sequences, SequencesExt, FiniteSetTheorems, SequenceTheorems, TLAPS

\* Every set of numbers that is not empty has a smallest element.
LEMMA Smallest ==
  ASSUME NEW T \in SUBSET Nat, T # {}
  PROVE  \E m \in T : \A k \in T : m <= k
<1> DEFINE R == {ss \in Nat \X Nat : ss[1] < ss[2]}
<1>1. IsWellFoundedOn(R, Nat)
  BY NatLessThanWellFounded DEF OpToRel
<1>2. \A x, y \in Nat : x < y => <<x, y>> \in R
  OBVIOUS
<1> HIDE DEF R
<1>3. PICK x \in T : \A y \in T : <<y, x>> \notin R
  BY <1>1, WFMin
<1>4. ASSUME NEW y \in T PROVE x <= y
  <2>1. ~(y < x)
    BY <1>2, <1>3
  <2>2. QED
    BY <2>1
<1>5. QED
  BY <1>4

\* A set of numbers up to n that is not empty has a largest element.
LEMMA Largest ==
  ASSUME NEW n \in Nat, NEW S \in SUBSET (1..n), S # {}
  PROVE  \E m \in S : \A k \in S : k <= m
<1> DEFINE T == {n - k : k \in S}
<1>1. T \in SUBSET Nat /\ T # {}
  <2>1. \A k \in S : n - k \in T /\ n - k \in Nat
    OBVIOUS
  <2>2. QED
    BY <2>1
<1>2. PICK t \in T : \A u \in T : t <= u
  BY <1>1, Smallest
<1>3. PICK m \in S : t = n - m
  BY <1>2
<1>4. ASSUME NEW k \in S PROVE k <= m
  <2>1. n - m <= n - k
    BY <1>2, <1>3
  <2>2. QED
    BY <2>1
<1>5. QED
  BY <1>4

\* What holds of 1 and passes from each number to the next holds of all up to n.
LEMMA UpTo ==
  ASSUME NEW n \in Nat, NEW T, 1 \in T,
         \A k \in 1..n - 1 : k \in T => k + 1 \in T
  PROVE  1..n \subseteq T
<1> DEFINE Out == {k \in Nat : k \in 1..n /\ k \notin T}
<1>1. SUFFICES ASSUME Out # {} PROVE FALSE
  OBVIOUS
<1>2. PICK m \in Out : \A k \in Out : m <= k
  BY <1>1, Smallest
<1>3. m \in 1..n /\ m \notin T /\ m # 1
  BY <1>2
<1>4. m - 1 \in 1..n - 1 /\ m - 1 \notin Out
  BY <1>2, <1>3
<1>5. QED
  BY <1>3, <1>4

\* The largest element is the one that no other exceeds.
LEMMA MaxIs ==
  ASSUME NEW S \in SUBSET Nat, NEW m \in S, \A k \in S : k <= m
  PROVE  Max(S) = m
<1>1. \A x \in S : (\A y \in S : x >= y) => x = m
  <2>1. ASSUME NEW x \in S, \A y \in S : x >= y PROVE x = m
    <3>1. x \in Nat /\ m \in Nat /\ x >= m /\ x <= m
      BY <2>1
    <3>2. QED
      BY <3>1
  <2>2. QED
    BY <2>1
<1>2. \A y \in S : m >= y
  <2>1. TAKE y \in S
  <2>2. y \in Nat /\ m \in Nat /\ y <= m
    OBVIOUS
  <2>3. QED
    BY <2>2
<1>3. QED
  BY <1>1, <1>2 DEF Max

\* Min is the smallest element of a set of numbers.
LEMMA MinIs ==
  ASSUME NEW S \in SUBSET Nat, S # {}
  PROVE  Min(S) \in S /\ \A k \in S : Min(S) <= k
<1>1. \E m \in S : \A k \in S : m <= k
  BY Smallest
<1>2. QED
  BY <1>1 DEF Min

-----------------------------------------------------------------------------
(* Sequences. *)

\* A function whose domain is the numbers up to n is a sequence of n elements.
LEMMA SequenceOf ==
  ASSUME NEW S, NEW n \in Nat, NEW f \in [1..n -> S]
  PROVE  f \in Seq(S) /\ Len(f) = n /\ DOMAIN f = 1..n
<1>1. f \in Seq(S)
  BY SeqDef
<1>2. DOMAIN f = 1..n
  OBVIOUS
<1>3. QED
  BY <1>1, <1>2

\* The elements of a sequence with one more.
LEMMA AppendedSet ==
  ASSUME NEW S, NEW s \in Seq(S), NEW x
  PROVE  ToSet(Append(s, x)) = ToSet(s) \cup {x}
<1> DEFINE t == Append(s, x)
<1>1. /\ Len(s) \in Nat /\ DOMAIN s = 1..Len(s) /\ DOMAIN t = 1..Len(s) + 1
      /\ t[Len(s) + 1] = x /\ \A i \in 1..Len(s) : t[i] = s[i]
  <2>1. s \in Seq(S \cup {x}) /\ x \in S \cup {x}
    BY SeqDef
  <2>2. QED
    BY <2>1
<1>2. /\ \A i \in 1..Len(s) + 1 : i \in 1..Len(s) \/ i = Len(s) + 1
      /\ \A i \in 1..Len(s) : i \in 1..Len(s) + 1
      /\ Len(s) + 1 \in 1..Len(s) + 1
  BY <1>1
<1> HIDE DEF t
<1>3. ToSet(t) = ToSet(s) \cup {x}
  BY <1>1, <1>2 DEF ToSet
<1>4. QED
  BY <1>3 DEF t

-----------------------------------------------------------------------------
(* FlattenSeq. *)

\* f[i] is the first i sequences joined, for all i up to k.
Joins(seqs, f, k) ==
  \A i \in 1..k : f[i] = IF i = 1 THEN seqs[i] ELSE f[i-1] \o seqs[i]

\* There is such a function, and its values stay in a set that holds the sequences and
\* what they give when they are joined.
LEMMA JoinsExist ==
  ASSUME NEW T, NEW seqs \in Seq(T), seqs # <<>>,
         \A s, t \in T : s \o t \in T
  PROVE  \E f \in [1..Len(seqs) -> T] : Joins(seqs, f, Len(seqs))
<1> DEFINE n == Len(seqs)
           Upto == {k \in 1..n : \E f \in [1..k -> T] : Joins(seqs, f, k)}
<1>1. n \in Nat \ {0} /\ \A i \in 1..n : seqs[i] \in T
  OBVIOUS
<1>2. 1 \in Upto
  <2> DEFINE f == [i \in 1..1 |-> seqs[i]]
  <2>1. f \in [1..1 -> T] /\ Joins(seqs, f, 1)
    BY <1>1 DEF Joins
  <2> HIDE DEF f
  <2>2. QED
    BY <1>1, <2>1
<1>3. ASSUME NEW k \in 1..n - 1, k \in Upto PROVE k + 1 \in Upto
  <2>1. PICK f \in [1..k -> T] : Joins(seqs, f, k)
    BY <1>3
  <2> DEFINE g == [i \in 1..k + 1 |-> IF i <= k THEN f[i] ELSE f[k] \o seqs[k + 1]]
  <2>2. k \in Nat /\ k >= 1 /\ k + 1 \in 1..n
    BY <1>1
  <2>3. g \in [1..k + 1 -> T]
    BY <1>1, <2>1, <2>2
  <2>4. ASSUME NEW i \in 1..k + 1
        PROVE  g[i] = IF i = 1 THEN seqs[i] ELSE g[i-1] \o seqs[i]
    <3>1. CASE i <= k
      <4>1. i \in 1..k
        BY <3>1, <2>2
      <4>2. f[i] = IF i = 1 THEN seqs[i] ELSE f[i-1] \o seqs[i]
        BY <2>1, <4>1 DEF Joins
      <4>3. g[i] = f[i] /\ (i # 1 => g[i-1] = f[i-1])
        BY <2>2, <4>1
      <4> HIDE DEF g
      <4>4. QED
        BY <4>2, <4>3
    <3>2. CASE i = k + 1
      BY <2>2, <3>2
    <3>3. QED
      BY <3>1, <3>2, <2>2
  <2> HIDE DEF g
  <2>5. Joins(seqs, g, k + 1)
    BY <2>4 DEF Joins
  <2>6. QED
    BY <2>2, <2>3, <2>5
<1>4. 1..n \subseteq Upto
  <2> HIDE DEF Upto
  <2>1. QED
    BY <1>1, <1>2, <1>3, UpTo
<1>5. n \in Upto
  <2> HIDE DEF Upto
  <2>1. QED
    BY <1>1, <1>4
<1>6. QED
  BY <1>5

\* FlattenSeq is the last value of such a function.
LEMMA FlattenJoins ==
  ASSUME NEW T, NEW seqs \in Seq(T), seqs # <<>>,
         \A s, t \in T : s \o t \in T
  PROVE  \E g : g \in [1..Len(seqs) -> T] /\ Joins(seqs, g, Len(seqs))
                /\ FlattenSeq(seqs) = g[Len(seqs)]
<1>1. PICK n : n = Len(seqs)
  OBVIOUS
<1>2. n \in Nat \ {0} /\ \A i \in 1..n : seqs[i] \in T
  BY <1>1
<1> DEFINE Fits(f) == f = [i \in 1..n |-> IF i = 1 THEN seqs[i] ELSE f[i-1] \o seqs[i]]
<1>3. \E f : Fits(f)
  <2>1. PICK f \in [1..n -> T] : Joins(seqs, f, n)
    BY <1>1, JoinsExist
  <2>2. Fits(f)
    BY <2>1 DEF Joins
  <2>3. QED
    BY <2>2
<1>4. PICK g : g = CHOOSE f : Fits(f)
  OBVIOUS
<1>5. Fits(g)
  <2> HIDE DEF Fits
  <2>1. QED
    BY <1>3, <1>4
<1>6. FlattenSeq(seqs) = g[n]
  BY <1>1, <1>2, <1>4 DEF FlattenSeq
<1>7. Joins(seqs, g, n)
  BY <1>5 DEF Joins
<1> DEFINE In == {k \in 1..n : g[k] \in T}
<1>8. 1 \in In
  BY <1>2, <1>7 DEF Joins
<1>9. ASSUME NEW k \in 1..n - 1, k \in In PROVE k + 1 \in In
  <2>1. k + 1 \in 1..n /\ k + 1 # 1 /\ (k + 1) - 1 = k
    BY <1>2
  <2>2. g[k + 1] = g[k] \o seqs[k + 1]
    BY <1>7, <2>1 DEF Joins
  <2>3. g[k] \in T /\ seqs[k + 1] \in T
    BY <1>2, <1>9, <2>1
  <2>4. QED
    BY <2>1, <2>2, <2>3
<1>10. 1..n \subseteq In
  <2> HIDE DEF In
  <2>1. QED
    BY <1>2, <1>8, <1>9, UpTo
<1>11. g \in [1..n -> T]
  BY <1>5, <1>10
<1>12. QED
  BY <1>1, <1>6, <1>7, <1>11

\* What every one of the sequences is, and what is kept when they are joined, the
\* whole is too.
LEMMA FlattenClosed ==
  ASSUME NEW T, NEW seqs \in Seq(T), seqs # <<>>,
         \A s, t \in T : s \o t \in T
  PROVE  FlattenSeq(seqs) \in T
<1>1. PICK n : n = Len(seqs) /\ n \in Nat \ {0}
  OBVIOUS
<1>2. \E g : g \in [1..n -> T] /\ Joins(seqs, g, n) /\ FlattenSeq(seqs) = g[n]
  BY <1>1, FlattenJoins
<1>3. QED
  BY <1>1, <1>2

\* The elements of two sequences joined are those of both.
LEMMA ToSetJoined ==
  ASSUME NEW S, NEW s \in Seq(S), NEW t \in Seq(S)
  PROVE  ToSet(s) \cup ToSet(t) = ToSet(s \o t)
<1>1. \A i \in DOMAIN s : i \in DOMAIN (s \o t) /\ (s \o t)[i] = s[i]
  OBVIOUS
<1>2. \A i \in DOMAIN t : Len(s) + i \in DOMAIN (s \o t) /\ (s \o t)[Len(s) + i] = t[i]
  OBVIOUS
<1>3. ASSUME NEW k \in DOMAIN (s \o t) PROVE (s \o t)[k] \in ToSet(s) \cup ToSet(t)
  <2>1. CASE k \in DOMAIN s
    BY <1>1, <2>1 DEF ToSet
  <2>2. CASE k \notin DOMAIN s
    <3>1. k - Len(s) \in DOMAIN t /\ (s \o t)[k] = t[k - Len(s)]
      BY <2>2
    <3>2. QED
      BY <3>1 DEF ToSet
  <2>3. QED
    BY <2>1, <2>2
<1>4. QED
  BY <1>1, <1>2, <1>3 DEF ToSet

\* Nothing is lost: the elements of each of the sequences are elements of the whole.
LEMMA FlattenHolds ==
  ASSUME NEW S, NEW seqs \in Seq(Seq(S)), seqs # <<>>
  PROVE  \A i \in DOMAIN seqs : ToSet(seqs[i]) \subseteq ToSet(FlattenSeq(seqs))
<1>1. PICK n : n = Len(seqs) /\ n \in Nat \ {0}
  OBVIOUS
<1>2. PICK g : g \in [1..n -> Seq(S)] /\ Joins(seqs, g, n) /\ FlattenSeq(seqs) = g[n]
  <2>1. \A s, t \in Seq(S) : s \o t \in Seq(S)
    OBVIOUS
  <2>2. QED
    BY <1>1, <2>1, FlattenJoins
<1> DEFINE In == {k \in 1..n : \A i \in 1..k : ToSet(seqs[i]) \subseteq ToSet(g[k])}
<1>3. 1 \in In
  <2>1. 1 \in 1..n
    BY <1>1
  <2>2. g[1] = seqs[1]
    BY <1>2, <2>1 DEF Joins
  <2>3. ASSUME NEW i \in 1..1 PROVE ToSet(seqs[i]) \subseteq ToSet(g[1])
    <3>1. i = 1
      OBVIOUS
    <3>2. QED
      BY <2>2, <3>1
  <2>4. QED
    BY <2>1, <2>3
<1>4. ASSUME NEW k \in 1..n - 1, k \in In PROVE k + 1 \in In
  <2>1. k + 1 \in 1..n /\ k + 1 # 1 /\ (k + 1) - 1 = k /\ k \in 1..n
    BY <1>1
  <2>2. g[k + 1] = g[k] \o seqs[k + 1] /\ g[k] \in Seq(S) /\ seqs[k + 1] \in Seq(S)
    <3>1. g[k + 1] = g[(k + 1) - 1] \o seqs[k + 1]
      BY <1>2, <2>1 DEF Joins
    <3>2. g[k] \in Seq(S)
      BY <1>2, <2>1
    <3>3. seqs[k + 1] \in Seq(S)
      BY <1>1, <2>1
    <3>4. QED
      BY <2>1, <3>1, <3>2, <3>3
  <2>3. ToSet(g[k]) \cup ToSet(seqs[k + 1]) \subseteq ToSet(g[k + 1])
    BY <2>2, ToSetJoined
  <2>4. QED
    BY <1>4, <2>1, <2>3
<1>5. 1..n \subseteq In
  <2> HIDE DEF In
  <2>1. QED
    BY <1>1, <1>3, <1>4, UpTo
<1>6. QED
  BY <1>1, <1>2, <1>5
===============================================================================
