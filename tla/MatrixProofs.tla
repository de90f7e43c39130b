----------------------------- MODULE MatrixProofs -----------------------------
(***************************************************************************)
(* The theorems about the matrix generator and the tables it reads: for    *)
(* every version of strace_data.h and any number of lines.                 *)
(***************************************************************************)
EXTENDS Matrix, DataLemmas

(***************************************************************************)
(* The invariant.                                                          *)
(***************************************************************************)

\* What parse_source keeps of a row.
Rows == [number : Nat, types : Seq(ArgTypes), line : Nat]
RowOf(i) == [number |-> source[i].number, types |-> Declared(source[i]), line |-> i]

\* The rows of a that have been read.
Parsed(a) == {i \in RowLines(a) : i < line}

\* The rows read are those of the file so far, all well formed.
RowsInv ==
  \A a \in ABIs :
    /\ ToSet(rows[a]) = {RowOf(i) : i \in Parsed(a)}
    /\ \A i \in Parsed(a) : WellFormed(source[i])

\* The numbers in the ranges of a.
Covered(a) == UNION {r[1]..r[2] : r \in ToSet(ranges[a])}

\* No range is empty, and no two of them could be joined.
Apart(a) ==
  /\ \A i \in DOMAIN ranges[a] : ranges[a][i][1] <= ranges[a][i][2]
  /\ \A i, j \in DOMAIN ranges[a] : i < j => ranges[a][i][2] + 1 < ranges[a][j][1]

\* The table of a has been accepted and its gaps are compressed.
Calculated(a) == Sound(a) /\ Covered(a) = Gaps(a)

\* The gaps of the table at hand are in a range, in the open one or still to come.
CompressInv ==
  /\ Sound(abi)
  /\ open[1] <= open[2]
  /\ rest \subseteq Gaps(abi) /\ \A n \in rest : open[2] < n
  /\ Covered(abi) \cup open[1]..open[2] \cup rest = Gaps(abi)
  /\ \A i \in DOMAIN ranges[abi] : ranges[abi][i][2] + 1 < open[1]

\* What has been done at each place.
PhaseInv ==
  /\ pc \in {"parse", "calculate"} => ranges[abi] = <<>>
  /\ abi = "x86_64" => ranges["i386"] = <<>>
  /\ pc = "parse" => abi = "x86_64"
  /\ pc \notin {"parse", "raised"} => line = Len(source) + 1
  /\ pc \in {"calculate", "compress"} /\ abi = "i386" => Calculated("x86_64")
  /\ pc \in {"verify", "written"} => \A a \in ABIs : Calculated(a)
  /\ IF pc = "compress" THEN CompressInv ELSE rest = {}
  /\ \A a \in ABIs : Apart(a)

Kinds ==
  /\ source \in Seq(SourceLines)
  /\ pc \in {"parse", "calculate", "compress", "verify", "raised", "written"}
  /\ line \in 1..Len(source) + 1
  /\ rows \in [ABIs -> Seq(Rows)]
  /\ sizes \in [ABIs -> Nat \cup {NoSize}]
  /\ abi \in ABIs
  /\ open \in Nat \X Nat
  /\ rest \in SUBSET Nat
  /\ ranges \in [ABIs -> Seq(Nat \X Nat)]

Inv == Kinds /\ RowsInv /\ PhaseInv

(***************************************************************************)
(* Lines and rows.                                                         *)
(***************************************************************************)

\* The fields of the lines of a file.
LEMMA LineFields ==
  ASSUME Kinds, NEW i \in 1..Len(source)
  PROVE  /\ source[i].kind \in {"row", "size", "other"}
         /\ source[i].kind = "row" =>
              /\ source[i].abi \in ABIs /\ source[i].number \in Nat
              /\ source[i].count \in Nat /\ source[i].fields \in Seq(ArgTypes)
         /\ source[i].kind = "size" => source[i].abi \in ABIs /\ source[i].size \in Nat
<1>1. source[i] \in SourceLines
  BY DEF Kinds
<1>2. QED
  BY <1>1 DEF SourceLines

\* The declared arguments of a row are argument types; those of a well-formed one are
\* its first fields.
LEMMA DeclaredTypes ==
  ASSUME NEW l, l.fields \in Seq(ArgTypes), l.count \in Nat
  PROVE  /\ Declared(l) \in Seq(ArgTypes)
         /\ WellFormed(l) =>
              \A k \in 1..l.count : k <= MaxArgs /\ l.fields[k] \notin {"0", "NONE"}
<1> DEFINE n == IF l.count < Len(l.fields) THEN l.count ELSE Len(l.fields)
<1>1. n \in 0..Len(l.fields) /\ Declared(l) = SubSeq(l.fields, 1, n)
  BY DEF Declared
<1> HIDE DEF n
<1>2. /\ SubSeq(l.fields, 1, n) \in Seq(ArgTypes)
      /\ Len(SubSeq(l.fields, 1, n)) = n
      /\ \A k \in 1..n : SubSeq(l.fields, 1, n)[k] = l.fields[k]
  BY <1>1
<1>3. ASSUME WellFormed(l), NEW k \in 1..l.count
      PROVE  k <= MaxArgs /\ l.fields[k] \notin {"0", "NONE"}
  <2>1. l.count <= MaxArgs /\ Len(l.fields) = MaxArgs
    BY <1>3 DEF WellFormed
  <2>2. n = l.count
    BY <2>1 DEF n
  <2>3. k \in 1..n /\ k <= MaxArgs
    BY <2>1, <2>2, MatrixAssumption
  <2>4. k \in DOMAIN Declared(l) /\ Declared(l)[k] = l.fields[k]
    BY <1>1, <1>2, <2>3
  <2>5. Declared(l)[k] \in ToSet(Declared(l))
    BY <2>4 DEF ToSet
  <2>6. QED
    BY <1>3, <2>3, <2>4, <2>5 DEF WellFormed
<1>4. QED
  BY <1>1, <1>2, <1>3

\* Sorting keeps the rows, and puts them in the order of their numbers.
LEMMA SortedKeeps ==
  ASSUME NEW s \in Seq(Rows)
  PROVE  /\ Sorted(s) \in Seq(Rows)
         /\ ToSet(Sorted(s)) = ToSet(s)
         /\ \A k, l \in 1..Len(s) : k < l => Sorted(s)[k].number <= Sorted(s)[l].number
<1> DEFINE n == Len(s)
           rank == [i \in 1..n |-> Cardinality(UpToRow(s, i))]
           pick(k) == CHOOSE i \in 1..n : rank[i] = k
<1>1. n \in Nat /\ DOMAIN s = 1..n /\ \A i \in 1..n : s[i] \in Rows /\ s[i].number \in Nat
  <2>1. n \in Nat /\ DOMAIN s = 1..n /\ \A i \in 1..n : s[i] \in Rows
    OBVIOUS
  <2>2. \A r \in Rows : r.number \in Nat
    BY DEF Rows
  <2>3. QED
    BY <2>1, <2>2
<1>2. ASSUME NEW i \in 1..n
      PROVE  /\ i \in UpToRow(s, i) /\ UpToRow(s, i) \subseteq 1..n
             /\ IsFiniteSet(UpToRow(s, i)) /\ rank[i] \in 1..n
  <2>1. i \in UpToRow(s, i) /\ UpToRow(s, i) \subseteq 1..n
    BY <1>1 DEF UpToRow
  <2>2. IsFiniteSet(1..n) /\ Cardinality(1..n) = n
    BY <1>1, FS_Interval
  <2>3. IsFiniteSet(UpToRow(s, i)) /\ Cardinality(UpToRow(s, i)) <= n
    BY <2>1, <2>2, FS_Subset
  <2>4. Cardinality(UpToRow(s, i)) \in Nat /\ Cardinality(UpToRow(s, i)) # 0
    BY <2>1, <2>3, FS_CardinalityType, FS_EmptySet
  <2>5. QED
    BY <1>1, <2>1, <2>3, <2>4
<1>3. ASSUME NEW i \in 1..n, NEW j \in 1..n, i # j, j \notin UpToRow(s, i)
      PROVE  rank[i] < rank[j]
  <2>1. s[i].number < s[j].number \/ (s[i].number = s[j].number /\ i < j)
    BY <1>1, <1>3 DEF UpToRow
  <2>2. UpToRow(s, i) \subseteq UpToRow(s, j)
    BY <1>1, <2>1 DEF UpToRow
  <2>3. UpToRow(s, i) # UpToRow(s, j)
    BY <1>2, <1>3
  <2>4. /\ Cardinality(UpToRow(s, i)) <= Cardinality(UpToRow(s, j))
        /\ Cardinality(UpToRow(s, i)) # Cardinality(UpToRow(s, j))
    BY <1>2, <2>2, <2>3, FS_Subset
  <2>5. rank[i] \in Nat /\ rank[j] \in Nat
    BY <1>2
  <2>6. QED
    BY <2>4, <2>5
<1>4. ASSUME NEW i \in 1..n, NEW j \in 1..n, i # j PROVE rank[i] # rank[j]
  <2>1. j \notin UpToRow(s, i) \/ i \notin UpToRow(s, j)
    BY <1>1, <1>4 DEF UpToRow
  <2>2. rank[i] < rank[j] \/ rank[j] < rank[i]
    BY <1>3, <1>4, <2>1
  <2>3. rank[i] \in Nat /\ rank[j] \in Nat
    BY <1>2
  <2>4. QED
    BY <2>2, <2>3
<1>5. \A k \in 1..n : \E i \in 1..n : rank[i] = k
  <2>1. rank \in [1..n -> 1..n]
    BY <1>2
  <2>2. rank \in Injection(1..n, 1..n)
    BY <1>4, <2>1 DEF Injection, IsInjective
  <2>3. IsFiniteSet(1..n)
    BY <1>1, FS_Interval
  <2>4. rank \in Surjection(1..n, 1..n)
    BY <2>2, <2>3, FS_Injection
  <2>5. QED
    BY <2>4 DEF Surjection
<1>6. ASSUME NEW k \in 1..n
      PROVE  pick(k) \in 1..n /\ rank[pick(k)] = k
  BY <1>5
<1>7. DOMAIN Sorted(s) = 1..n /\ \A k \in 1..n : Sorted(s)[k] = s[pick(k)]
  BY <1>1 DEF Sorted
<1>8. Sorted(s) \in Seq(Rows) /\ Len(Sorted(s)) = n
  <2>1. Sorted(s) \in [1..n -> Rows]
    <3>1. Sorted(s) = [k \in 1..n |-> s[CHOOSE i \in 1..n : Cardinality(UpToRow(s, i)) = k]]
      BY <1>1 DEF Sorted
    <3>2. \A k \in 1..n : Sorted(s)[k] \in Rows
      BY <1>1, <1>6, <1>7
    <3> HIDE DEF rank, pick
    <3>3. QED
      BY <3>1, <3>2
  <2>2. QED
    BY <1>1, <2>1, SequenceOf
<1> HIDE DEF pick
<1>9. ToSet(Sorted(s)) = ToSet(s)
  <2>1. ASSUME NEW k \in 1..n PROVE Sorted(s)[k] \in ToSet(s)
    BY <1>1, <1>6, <1>7 DEF ToSet
  <2>2. ASSUME NEW i \in 1..n PROVE s[i] \in ToSet(Sorted(s))
    <3>1. rank[i] \in 1..n
      BY <1>2
    <3>2. pick(rank[i]) = i
      BY <1>4, <1>6, <3>1
    <3>3. Sorted(s)[rank[i]] = s[i]
      BY <1>7, <3>1, <3>2
    <3> HIDE DEF rank
    <3>4. QED
      BY <1>7, <3>1, <3>3 DEF ToSet
  <2>3. QED
    BY <1>1, <1>7, <2>1, <2>2 DEF ToSet
<1>10. ASSUME NEW k \in 1..n, NEW l \in 1..n, k < l
       PROVE  Sorted(s)[k].number <= Sorted(s)[l].number
  <2>1. pick(k) \in 1..n /\ pick(l) \in 1..n /\ rank[pick(k)] = k /\ rank[pick(l)] = l
    BY <1>6
  <2>2. SUFFICES ASSUME s[pick(l)].number < s[pick(k)].number PROVE FALSE
    BY <1>1, <1>7, <2>1
  <2>3. pick(k) \notin UpToRow(s, pick(l)) /\ pick(k) # pick(l)
    BY <1>1, <2>1, <2>2 DEF UpToRow
  <2>4. rank[pick(l)] < rank[pick(k)]
    BY <1>3, <2>1, <2>3
  <2>5. QED
    BY <1>10, <2>1, <2>4
<1>11. QED
  BY <1>8, <1>9, <1>10

(***************************************************************************)
(* What the tables hold.                                                   *)
(***************************************************************************)

\* When the file has been read, the numbers kept are those of its rows.
LEMMA NumbersAre ==
  ASSUME Kinds, RowsInv, NEW a \in ABIs, line = Len(source) + 1
  PROVE  /\ RowLines(a) \subseteq 1..Len(source) /\ Parsed(a) = RowLines(a)
         /\ \A i \in RowLines(a) : source[i].number \in Nat
         /\ Numbers(a) = {source[i].number : i \in RowLines(a)}
<1>1. RowLines(a) \subseteq 1..Len(source) /\ Len(source) \in Nat
  BY DEF RowLines, Kinds
<1>2. Parsed(a) = RowLines(a)
  BY <1>1 DEF Parsed
<1>3. \A i \in RowLines(a) : source[i].number \in Nat
  BY <1>1, LineFields DEF RowLines
<1>4. ToSet(rows[a]) = {RowOf(i) : i \in RowLines(a)}
  BY <1>2 DEF RowsInv
<1>5. \A i : RowOf(i).number = source[i].number
  BY DEF RowOf
<1>6. Numbers(a) = {source[i].number : i \in RowLines(a)}
  BY <1>4, <1>5 DEF Numbers
<1>7. QED
  BY <1>1, <1>2, <1>3, <1>6

\* A slot of the array is unknown exactly if no row has its number, and otherwise
\* holds a row of that number.
LEMMA SlotIs ==
  ASSUME Kinds, RowsInv, NEW a \in ABIs, line = Len(source) + 1, NEW n
  PROVE  /\ n \notin Numbers(a) => Slot(a, n) = Unknown
         /\ n \in Numbers(a) =>
              /\ Slot(a, n) \in RowLines(a) /\ source[Slot(a, n)].number = n
              /\ Slot(a, n) # Unknown
<1> DEFINE at == {i \in RowLines(a) : source[i].number = n}
<1>1. /\ RowLines(a) \subseteq 1..Len(source) /\ Len(source) \in Nat
      /\ Numbers(a) = {source[i].number : i \in RowLines(a)}
  BY NumbersAre DEF Kinds
<1>2. Slot(a, n) = IF at = {} THEN Unknown ELSE Max(at)
  BY DEF Slot
<1>3. n \notin Numbers(a) => at = {}
  BY <1>1
<1>4. ASSUME n \in Numbers(a) PROVE at # {} /\ Max(at) \in at /\ Max(at) # Unknown
  <2>1. at # {}
    BY <1>1, <1>4
  <2>2. at \in SUBSET (1..Len(source)) /\ at \in SUBSET Nat
    BY <1>1
  <2>3. PICK m \in at : \A k \in at : k <= m
    BY <1>1, <2>1, <2>2, Largest
  <2>4. Max(at) = m
    BY <2>2, <2>3, MaxIs
  <2>5. m # Unknown
    BY <2>2 DEF Unknown
  <2>6. QED
    BY <2>1, <2>4, <2>5
<1>5. QED
  BY <1>2, <1>3, <1>4

\* There are n numbers up to n.
LEMMA CountedUpTo ==
  ASSUME NEW n \in Nat
  PROVE  IsFiniteSet(1..n) /\ Cardinality(1..n) = n
BY FS_Interval

\* No two rows of an accepted table have the same number.
LEMMA OneRow ==
  ASSUME Kinds, RowsInv, NEW a \in ABIs, line = Len(source) + 1, Sound(a),
         NEW i \in RowLines(a), NEW j \in RowLines(a),
         source[i].number = source[j].number
  PROVE  i = j
<1> DEFINE n == Len(rows[a])
           f == [k \in 1..n |-> rows[a][k].number]
<1>1. rows[a] \in Seq(Rows) /\ n \in Nat /\ DOMAIN rows[a] = 1..n
  BY DEF Kinds
<1>2. f \in Surjection(1..n, Numbers(a))
  <2>1. \A k \in 1..n : rows[a][k] \in ToSet(rows[a])
    BY <1>1 DEF ToSet
  <2>2. f \in [1..n -> Numbers(a)]
    BY <2>1 DEF Numbers
  <2>3. \A m \in Numbers(a) : \E k \in 1..n : f[k] = m
    BY <1>1 DEF Numbers, ToSet
  <2>4. QED
    BY <2>2, <2>3 DEF Surjection
<1>3. f \in Injection(1..n, Numbers(a))
  <2>1. IsFiniteSet(1..n) /\ Cardinality(1..n) = n
    BY <1>1, CountedUpTo
  <2>2. Cardinality(Numbers(a)) = n
    BY DEF Sound
  <2>3. QED
    BY <1>2, <2>1, <2>2, FS_Surjection
<1>4. ToSet(rows[a]) = {RowOf(k) : k \in RowLines(a)}
  BY NumbersAre DEF RowsInv
<1>5. PICK k \in 1..n : rows[a][k] = RowOf(i)
  BY <1>1, <1>4 DEF ToSet
<1>6. PICK l \in 1..n : rows[a][l] = RowOf(j)
  BY <1>1, <1>4 DEF ToSet
<1>7. f[k] = f[l]
  BY <1>5, <1>6 DEF RowOf
<1>8. k = l
  BY <1>3, <1>7 DEF Injection, IsInjective
<1>9. RowOf(i).line = RowOf(j).line
  BY <1>5, <1>6, <1>8
<1>10. QED
  BY <1>9 DEF RowOf

(***************************************************************************)
(* The invariant holds at first, and each step keeps it.                   *)
(***************************************************************************)

\* The invariant holds before the first line is read.
LEMMA InvInit ==
  ASSUME Init PROVE Inv
<1>1. source \in Seq(SourceLines) /\ Len(source) \in Nat
  BY LinesAssumption DEF Init
<1>2. ranges[abi] = <<>> /\ ranges["i386"] = <<>> /\ \A a \in ABIs : ranges[a] = <<>>
  BY DEF Init, ABIs
<1>3. Kinds
  <2>1. line \in 1..Len(source) + 1
    BY <1>1 DEF Init
  <2>2. /\ rows \in [ABIs -> Seq(Rows)] /\ ranges \in [ABIs -> Seq(Nat \X Nat)]
        /\ sizes \in [ABIs -> Nat \cup {NoSize}]
    BY DEF Init
  <2>3. abi \in ABIs /\ open \in Nat \X Nat /\ rest \in SUBSET Nat
    BY DEF Init, ABIs
  <2>4. QED
    BY <1>1, <2>1, <2>2, <2>3 DEF Init, Kinds
<1>4. RowsInv
  <2>1. ASSUME NEW a \in ABIs PROVE ToSet(rows[a]) = {}
    BY DEF Init, ToSet
  <2>2. ASSUME NEW a \in ABIs PROVE Parsed(a) = {}
    BY <1>1 DEF Init, Parsed, RowLines
  <2>3. QED
    BY <2>1, <2>2 DEF RowsInv
<1>5. PhaseInv
  <2>1. \A a \in ABIs : Apart(a)
    BY <1>2 DEF Apart
  <2>2. QED
    BY <1>2, <2>1 DEF Init, PhaseInv
<1>6. QED
  BY <1>3, <1>4, <1>5 DEF Inv

\* What has been read stays read when the next line is no row.
LEMMA LinePassed ==
  ASSUME Kinds, RowsInv, line \in 1..Len(source), source[line].kind # "row",
         line' = line + 1, UNCHANGED <<source, rows>>
  PROVE  RowsInv'
<1>1. ASSUME NEW a \in ABIs PROVE Parsed(a)' = Parsed(a)
  <2>1. RowLines(a)' = RowLines(a) /\ line \notin RowLines(a)
    BY DEF RowLines
  <2>2. \A i \in RowLines(a) : i \in Int
    BY DEF RowLines, Kinds
  <2>3. line \in Int
    BY DEF Kinds
  <2>4. QED
    BY <2>1, <2>2, <2>3 DEF Parsed
<1>2. \A i : RowOf(i)' = RowOf(i)
  BY DEF RowOf, Declared
<1>3. QED
  BY <1>1, <1>2 DEF RowsInv, WellFormed, Declared

\* The next gap is the least of those to come.
LEMMA NextGap ==
  ASSUME Kinds, rest # {}
  PROVE  Min(rest) \in rest /\ Min(rest) \in Nat /\ \A n \in rest : Min(rest) <= n
BY MinIs DEF Kinds

\* A range that is closed joins the others.
LEMMA RangeAdded ==
  ASSUME Kinds, CompressInv, NEW a, a = abi, Apart(a),
         ranges' = [ranges EXCEPT ![a] = Append(@, open)]
  PROVE  /\ ranges' \in [ABIs -> Seq(Nat \X Nat)]
         /\ \A b \in ABIs \ {a} : ranges'[b] = ranges[b]
         /\ Covered(a)' = Covered(a) \cup open[1]..open[2]
         /\ Apart(a)'
         /\ \A i \in DOMAIN ranges'[a] : ranges'[a][i][2] <= open[2]
<1> DEFINE s == ranges[a]
           t == Append(s, open)
<1>1. s \in Seq(Nat \X Nat) /\ open \in Nat \X Nat /\ a \in ABIs
  BY DEF Kinds
<1>2. /\ t \in Seq(Nat \X Nat) /\ Len(t) = Len(s) + 1 /\ DOMAIN t = 1..Len(s) + 1
      /\ DOMAIN s = 1..Len(s) /\ Len(s) \in Nat
      /\ t[Len(s) + 1] = open
      /\ \A i \in 1..Len(s) : t[i] = s[i]
  BY <1>1
<1>3. /\ ranges' \in [ABIs -> Seq(Nat \X Nat)]
      /\ \A b \in ABIs \ {a} : ranges'[b] = ranges[b]
      /\ ranges'[a] = t
  BY <1>1, <1>2 DEF Kinds
<1>4. ToSet(t) = ToSet(s) \cup {open}
  <2>1. \A i \in 1..Len(s) + 1 : i \in 1..Len(s) \/ i = Len(s) + 1
    BY <1>2
  <2>2. \A i \in 1..Len(s) : i \in 1..Len(s) + 1
    BY <1>2
  <2>3. Len(s) + 1 \in 1..Len(s) + 1
    BY <1>2
  <2> HIDE DEF t
  <2>4. QED
    BY <1>2, <2>1, <2>2, <2>3 DEF ToSet
<1> HIDE DEF s, t
<1>5. Covered(a)' = Covered(a) \cup open[1]..open[2]
  <2>1. Covered(a)' = UNION {r[1]..r[2] : r \in ToSet(t)}
    <3>1. ToSet(ranges[a])' = ToSet(t)
      BY <1>3 DEF ToSet
    <3>2. QED
      BY <3>1 DEF Covered
  <2>2. Covered(a) = UNION {r[1]..r[2] : r \in ToSet(s)}
    BY DEF Covered, s
  <2>3. QED
    BY <1>4, <2>1, <2>2
<1>6. /\ \A i \in 1..Len(s) : s[i][1] <= s[i][2] /\ s[i][2] + 1 < open[1]
      /\ \A i, j \in 1..Len(s) : i < j => s[i][2] + 1 < s[j][1]
      /\ open[1] <= open[2] /\ open[1] \in Nat /\ open[2] \in Nat
      /\ \A i \in 1..Len(s) : s[i][2] \in Nat
  <2>1. DOMAIN ranges[a] = 1..Len(s) /\ s = ranges[a]
    BY <1>2 DEF s
  <2>2. \A i \in 1..Len(s) : s[i][1] <= s[i][2]
    BY <2>1 DEF Apart
  <2>3. \A i, j \in 1..Len(s) : i < j => s[i][2] + 1 < s[j][1]
    BY <2>1 DEF Apart
  <2>4. open[1] <= open[2] /\ \A i \in 1..Len(s) : s[i][2] + 1 < open[1]
    BY <2>1 DEF CompressInv
  <2>5. \A i \in 1..Len(s) : s[i] \in Nat \X Nat
    BY <1>1, <1>2
  <2>6. open[1] \in Nat /\ open[2] \in Nat /\ \A i \in 1..Len(s) : s[i][2] \in Nat
    BY <1>1, <2>5
  <2>7. QED
    BY <2>2, <2>3, <2>4, <2>6
<1>7. \A i \in 1..Len(s) + 1 : (i \in 1..Len(s) /\ t[i] = s[i]) \/ (i = Len(s) + 1 /\ t[i] = open)
  BY <1>2
<1>8. Apart(a)'
  <2>1. \A i \in 1..Len(s) + 1 : t[i][1] <= t[i][2]
    BY <1>6, <1>7
  <2>2. ASSUME NEW i \in 1..Len(s) + 1, NEW j \in 1..Len(s) + 1, i < j
        PROVE  t[i][2] + 1 < t[j][1]
    <3>1. i \in 1..Len(s) /\ t[i] = s[i]
      BY <1>2, <2>2
    <3>2. QED
      BY <1>6, <1>7, <2>2, <3>1
  <2>3. QED
    BY <1>2, <1>3, <2>1, <2>2 DEF Apart
<1>9. \A i \in 1..Len(s) + 1 : t[i][2] <= open[2]
  BY <1>6, <1>7
<1>10. QED
  BY <1>2, <1>3, <1>5, <1>8, <1>9

\* Where the table at hand and its neighbour are, once the first is done.
LEMMA NextTable ==
  ASSUME Kinds, PhaseInv, pc \in {"calculate", "compress"}, NextAbi,
         NEW a, a = abi, Calculated(a)',
         \A b \in ABIs \ {a} : ranges'[b] = ranges[b], \A b \in ABIs : Apart(b)',
         UNCHANGED <<source, line, rows, sizes>>, rest' = {}
  PROVE  PhaseInv'
<1>1. line' = Len(source)' + 1
  BY DEF PhaseInv
<1>2. abi \in ABIs /\ abi' = "i386" /\ "i386" \in ABIs /\ "x86_64" \in ABIs
  BY DEF Kinds, NextAbi, ABIs
<1>3. CASE a = "x86_64"
  <2>1. pc' = "calculate" /\ ranges'["i386"] = <<>>
    BY <1>2, <1>3 DEF NextAbi, PhaseInv
  <2>2. QED
    BY <1>1, <1>2, <1>3, <2>1 DEF PhaseInv
<1>4. CASE a = "i386"
  <2>1. pc' = "verify"
    BY <1>4 DEF NextAbi
  <2>2. Calculated("x86_64")'
    <3>1. Calculated("x86_64")
      BY <1>4 DEF PhaseInv
    <3>2. ranges'["x86_64"] = ranges["x86_64"]
      BY <1>4 DEF ABIs
    <3>3. QED
      BY <3>1, <3>2 DEF Calculated, Sound, Covered, Gaps, Numbers
  <2>3. \A b \in ABIs : Calculated(b)'
    BY <1>4, <2>2 DEF ABIs
  <2>4. QED
    BY <1>1, <1>2, <2>1, <2>3 DEF PhaseInv
<1>5. QED
  BY <1>2, <1>3, <1>4 DEF ABIs

\* Each step keeps the types.
LEMMA KindsStep ==
  ASSUME Inv, [Next]_vars PROVE Kinds'
<1> USE DEF Inv
<1>0. /\ Len(source) \in Nat /\ Kinds
      /\ \A a \in ABIs : rows[a] \in Seq(Rows) /\ ranges[a] \in Seq(Nat \X Nat)
  BY DEF Kinds
<1>1. CASE UNCHANGED vars
  BY <1>1 DEF vars, Kinds
<1>2. CASE ParseSize
  <2>1. line \in 1..Len(source) /\ source[line].kind = "size"
    BY <1>2 DEF ParseSize, AtLine, Kinds
  <2>2. source[line].abi \in ABIs /\ source[line].size \in Nat
    BY <1>0, <2>1, LineFields
  <2>3. sizes' \in [ABIs -> Nat \cup {NoSize}]
    BY <1>2, <2>2 DEF ParseSize, Kinds
  <2>4. QED
    BY <1>0, <1>2, <2>1, <2>3 DEF ParseSize, Kinds
<1>3. CASE SkipLine
  BY <1>0, <1>3 DEF SkipLine, AtLine, Kinds
<1>4. CASE ParseRow
  <2>1. line \in 1..Len(source) /\ source[line].kind = "row"
    BY <1>4 DEF ParseRow, AtLine, Kinds
  <2>2. /\ source[line].abi \in ABIs /\ source[line].number \in Nat
        /\ source[line].count \in Nat /\ source[line].fields \in Seq(ArgTypes)
    BY <1>0, <2>1, LineFields
  <2>3. Declared(source[line]) \in Seq(ArgTypes)
    BY <2>2, DeclaredTypes
  <2>4. RowOf(line) \in Rows
    BY <2>1, <2>2, <2>3 DEF RowOf, Rows
  <2>5. rows' = [rows EXCEPT ![source[line].abi] = Append(@, RowOf(line))]
    BY <1>4 DEF ParseRow, RowOf
  <2>6. rows' \in [ABIs -> Seq(Rows)]
    BY <2>2, <2>4, <2>5 DEF Kinds
  <2>7. QED
    BY <1>0, <1>4, <2>1, <2>6 DEF ParseRow, Kinds
<1>5. CASE RejectRow
  BY <1>5 DEF RejectRow, Kinds
<1>6. CASE Sort
  <2>1. \A a \in ABIs : Sorted(rows[a]) \in Seq(Rows)
    BY <1>0, SortedKeeps
  <2>2. rows' \in [ABIs -> Seq(Rows)]
    BY <1>6, <2>1 DEF Sort
  <2>3. QED
    BY <1>6, <2>2 DEF Sort, Kinds
<1>7. CASE RejectTable
  BY <1>7 DEF RejectTable, Kinds
<1>8. CASE NoGaps
  BY <1>8 DEF NoGaps, NextAbi, ABIs, Kinds
<1>9. CASE StartRanges
  <2>1. abi \in ABIs /\ sizes[abi] \in Nat
    BY <1>9 DEF StartRanges, Sound, Kinds
  <2>2. Gaps(abi) \in SUBSET Nat /\ Gaps(abi) # {}
    BY <1>9, <2>1 DEF StartRanges, Gaps
  <2>3. Min(Gaps(abi)) \in Nat
    BY <2>2, MinIs
  <2>4. open' \in Nat \X Nat /\ rest' \in SUBSET Nat
    BY <1>9, <2>2, <2>3 DEF StartRanges
  <2>5. QED
    BY <1>9, <2>4 DEF StartRanges, Kinds
<1>10. CASE ExtendRange
  <2>1. Min(rest) \in Nat
    BY <1>0, <1>10, NextGap DEF ExtendRange
  <2>2. open' \in Nat \X Nat /\ rest' \in SUBSET Nat
    BY <1>10, <2>1 DEF ExtendRange, Kinds
  <2>3. QED
    BY <1>10, <2>2 DEF ExtendRange, Kinds
<1>11. CASE CloseRange
  <2>1. Min(rest) \in Nat
    BY <1>0, <1>11, NextGap DEF CloseRange
  <2>2. open' \in Nat \X Nat /\ rest' \in SUBSET Nat
    BY <1>11, <2>1 DEF CloseRange, Kinds
  <2>3. ranges' \in [ABIs -> Seq(Nat \X Nat)]
    BY <1>0, <1>11 DEF CloseRange, Kinds
  <2>4. QED
    BY <1>11, <2>2, <2>3 DEF CloseRange, Kinds
<1>12. CASE CloseLast
  <2>1. ranges' \in [ABIs -> Seq(Nat \X Nat)]
    BY <1>0, <1>12 DEF CloseLast, Kinds
  <2>2. QED
    BY <1>12, <2>1 DEF CloseLast, NextAbi, ABIs, Kinds
<1>13. CASE Verify
  BY <1>13 DEF Verify, Kinds
<1>14. QED
  BY <1>1, <1>2, <1>3, <1>4, <1>5, <1>6, <1>7, <1>8, <1>9, <1>10, <1>11, <1>12, <1>13 DEF Next

\* Each step keeps what the rows say of the file.
LEMMA RowsStep ==
  ASSUME Inv, [Next]_vars PROVE RowsInv'
<1> USE DEF Inv
<1>0. Kinds /\ RowsInv /\ Len(source) \in Nat
  BY DEF Kinds
<1>1. CASE UNCHANGED <<source, line, rows>>
  <2>1. \A a \in ABIs : Parsed(a)' = Parsed(a)
    BY <1>1 DEF Parsed, RowLines
  <2>2. \A i : RowOf(i)' = RowOf(i)
    BY <1>1 DEF RowOf, Declared
  <2>3. QED
    BY <1>1, <2>1, <2>2 DEF RowsInv, WellFormed, Declared
<1>2. CASE ParseSize \/ SkipLine
  <2>1. line \in 1..Len(source) /\ source[line].kind # "row"
    <3>1. line <= Len(source) /\ source[line].kind \in {"size", "other"}
      BY <1>2 DEF ParseSize, SkipLine, AtLine
    <3>2. line \in 1..Len(source)
      BY <1>0, <3>1 DEF Kinds
    <3>3. QED
      BY <3>1, <3>2
  <2>2. QED
    BY <1>0, <1>2, <2>1, LinePassed DEF ParseSize, SkipLine
<1>3. CASE ParseRow
  <2> DEFINE l == source[line]
  <2>1. line \in 1..Len(source) /\ l.kind = "row" /\ source' = source /\ line' = line + 1
    BY <1>3 DEF ParseRow, AtLine, Kinds
  <2>2. l.abi \in ABIs /\ WellFormed(l)
    BY <1>0, <1>3, <2>1, LineFields DEF ParseRow
  <2>3. rows' = [rows EXCEPT ![l.abi] = Append(@, RowOf(line))]
    BY <1>3 DEF ParseRow, RowOf
  <2>4. \A i : RowOf(i)' = RowOf(i)
    BY <2>1 DEF RowOf, Declared
  <2>5. ASSUME NEW a \in ABIs
        PROVE  Parsed(a)' = Parsed(a) \cup (IF a = l.abi THEN {line} ELSE {})
    <3>1. RowLines(a)' = RowLines(a) /\ (line \in RowLines(a) <=> a = l.abi)
      BY <2>1 DEF RowLines
    <3>2. \A i \in RowLines(a) : i \in Int
      BY DEF RowLines, Kinds
    <3>3. QED
      BY <2>1, <3>1, <3>2 DEF Parsed
  <2>6. ASSUME NEW a \in ABIs
        PROVE  ToSet(rows[a])' = ToSet(rows[a]) \cup (IF a = l.abi THEN {RowOf(line)} ELSE {})
    <3>1. CASE a # l.abi
      <4>1. rows'[a] = rows[a]
        BY <2>3, <3>1 DEF Kinds
      <4>2. QED
        BY <3>1, <4>1 DEF ToSet
    <3>2. CASE a = l.abi
      <4>1. rows'[a] = Append(rows[a], RowOf(line)) /\ rows[a] \in Seq(Rows)
        BY <2>3, <3>2 DEF Kinds
      <4>2. ToSet(Append(rows[a], RowOf(line))) = ToSet(rows[a]) \cup {RowOf(line)}
        BY <4>1, AppendedSet
      <4>3. ToSet(rows[a])' = ToSet(rows'[a])
        BY DEF ToSet
      <4>4. QED
        BY <3>2, <4>1, <4>2, <4>3
    <3>3. QED
      BY <3>1, <3>2
  <2>7. ASSUME NEW a \in ABIs
        PROVE  ToSet(rows[a])' = {RowOf(i)' : i \in Parsed(a)'}
    BY <2>4, <2>5, <2>6 DEF RowsInv
  <2>8. ASSUME NEW a \in ABIs, NEW i \in Parsed(a)' PROVE WellFormed(source[i])'
    <3>1. WellFormed(source[i])
      BY <2>2, <2>5 DEF RowsInv
    <3>2. QED
      BY <2>1, <3>1 DEF WellFormed, Declared
  <2>9. QED
    BY <2>7, <2>8 DEF RowsInv
<1>4. CASE Sort
  <2>1. UNCHANGED <<source, line>> /\ rows' = [a \in ABIs |-> Sorted(rows[a])]
    BY <1>4 DEF Sort
  <2>2. ASSUME NEW a \in ABIs PROVE ToSet(rows[a])' = ToSet(rows[a])
    <3>1. rows'[a] = Sorted(rows[a]) /\ rows[a] \in Seq(Rows)
      BY <2>1 DEF Kinds
    <3>2. ToSet(Sorted(rows[a])) = ToSet(rows[a])
      BY <3>1, SortedKeeps
    <3>3. ToSet(rows[a])' = ToSet(rows'[a])
      BY DEF ToSet
    <3>4. QED
      BY <3>1, <3>2, <3>3
  <2>3. \A a \in ABIs : Parsed(a)' = Parsed(a)
    BY <2>1 DEF Parsed, RowLines
  <2>4. \A i : RowOf(i)' = RowOf(i)
    BY <2>1 DEF RowOf, Declared
  <2>5. \A i : WellFormed(source[i])' <=> WellFormed(source[i])
    BY <2>1 DEF WellFormed, Declared
  <2>6. QED
    BY <2>2, <2>3, <2>4, <2>5 DEF RowsInv
<1>5. CASE \/ UNCHANGED vars \/ RejectRow \/ RejectTable \/ NoGaps \/ StartRanges
           \/ ExtendRange \/ CloseRange \/ CloseLast \/ Verify
  BY <1>1, <1>5 DEF vars, RejectRow, RejectTable, NoGaps, StartRanges, ExtendRange,
                    CloseRange, CloseLast, Verify
<1>6. QED
  BY <1>2, <1>3, <1>4, <1>5 DEF Next

\* Each step keeps what has been done at each place.
LEMMA PhaseStep ==
  ASSUME Inv, [Next]_vars PROVE PhaseInv'
<1> USE DEF Inv
<1>0. /\ Kinds /\ PhaseInv /\ Len(source) \in Nat /\ abi \in ABIs
      /\ \A a \in ABIs : Apart(a)
  BY DEF Kinds, PhaseInv
<1>1. ASSUME UNCHANGED <<source, ranges, sizes, rows>>
      PROVE  /\ \A a \in ABIs : Apart(a)'
             /\ \A a : /\ Sound(a)' <=> Sound(a)
                       /\ Covered(a)' = Covered(a) /\ Gaps(a)' = Gaps(a)
                       /\ Calculated(a)' <=> Calculated(a)
  <2>1. \A a : Sound(a)' <=> Sound(a)
    BY <1>1 DEF Sound, Numbers
  <2>2. \A a : Covered(a)' = Covered(a)
    BY <1>1 DEF Covered
  <2>3. \A a : Gaps(a)' = Gaps(a)
    BY <1>1 DEF Gaps, Numbers
  <2>4. \A a : Apart(a)' <=> Apart(a)
    BY <1>1 DEF Apart
  <2>5. QED
    BY <1>0, <2>1, <2>2, <2>3, <2>4 DEF Calculated
<1>2. CASE UNCHANGED vars
  <2>1. CompressInv' <=> CompressInv
    BY <1>1, <1>2 DEF vars, CompressInv
  <2>2. QED
    BY <1>0, <1>1, <1>2, <2>1 DEF vars, PhaseInv
<1>3. CASE ParseSize \/ SkipLine \/ ParseRow
  <2>1. /\ pc = "parse" /\ pc' = "parse" /\ abi' = abi /\ ranges' = ranges
        /\ rest' = rest
    BY <1>3 DEF ParseSize, SkipLine, ParseRow, AtLine
  <2>2. \A a \in ABIs : Apart(a)'
    BY <1>0, <2>1 DEF Apart
  <2>3. QED
    BY <1>0, <2>1, <2>2 DEF PhaseInv
<1>4. CASE RejectRow \/ RejectTable
  <2>1. pc \in {"parse", "calculate"} /\ pc' = "raised"
    BY <1>4 DEF RejectRow, RejectTable, AtLine
  <2>2. UNCHANGED <<source, line, rows, sizes, abi, rest, open, ranges>>
    BY <1>4 DEF RejectRow, RejectTable
  <2>3. QED
    BY <1>0, <1>1, <2>1, <2>2 DEF PhaseInv
<1>5. CASE Sort
  <2>1. /\ pc = "parse" /\ pc' = "calculate" /\ line = Len(source) + 1
        /\ abi = "x86_64" /\ UNCHANGED <<source, line, abi, rest, ranges>>
    BY <1>0, <1>5 DEF Sort, Kinds, PhaseInv
  <2>2. \A a \in ABIs : Apart(a)'
    BY <1>0, <2>1 DEF Apart
  <2>3. QED
    BY <1>0, <2>1, <2>2 DEF PhaseInv
<1>6. CASE NoGaps
  <2>1. /\ pc = "calculate" /\ Sound(abi) /\ Gaps(abi) = {} /\ NextAbi
        /\ UNCHANGED <<source, line, rows, sizes, rest, ranges>>
    BY <1>6 DEF NoGaps
  <2>2. ranges[abi] = <<>> /\ rest = {}
    BY <1>0, <2>1 DEF PhaseInv
  <2>3. Covered(abi) = {}
    BY <2>2 DEF Covered, ToSet
  <2>4. PICK a : a = abi
    OBVIOUS
  <2>5. Calculated(a)'
    BY <1>1, <2>1, <2>3, <2>4 DEF Calculated
  <2>6. \A b \in ABIs \ {a} : ranges'[b] = ranges[b]
    BY <2>1
  <2>7. \A b \in ABIs : Apart(b)'
    BY <1>1, <2>1
  <2>8. QED
    BY <1>0, <2>1, <2>2, <2>4, <2>5, <2>6, <2>7, NextTable
<1>7. CASE StartRanges
  <2>1. /\ pc = "calculate" /\ pc' = "compress" /\ Sound(abi) /\ Gaps(abi) # {}
        /\ open' = <<Min(Gaps(abi)), Min(Gaps(abi))>>
        /\ rest' = Gaps(abi) \ {Min(Gaps(abi))}
        /\ UNCHANGED <<source, line, rows, sizes, abi, ranges>>
    BY <1>7 DEF StartRanges
  <2>2. abi \in ABIs /\ sizes[abi] \in Nat
    BY <2>1 DEF Sound, Kinds
  <2>3. Gaps(abi) \in SUBSET Nat
    BY <2>2 DEF Gaps
  <2>4. /\ Min(Gaps(abi)) \in Gaps(abi) /\ Min(Gaps(abi)) \in Nat
        /\ \A n \in Gaps(abi) : Min(Gaps(abi)) <= n
    BY <2>1, <2>3, MinIs
  <2>5. ranges[abi] = <<>> /\ Covered(abi) = {}
    BY <1>0, <2>1 DEF PhaseInv, Covered, ToSet
  <2>6. CompressInv'
    <3>1. Sound(abi)' /\ Covered(abi)' = {} /\ Gaps(abi)' = Gaps(abi)
      BY <1>1, <2>1, <2>5
    <3>2. open'[1] = Min(Gaps(abi)) /\ open'[2] = Min(Gaps(abi))
      BY <2>1
    <3>3. rest' \subseteq Gaps(abi) /\ \A n \in rest' : open'[2] < n
      BY <2>1, <2>3, <2>4, <3>2
    <3>4. open'[1]..open'[2] = {Min(Gaps(abi))}
      BY <2>4, <3>2
    <3>5. {} \cup open'[1]..open'[2] \cup rest' = Gaps(abi)
      BY <2>1, <2>4, <3>4
    <3>6. DOMAIN ranges'[abi'] = {}
      BY <2>1, <2>5
    <3>7. open'[1] <= open'[2]
      BY <2>4, <3>2
    <3>8. QED
      BY <3>1, <3>3, <3>5, <3>6, <3>7 DEF CompressInv
  <2>7. QED
    BY <1>0, <1>1, <2>1, <2>6 DEF PhaseInv
<1>8. CASE ExtendRange
  <2>1. /\ pc = "compress" /\ pc' = "compress" /\ rest # {} /\ Min(rest) = open[2] + 1
        /\ open' = <<open[1], Min(rest)>> /\ rest' = rest \ {Min(rest)}
        /\ UNCHANGED <<source, line, rows, sizes, abi, ranges>>
    BY <1>8 DEF ExtendRange
  <2>2. CompressInv /\ open[1] \in Nat /\ open[2] \in Nat /\ rest \in SUBSET Nat
    BY <1>0, <2>1 DEF PhaseInv, Kinds
  <2>3. /\ Min(rest) \in rest /\ Min(rest) \in Nat
        /\ \A n \in rest : Min(rest) <= n
    BY <1>0, <2>1, NextGap
  <2>4. CompressInv'
    <3>1. Sound(abi)' /\ Covered(abi)' = Covered(abi) /\ Gaps(abi)' = Gaps(abi)
      BY <1>1, <2>1, <2>2 DEF CompressInv
    <3>2. open'[1] = open[1] /\ open'[2] = Min(rest)
      BY <2>1
    <3>3. open[1] <= open[2]
      BY <2>2 DEF CompressInv
    <3>4. open'[1]..open'[2] = open[1]..open[2] \cup {Min(rest)}
      BY <2>1, <2>2, <3>2, <3>3
    <3>5. \A n \in rest' : open'[2] < n
      BY <2>1, <2>2, <2>3, <3>2
    <3>6. Covered(abi) \cup open'[1]..open'[2] \cup rest' = Gaps(abi)
      BY <2>1, <2>2, <2>3, <3>4 DEF CompressInv
    <3>7. rest' \subseteq Gaps(abi)
      BY <2>1, <2>2 DEF CompressInv
    <3>8. open'[1] <= open'[2]
      BY <2>1, <2>2, <3>2, <3>3
    <3>9. \A i \in DOMAIN ranges'[abi'] : ranges'[abi'][i][2] + 1 < open'[1]
      BY <2>1, <2>2, <3>2 DEF CompressInv
    <3>10. QED
      BY <3>1, <3>5, <3>6, <3>7, <3>8, <3>9 DEF CompressInv
  <2>5. QED
    BY <1>0, <1>1, <2>1, <2>4 DEF PhaseInv
<1>9. CASE CloseRange
  <2>1. /\ pc = "compress" /\ pc' = "compress" /\ rest # {} /\ Min(rest) # open[2] + 1
        /\ ranges' = [ranges EXCEPT ![abi] = Append(@, open)]
        /\ open' = <<Min(rest), Min(rest)>> /\ rest' = rest \ {Min(rest)}
        /\ UNCHANGED <<source, line, rows, sizes, abi>>
    BY <1>9 DEF CloseRange
  <2>2. CompressInv /\ open[1] \in Nat /\ open[2] \in Nat /\ rest \in SUBSET Nat
    BY <1>0, <2>1 DEF PhaseInv, Kinds
  <2>3. /\ Min(rest) \in rest /\ Min(rest) \in Nat
        /\ \A n \in rest : Min(rest) <= n
    BY <1>0, <2>1, NextGap
  <2>4. PICK a : a = abi
    OBVIOUS
  <2>5. /\ ranges' \in [ABIs -> Seq(Nat \X Nat)]
        /\ \A b \in ABIs \ {a} : ranges'[b] = ranges[b]
        /\ Covered(a)' = Covered(a) \cup open[1]..open[2]
        /\ Apart(a)'
        /\ \A i \in DOMAIN ranges'[a] : ranges'[a][i][2] <= open[2]
    BY <1>0, <2>1, <2>2, <2>4, RangeAdded
  <2>6. \A b \in ABIs : Apart(b)'
    BY <1>0, <2>4, <2>5 DEF Apart
  <2>7. /\ Sound(a)' <=> Sound(a)
        /\ Gaps(a)' = Gaps(a)
    BY <2>1 DEF Sound, Gaps, Numbers
  <2>8. CompressInv'
    <3>1. open'[1] = Min(rest) /\ open'[2] = Min(rest) /\ open'[1]..open'[2] = {Min(rest)}
      BY <2>1, <2>3
    <3>2. open[2] + 1 < Min(rest)
      BY <2>1, <2>2, <2>3 DEF CompressInv
    <3>3. \A n \in rest' : open'[2] < n
      BY <2>1, <2>2, <2>3, <3>1
    <3>4. Covered(a)' \cup open'[1]..open'[2] \cup rest' = Gaps(a)'
      BY <2>1, <2>2, <2>3, <2>4, <2>5, <2>7, <3>1 DEF CompressInv
    <3>5. rest' \subseteq Gaps(a)'
      BY <2>1, <2>2, <2>4, <2>7 DEF CompressInv
    <3>6. ASSUME NEW i \in DOMAIN ranges'[a] PROVE ranges'[a][i][2] + 1 < open'[1]
      <4>1. ranges'[a] \in Seq(Nat \X Nat)
        BY <1>0, <2>4, <2>5
      <4>2. ranges'[a][i][2] \in Nat
        BY <4>1
      <4>3. ranges'[a][i][2] <= open[2]
        BY <2>5
      <4>4. QED
        BY <2>2, <2>3, <3>1, <3>2, <4>2, <4>3
    <3>7. Sound(a)' /\ open'[1] <= open'[2]
      BY <2>2, <2>3, <2>4, <2>7, <3>1 DEF CompressInv
    <3>8. abi' = a
      BY <2>1, <2>4
    <3>9. QED
      BY <3>3, <3>4, <3>5, <3>6, <3>7, <3>8 DEF CompressInv
  <2>9. abi = "i386" => Calculated("x86_64")'
    <3>1. ASSUME abi = "i386" PROVE Calculated("x86_64")'
      <4>1. Calculated("x86_64")
        BY <1>0, <2>1, <3>1 DEF PhaseInv
      <4>2. ranges'["x86_64"] = ranges["x86_64"]
        BY <2>4, <2>5, <3>1 DEF ABIs
      <4>3. QED
        BY <2>1, <4>1, <4>2 DEF Calculated, Sound, Covered, Gaps, Numbers
    <3>2. QED
      BY <3>1
  <2>10. abi = "x86_64" => ranges'["i386"] = <<>>
    BY <1>0, <2>4, <2>5 DEF PhaseInv, ABIs
  <2>11. QED
    BY <1>0, <2>1, <2>6, <2>8, <2>9, <2>10 DEF PhaseInv
<1>10. CASE CloseLast
  <2>1. /\ pc = "compress" /\ rest = {} /\ NextAbi
        /\ ranges' = [ranges EXCEPT ![abi] = Append(@, open)]
        /\ UNCHANGED <<source, line, rows, sizes, rest, open>>
    BY <1>10 DEF CloseLast
  <2>2. CompressInv
    BY <1>0, <2>1 DEF PhaseInv
  <2>3. PICK a : a = abi
    OBVIOUS
  <2>4. /\ \A b \in ABIs \ {a} : ranges'[b] = ranges[b]
        /\ Covered(a)' = Covered(a) \cup open[1]..open[2]
        /\ Apart(a)'
    BY <1>0, <2>1, <2>2, <2>3, RangeAdded
  <2>5. \A b \in ABIs : Apart(b)'
    BY <1>0, <2>3, <2>4 DEF Apart
  <2>6. /\ Sound(a)' <=> Sound(a)
        /\ Gaps(a)' = Gaps(a)
    BY <2>1 DEF Sound, Gaps, Numbers
  <2>7. Calculated(a)'
    BY <2>1, <2>2, <2>3, <2>4, <2>6 DEF CompressInv, Calculated
  <2>8. QED
    BY <1>0, <2>1, <2>3, <2>4, <2>5, <2>7, NextTable
<1>11. CASE Verify
  <2>1. /\ pc = "verify" /\ pc' \in {"written", "raised"}
        /\ UNCHANGED <<source, line, rows, sizes, abi, rest, open, ranges>>
    BY <1>11 DEF Verify
  <2>2. QED
    BY <1>0, <1>1, <2>1 DEF PhaseInv
<1>12. QED
  BY <1>2, <1>3, <1>4, <1>5, <1>6, <1>7, <1>8, <1>9, <1>10, <1>11 DEF Next

\* The inductive invariant.
LEMMA InvCorrect == Spec => []Inv
<1>1. Init => Inv
  BY InvInit
<1>2. Inv /\ [Next]_vars => Inv'
  BY KindsStep, RowsStep, PhaseStep DEF Inv
<1>3. QED
  BY <1>1, <1>2, PTL DEF Spec

(***************************************************************************)
(* The theorems.                                                           *)
(***************************************************************************)

\* parse_source and calculate keep rows, sizes and gaps of the types they expect, and a
\* table that has been calculated has a size.
THEOREM MatrixTypeCorrect == Spec => []TypeOK
<1>1. ASSUME Inv PROVE TypeOK
  <2>1. Kinds /\ RowsInv /\ PhaseInv
    BY <1>1 DEF Inv
  <2>2. ASSUME NEW a \in ABIs, NEW r \in ToSet(rows[a])
        PROVE  /\ r.number \in Nat /\ r.line \in 1..line - 1
               /\ ToSet(r.types) \subseteq ArgTypes
    <3>1. PICK i \in Parsed(a) : r = RowOf(i)
      BY <2>1 DEF RowsInv
    <3>2. r.line = i /\ i \in 1..line - 1
      BY <2>1, <3>1 DEF RowOf, Parsed, RowLines, Kinds
    <3>3. r \in Rows
      BY <2>1 DEF Kinds, ToSet
    <3>4. r.number \in Nat /\ r.types \in Seq(ArgTypes)
      BY <3>3 DEF Rows
    <3>5. QED
      BY <3>2, <3>4 DEF ToSet
  <2>3. ASSUME NEW n \in rest PROVE n \in open[2] + 1..sizes[abi] - 1
    <3>1. CompressInv
      BY <2>1, <2>3 DEF PhaseInv
    <3>2. n \in Gaps(abi) /\ open[2] < n /\ n \in Nat /\ open[2] \in Nat
      BY <2>1, <2>3, <3>1 DEF CompressInv, Kinds
    <3>3. sizes[abi] \in Nat
      BY <2>1, <3>1 DEF CompressInv, Sound, Kinds
    <3>4. n <= sizes[abi] - 1
      BY <3>2, <3>3 DEF Gaps
    <3>5. QED
      BY <3>2, <3>3, <3>4
  <2>4. pc \in {"verify", "written"} => \A a \in ABIs : sizes[a] # NoSize
    BY <2>1 DEF PhaseInv, Calculated, Sound
  <2>5. QED
    BY <2>1, <2>2, <2>3, <2>4 DEF TypeOK, Kinds
<1>2. QED
  BY <1>1, InvCorrect, PTL

\* What a written matrix says and the file says, table by table.
LEMMA Written ==
  ASSUME Inv, pc = "written", NEW a \in ABIs
  PROVE  /\ Kinds /\ RowsInv /\ line = Len(source) + 1
         /\ Sound(a) /\ Covered(a) = Gaps(a) /\ Apart(a)
         /\ sizes[a] \in Nat
         /\ \A n \in Numbers(a) : n \in Nat /\ n < sizes[a]
<1>1. Kinds /\ RowsInv /\ PhaseInv
  BY DEF Inv
<1>2. line = Len(source) + 1 /\ Calculated(a) /\ Apart(a)
  BY <1>1 DEF PhaseInv
<1>3. sizes[a] \in Nat /\ \A n \in Numbers(a) : n < sizes[a]
  BY <1>1, <1>2 DEF Calculated, Sound, Kinds
<1>4. \A n \in Numbers(a) : n \in Nat
  BY <1>1, <1>2, NumbersAre
<1>5. QED
  BY <1>1, <1>2, <1>3, <1>4 DEF Calculated

\* compress_ranges gives exactly the slots of the array that have no row, in order, and
\* never two ranges where one would do.
THEOREM GapsCorrect == Spec => []GapsExact
<1>1. ASSUME Inv, pc = "written", NEW a \in ABIs
      PROVE  /\ \A n \in 0..sizes[a] : (\E r \in ToSet(ranges[a]) : n \in r[1]..r[2])
                                          <=> (n < sizes[a] /\ Slot(a, n) = Unknown)
             /\ \A i, j \in DOMAIN ranges[a] :
                  i < j => ranges[a][i][2] + 1 < ranges[a][j][1]
  <2>1. /\ Kinds /\ RowsInv /\ line = Len(source) + 1 /\ Covered(a) = Gaps(a) /\ Apart(a)
        /\ sizes[a] \in Nat
    BY <1>1, Written
  <2>2. ASSUME NEW n \in 0..sizes[a]
        PROVE  (\E r \in ToSet(ranges[a]) : n \in r[1]..r[2])
                 <=> (n < sizes[a] /\ Slot(a, n) = Unknown)
    <3>1. (\E r \in ToSet(ranges[a]) : n \in r[1]..r[2]) <=> n \in Gaps(a)
      BY <2>1 DEF Covered
    <3>2. n \in Gaps(a) <=> n < sizes[a] /\ n \notin Numbers(a)
      BY <2>1 DEF Gaps
    <3>3. n \notin Numbers(a) <=> Slot(a, n) = Unknown
      BY <2>1, SlotIs
    <3>4. QED
      BY <3>1, <3>2, <3>3
  <2>3. QED
    BY <2>1, <2>2 DEF Apart
<1>2. Inv => GapsExact
  BY <1>1 DEF GapsExact
<1>3. QED
  BY <1>2, InvCorrect, PTL

\* lookup_syscall recognises the numbers the matrix lists, as the rows the matrix lists,
\* and no others, in a table whose last slot has a row.
THEOREM RecognisedCorrect == Spec => []RecognisedAsListed
<1>1. ASSUME Inv, pc = "written", NEW a \in ABIs, Slot(a, sizes[a] - 1) # Unknown
      PROVE  /\ \A r \in ToSet(rows[a]) : lookup_syscall(a, r.number) = r.line
             /\ \A n \in 0..sizes[a] \ Numbers(a) : lookup_syscall(a, n) = Unknown
  <2>1. /\ Kinds /\ RowsInv /\ line = Len(source) + 1 /\ Sound(a)
        /\ sizes[a] \in Nat /\ \A n \in Numbers(a) : n \in Nat /\ n < sizes[a]
    BY <1>1, Written
  <2>2. ASSUME NEW n \in Nat, n < sizes[a]
        PROVE  lookup_syscall(a, n) = Slot(a, n)
    <3>1. sizes[a] - 1 \in Numbers(a)
      BY <1>1, <2>1, SlotIs
    <3>2. PICK i \in RowLines(a) : source[i].number = sizes[a] - 1
      BY <2>1, <3>1, NumbersAre
    <3>3. Within(a, n)
      BY <2>1, <2>2, <3>2 DEF Within
    <3>4. QED
      BY <2>1, <2>2, <3>3 DEF lookup_syscall
  <2>3. ASSUME NEW r \in ToSet(rows[a]) PROVE lookup_syscall(a, r.number) = r.line
    <3>1. PICK i \in RowLines(a) : r = RowOf(i)
      BY <2>1, NumbersAre DEF RowsInv
    <3>2. r.number = source[i].number /\ r.line = i /\ r.number \in Numbers(a)
      BY <3>1 DEF RowOf, Numbers
    <3>3. Slot(a, r.number) \in RowLines(a) /\ source[Slot(a, r.number)].number = r.number
      BY <2>1, <3>2, SlotIs
    <3>4. Slot(a, r.number) = i
      BY <2>1, <3>2, <3>3, OneRow
    <3>5. QED
      BY <2>1, <2>2, <3>2, <3>4
  <2>4. ASSUME NEW n \in 0..sizes[a], n \notin Numbers(a)
        PROVE  lookup_syscall(a, n) = Unknown
    <3>1. CASE n < sizes[a]
      BY <2>1, <2>2, <2>4, <3>1, SlotIs
    <3>2. CASE n >= sizes[a]
      BY <3>2 DEF lookup_syscall
    <3>3. QED
      BY <2>1, <3>1, <3>2
  <2>5. QED
    BY <2>3, <2>4
<1>2. Inv => RecognisedAsListed
  BY <1>1 DEF RecognisedAsListed
<1>3. QED
  BY <1>2, InvCorrect, PTL

\* print_entry finds a type, and no padding, for each argument that a row of an accepted
\* table counts.
THEOREM TypedCorrect == Spec => []ArgumentsTyped
<1>1. ASSUME Inv, pc = "written", NEW a \in ABIs, NEW n \in 0..sizes[a],
             lookup_syscall(a, n) > 0,
             NEW i \in 1..source[lookup_syscall(a, n)].count
      PROVE  i <= MaxArgs /\ source[lookup_syscall(a, n)].fields[i] \notin {"0", "NONE"}
  <2>1. Kinds /\ RowsInv /\ line = Len(source) + 1
    BY <1>1, Written
  <2>2. lookup_syscall(a, n) = Slot(a, n) /\ Slot(a, n) # Unknown
    BY <1>1 DEF lookup_syscall, Unknown, Beyond
  <2>3. Slot(a, n) \in RowLines(a)
    BY <2>1, <2>2, SlotIs
  <2>4. WellFormed(source[Slot(a, n)])
    BY <2>1, <2>3, NumbersAre DEF RowsInv
  <2>5. source[Slot(a, n)].fields \in Seq(ArgTypes) /\ source[Slot(a, n)].count \in Nat
    BY <2>1, <2>3, LineFields DEF RowLines
  <2>6. QED
    BY <2>2, <2>4, <2>5, DeclaredTypes
<1>2. Inv => ArgumentsTyped
  BY <1>1 DEF ArgumentsTyped
<1>3. QED
  BY <1>2, InvCorrect, PTL
=============================================================================
