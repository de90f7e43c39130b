------------------------------- MODULE MCMatrix -------------------------------
(***************************************************************************)
(* Tables of up to seven slots, and the tables of strace_data.h.           *)
(***************************************************************************)
EXTENDS Matrix, Tables

Row(a, n, count, fields) ==
  [kind |-> "row", abi |-> a, number |-> n, count |-> count,
   fields |-> fields \o <<"0", "0", "0", "0">>]
Size(a, n) == [kind |-> "size", abi |-> a, size |-> n]

Plain(a, n) == Row(a, n, 1, <<"INT", "0">>)

\* A field missing, a count too high, padding among the declared arguments.
Malformed == {Row("x86_64", 1, 1, <<"INT">>),
              [Row("i386", 2, 7, <<>>) EXCEPT !.fields = [i \in 1..6 |-> "INT"]],
              Row("x86_64", 1, 2, <<"INT", "0">>), Row("i386", 2, 2, <<"NONE", "INT">>)}

RowAlphabet == {Plain("x86_64", n) : n \in 0..3} \cup {Plain("i386", n) : n \in {0, 2}}
               \cup {Row("x86_64", 2, 0, <<"0", "0">>), Row("i386", 1, 2, <<"STR", "INT">>)}
               \cup Malformed
Others == {[kind |-> "other"], Size("x86_64", 2), Size("i386", 3)}

Lines(S, k) == UNION {[1..n -> S] : n \in 0..k}

\* Anything at all; a sized table, its sizes before or after the rows; and every
\* pattern of gaps over seven slots, its rows in descending order.
Unsized == Lines(RowAlphabet \cup Others, 3)
Sized == {<<Size("x86_64", s), Size("i386", 3)>> \o l :
            s \in {2, 3}, l \in Lines(RowAlphabet, 3)}
SizedLate == {l \o <<Size("i386", 3), Size("x86_64", 3)>> :
               l \in Lines(RowAlphabet, 3)}
Holes(S) ==
  LET Descending(a, T) == SetToSortSeq({Plain(a, n) : n \in T},
                                       LAMBDA r, s : r.number > s.number)
  IN Descending("x86_64", S) \o Descending("i386", 0..6 \ S)
       \o <<Size("x86_64", 7), Size("i386", 7)>>

\* strace_data.h: the rows of one ABI after those of the other, then the sizes.
Listed(a, name, numbers) ==
  LET sorted == SelectSeq([i \in 1..SYS64_TABLE_SIZE |-> i - 1], LAMBDA n : n \in numbers)
  IN  [i \in DOMAIN sorted |-> [kind |-> "row", abi |-> name, number |-> sorted[i],
         count |-> argCount(a, sorted[i]), fields |-> Fields(a, sorted[i])]]
Header == Listed(64, "x86_64", Numbers64) \o Listed(32, "i386", Numbers32)
            \o <<Size("x86_64", SYS64_TABLE_SIZE), Size("i386", SYS32_TABLE_SIZE)>>

MCSources == {Header} \cup Unsized \cup Sized \cup SizedLate \cup {Holes(S) : S \in SUBSET (0..6)}
==============================================================================
