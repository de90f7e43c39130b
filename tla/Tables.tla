-------------------------------- MODULE Tables --------------------------------
(***************************************************************************)
(* The rows of strace_data.h: which numbers of each ABI have one, how many *)
(* arguments it declares, and which of them print_arg looks up in memory.  *)
(* Names are left out, and every type that is shown by its value is "INT". *)
(***************************************************************************)
EXTENDS Integers, Sequences

SYS64_TABLE_SIZE == 470
SYS32_TABLE_SIZE == 470
ArgTypeSlots == 6

X == -1    \* a number without a row

(* The argument counts of a hundred numbers each, fifty to a line. *)
Counts64_0 == <<
  3,3,3,1,2,2,2,3,3,6, 3,2,1,4,4,0,3,4,4,3, 3,2,1,5,0,5,3,3,3,3, 3,3,1,2,0,2,2,1,3,0, 4,3,3,3,6,6,3,3,2,3,
  2,3,3,4,5,5,5,0,0,3, 1,4,2,1,3,3,4,1,2,4, 5,3,3,2,1,1,2,2,3,2, 1,1,2,2,1,2,2,1,2,3, 2,2,3,3,3,1,2,2,2,1>>
Counts64_100 == <<
  1,4,0,3,0,1,1,0,0,2, 0,0,0,2,2,2,2,3,3,3, 3,1,1,1,1,2,2,2,4,3, 2,2,2,3,X,1,2,2,2,3, 2,3,2,2,3,1,1,1,2,2,
  2,1,0,0,3,2,X,5,2,1, 2,1,0,1,2,5,2,2,1,4, 2,2,1,3,X,3,2,X,X,4, X,X,X,X,X,X,0,3,5,5, 5,4,4,4,3,3,3,2,2,2>>
Counts64_200 == <<
  2,1,6,3,3,X,2,1,5,3, 3,X,X,1,X,X,5,3,1,0, 4,4,3,4,2,1,1,2,2,2, 4,1,4,4,3,2,X,6,3,5, 4,1,5,5,2,3,4,5,5,4,
  5,3,2,0,3,2,4,4,3,4, 5,3,4,3,4,5,3,4,3,3, 6,5,1,2,3,6,4,4,4,6, 4,6,3,2,1,4,4,2,4,4, 2,1,3,2,1,5,5,4,5,5>>
Counts64_300 == <<
  2,5,4,5,3,2,1,4,2,3, 6,6,5,3,3,4,5,3,3,2, 5,3,5,1,3,3,6,6,6,4, 2,1,5,6,4,0,X,X,X,X, X,X,X,X,X,X,X,X,X,X,
  X,X,X,X,X,X,X,X,X,X, X,X,X,X,X,X,X,X,X,X, X,X,X,X,X,X,X,X,X,X, X,X,X,X,X,X,X,X,X,X, X,X,X,X,X,X,X,X,X,X>>
Counts64_400 == <<
  X,X,X,X,X,X,X,X,X,X, X,X,X,X,X,X,X,X,X,X, X,X,X,X,4,2,6,4,3,5, 2,5,3,3,2,2,3,4,3,4, 5,6,5,4,3,4,2,1,2,5,
  4,4,4,3,4,6,4,4,4,4, 4,3,3,6,6,5,4,5,5,5>>

Counts32_0 == <<
  0,1,0,3,3,3,1,3,2,2, 1,3,1,1,3,2,3,X,2,3, 0,5,1,1,0,1,4,1,2,0, 2,X,X,2,1,X,0,2,2,2, 1,1,1,1,X,1,1,0,2,0,
  0,1,2,X,3,3,X,2,X,1, 1,1,2,2,0,0,0,3,0,1, 2,2,3,1,2,2,2,2,2,2, 2,2,1,2,2,3,X,2,4,3, 1,2,2,2,2,3,2,3,X,2>>
Counts32_100 == <<
  2,3,2,3,3,2,2,2,2,1, 1,0,X,1,4,1,1,6,1,0, 5,2,1,3,1,3,3,X,3,2, X,4,1,1,X,3,1,X,1,1, 5,3,5,2,3,3,3,1,1,X,
  2,2,1,0,2,2,3,1,0,1, 1,2,2,5,3,3,2,X,3,X, 3,3,5,0,4,4,2,4,3,2, 5,5,3,2,2,2,2,4,X,X, 0,2,6,3,3,2,2,2,3,0>>
Counts32_200 == <<
  0,0,0,2,2,2,2,3,3,3, 3,3,3,1,1,1,1,2,3,3, 3,3,X,X,0,4,5,5,5,4, 4,4,3,3,3,2,2,2,2,4, 6,3,3,1,1,2,1,5,3,3,
  5,X,1,X,1,4,4,5,1,3, 4,2,1,1,2,2,2,4,3,3, 3,2,6,X,X,X,X,4,1,5, 5,2,3,4,5,X,5,4,5,3, 2,0,3,2,X,4,3,4,5,3>>
Counts32_300 == <<
  4,3,4,5,3,4,3,3,6,5, 1,2,3,6,6,4,4,X,3,6, 4,3,2,1,6,4,2,4,2,1, 3,2,1,5,5,4,5,5,2,6, 4,5,3,2,1,4,2,6,6,5,
  3,3,4,5,3,3,2,3,5,3, 4,3,3,2,4,5,5,3,3,6, 3,6,3,2,1,3,3,6,6,6, X,X,X,5,2,6,4,X,X,X, X,X,X,3,4,3,3,3,1,2>>
Counts32_400 == <<
  4,5,3,2,2,2,2,4,2,4, 2,4,4,6,5,X,6,5,5,5, 4,4,6,2,4,2,6,4,3,5, 2,5,3,3,2,2,3,4,3,4, 5,6,5,4,3,4,2,1,2,5,
  X,4,4,X,4,6,4,4,4,4, 4,3,X,6,6,5,4,5,5,5>>

(* The arguments of each type: the numbers that have it first, second, and so on. *)
Reads64 == [
  STR |-> <<
     {2, 4, 6, 21, 59, 67, 76, 80, 82, 83, 84, 85, 86, 87, 88, 89, 90, 92, 94,
      132, 133, 137, 155, 161, 163, 165, 166, 167, 168, 170, 171, 176, 188,
      189, 191, 192, 194, 195, 197, 198, 235, 240, 241, 248, 249, 266, 319, 430},
     {30, 82, 86, 88, 103, 155, 165, 179, 188, 189, 190, 191, 192, 193, 197,
      198, 199, 248, 249, 254, 257, 258, 259, 260, 261, 262, 263, 264, 265,
      267, 268, 269, 280, 303, 313, 316, 322, 332, 428, 429, 433, 437, 439,
      442, 452, 463, 464, 465, 466, 467, 468, 469},
     {27, 165, 175, 249, 266, 431},
     {54, 55, 264, 265, 316, 320, 429, 463, 464, 466},
     {301},
     {}>>,
  VSTR |-> <<{}, {59}, {322}, {}, {}, {}>>,
  INPUT_BYTES |-> <<{}, {1, 18, 242}, {}, {}, {}, {}>>,
  OUTPUT_BYTES |-> <<{79, 318}, {0, 17, 89, 194, 195, 196, 243}, {267},
      {465}, {}, {}>>]

Reads32 == [
  STR |-> <<
     {5, 8, 9, 10, 11, 12, 14, 15, 16, 18, 21, 22, 30, 33, 38, 39, 40, 51, 52,
      61, 74, 83, 84, 85, 87, 92, 99, 106, 107, 115, 121, 129, 182, 193, 195,
      196, 198, 212, 217, 226, 227, 229, 230, 232, 233, 235, 236, 268, 271,
      277, 278, 286, 287, 304, 356, 398, 430},
     {9, 21, 38, 83, 103, 131, 217, 226, 227, 228, 229, 230, 231, 235, 236,
      237, 286, 287, 292, 295, 296, 297, 298, 299, 300, 301, 302, 303, 305,
      306, 307, 320, 341, 350, 353, 358, 383, 397, 412, 428, 429, 433, 437,
      439, 442, 452, 463, 464, 465, 466, 467, 468, 469},
     {21, 128, 218, 287, 304, 431},
     {302, 303, 353, 365, 366, 429, 463, 464, 466},
     {},
     {339}>>,
  VSTR |-> <<{}, {11}, {358}, {}, {}, {}>>,
  INPUT_BYTES |-> <<{}, {4, 181, 279, 418}, {}, {}, {}, {}>>,
  OUTPUT_BYTES |-> <<{183, 355}, {3, 85, 180, 232, 233, 234, 280, 419},
      {305}, {465}, {}, {}>>]

Counts64 == <<Counts64_0, Counts64_100, Counts64_200, Counts64_300, Counts64_400>>
Counts32 == <<Counts32_0, Counts32_100, Counts32_200, Counts32_300, Counts32_400>>

argCount(a, n) == (IF a = 64 THEN Counts64 ELSE Counts32)[(n \div 100) + 1][(n % 100) + 1]
Numbers64 == {n \in 0..(SYS64_TABLE_SIZE - 1) : argCount(64, n) # X}
Numbers32 == {n \in 0..(SYS32_TABLE_SIZE - 1) : argCount(32, n) # X}

argType(a, n, i) ==
  LET reads == IF a = 64 THEN Reads64 ELSE Reads32
      types == {t \in DOMAIN reads : n \in reads[t][i]}
  IN  IF types = {} THEN "INT" ELSE CHOOSE t \in types : TRUE

\* The types each row declares.
declared(a, n) == [i \in 1..argCount(a, n) |-> argType(a, n, i)]
get_SYS64_TABLE == [n \in Numbers64 |-> declared(64, n)]
get_SYS32_TABLE == [n \in Numbers32 |-> declared(32, n)]
SYS_TABLE == [a \in {32, 64} |-> IF a = 64 THEN get_SYS64_TABLE ELSE get_SYS32_TABLE]

\* All the fields of a row: ARG_NONE and padding fill it up.
Fields(a, n) ==
  [i \in 1..ArgTypeSlots |-> IF i <= argCount(a, n) THEN argType(a, n, i)
                             ELSE IF i = 1 THEN "NONE" ELSE "0"]

(* What the rows have to be for the tracer to read them: an argument has one type,
   the count of a buffer is the argument after it (print_arg reads arg[index + 1]),
   and both tables end in a row, or lookup_syscall would read past the array. *)
ASSUME RowsAssumption ==
  /\ SYS64_TABLE_SIZE - 1 \in Numbers64 /\ SYS32_TABLE_SIZE - 1 \in Numbers32
  /\ \A a \in {32, 64} :
       LET reads == IF a = 64 THEN Reads64 ELSE Reads32 IN
       \A t, u \in DOMAIN reads : \A i \in 1..ArgTypeSlots : \A n \in reads[t][i] :
         /\ n \in DOMAIN SYS_TABLE[a] /\ i <= argCount(a, n)
         /\ t # u => n \notin reads[u][i]
         /\ t \in {"INPUT_BYTES", "OUTPUT_BYTES"} => i < argCount(a, n)
==============================================================================
