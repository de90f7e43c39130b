------------------------------- MODULE MCFormat -------------------------------
(***************************************************************************)
(* Bytes of eight values: an i386 pointer is below 8, an x86-64 one below  *)
(* 64.  Byte 0 is NUL, 1 the quote, 3 the backslash, 2 is not printable.   *)
(***************************************************************************)
EXTENDS Format

MCDigits == [b \in {0, 2} |-> IF b = 0 THEN <<4>> ELSE <<6>>]

\* An argument at index 2; nobody shares the memory.
Case(types, values, nexts, rets, abis) ==
  [type : types, index : {2}, value : values, next : nexts, ret : rets, compat : abis,
   shared : {{}}]

Results32 == -4..3
Results64 == -32..31

\* Buffers: every page readable or not, addresses up to and past the last page,
\* counts around the limit, results around zero and around the count.
BufferMemories == {[a \in 0..7 |-> a]}
BufferArguments ==
  Case({"INPUT_BYTES", "OUTPUT_BYTES"}, {0, 1, 5, 7}, 0..5, {-4, -3, -1, 0, 1, 2, 3}, {TRUE})
  \cup Case({"INPUT_BYTES", "OUTPUT_BYTES"}, {0, 1, 6, 7, 8, 63}, {0, 1, 3, 4, 5, 63},
            {-32, -3, -1, 0, 1, 3, 31}, {FALSE})

\* Strings and vectors: every content of a short memory.
TextMemories == [0..5 -> {0, 1, 3}]
TextArguments ==
  Case({"STR", "VSTR"}, {0, 1, 2, 4, 7}, {0}, {0}, {TRUE})
  \cup Case({"STR", "VSTR"}, {0, 1, 2, 3, 63}, {0}, {0}, {FALSE})

\* Vectors of one and two strings that others overwrite while they are read.
SharedMemories == {[a \in 0..5 |-> <<4, 5, 0, 0, 3, 0>>[a + 1]],
                   [a \in 0..5 |-> <<4, 0, 5, 0, 1, 0>>[a + 1]]}
SharedCalls == [type : {"VSTR"}, index : 1..6, value : {0}, next : {0}, ret : {0},
                compat : BOOLEAN, shared : {{0, 4}, {2, 5}}]

\* Every place of an argument.
PlacedCalls == [type : {"ULONG"}, index : 1..6, value : 0..7, next : {0}, ret : {0, -1, 3},
                compat : BOOLEAN, shared : {{}}]

\* Numbers and results: every register.
Scalars == {"OFFSET", "LONG", "SIZE", "UINT"} \cup HexTypes \cup IntTypes
NumberArguments ==
  Case(Scalars, 0..7, {0}, {0}, {TRUE})
  \cup Case(Scalars, 0..63, {0}, {0}, {FALSE})
  \cup Case({"INT"}, {0}, {0}, Results32, {TRUE})
  \cup Case({"INT"}, {0}, {0}, Results64, {FALSE})

MCCases ==
  {[memories |-> BufferMemories,
    calls |-> BufferArguments \cup NumberArguments \cup PlacedCalls],
   [memories |-> TextMemories, calls |-> TextArguments],
   [memories |-> SharedMemories, calls |-> SharedCalls]}
==============================================================================
