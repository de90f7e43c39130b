-------------------------------- MODULE Matrix --------------------------------
(***************************************************************************)
(* The two system call tables, as two readers see them: the generator of   *)
(* the syscall matrix (portfolio_audit/tools/generate_syscall_matrix.py),  *)
(* which reads strace_data.h line by line, and lookup_syscall of           *)
(* ft_strace.c, which reads the arrays the compiler makes of it.           *)
(*                                                                         *)
(* A row's identifier and name are abstracted to the number of its line.   *)
(* The counts of names and of argument kinds are left out; whether the     *)
(* baseline counts kept in the script fit the table is left open.          *)
(***************************************************************************)
EXTENDS Integers, Sequences, FiniteSets, SequencesExt

CONSTANTS
  Sources,    \* the versions of strace_data.h: sequences of lines
  ArgTypes,   \* the argument types a row may name, padding included
  MaxArgs     \* argument fields of a row: 6

ASSUME MatrixAssumption == MaxArgs \in Nat \ {0} /\ {"0", "NONE"} \subseteq ArgTypes

ABIs == {"x86_64", "i386"}
NoSize == -1

\* What the two expressions can match: numbers, and fields between commas.
SourceLines ==
  [kind : {"row"}, abi : ABIs, number : Nat, count : Nat, fields : Seq(ArgTypes)]
    \cup [kind : {"size"}, abi : ABIs, size : Nat] \cup [kind : {"other"}]
ASSUME LinesAssumption == \A lines \in Sources : lines \in Seq(SourceLines)

VARIABLES
  source,   \* the file
  pc,       \* parse, calculate, compress, verify, raised, written
  line,     \* parse_source: the next line
  rows,     \* parse_source: per ABI, the rows read
  sizes,    \* parse_source: per ABI, the last table size read
  abi,      \* calculate: the ABI at hand
  rest,     \* compress_ranges: the gaps not looked at, the least of which is next
  open,     \* compress_ranges: <<start, previous>>
  ranges    \* calculate: per ABI, the ranges of gaps

vars == <<source, pc, line, rows, sizes, abi, rest, open, ranges>>

Init ==
  /\ source \in Sources
  /\ pc = "parse" /\ line = 1
  /\ rows = [a \in ABIs |-> <<>>]
  /\ sizes = [a \in ABIs |-> NoSize]
  /\ abi = "x86_64"
  /\ rest = {} /\ open = <<0, 0>>
  /\ ranges = [a \in ABIs |-> <<>>]

-------------------------------------------------------------------------------
\* parse_source.

AtLine(kind) == pc = "parse" /\ line <= Len(source) /\ source[line].kind = kind

ParseSize ==
  /\ AtLine("size")
  /\ sizes' = [sizes EXCEPT ![source[line].abi] = source[line].size]
  /\ line' = line + 1
  /\ UNCHANGED <<source, pc, rows, abi, rest, open, ranges>>

\* A line neither expression matches.
SkipLine ==
  /\ AtLine("other")
  /\ line' = line + 1
  /\ UNCHANGED <<source, pc, rows, sizes, abi, rest, open, ranges>>

\* Mutant: the padding check leaves out the last declared argument.
DeclaredShort(l) == SubSeq(l.fields, 1, l.count - 1)

\* all_arg_fields[:arg_count]: a slice ends at the end of the tuple.
Declared(l) ==
  SubSeq(l.fields, 1, IF l.count < Len(l.fields) THEN l.count ELSE Len(l.fields))

WellFormed(l) ==
  /\ Len(l.fields) = MaxArgs
  /\ l.count \in 0..MaxArgs
  /\ ToSet(Declared(l)) \cap {"0", "NONE"} = {}

ParseRow ==
  /\ AtLine("row")
  /\ LET l == source[line] IN
     /\ WellFormed(l)
     /\ rows' = [rows EXCEPT ![l.abi] =
                   Append(@, [number |-> l.number, types |-> Declared(l), line |-> line])]
  /\ line' = line + 1
  /\ UNCHANGED <<source, pc, sizes, abi, rest, open, ranges>>

RejectRow ==
  /\ AtLine("row")
  /\ ~WellFormed(source[line])
  /\ pc' = "raised"
  /\ UNCHANGED <<source, line, rows, sizes, abi, rest, open, ranges>>

\* The rows of a number up to row i, and those of the numbers before it.
UpToRow(s, i) ==
  {j \in DOMAIN s : s[j].number < s[i].number \/ (s[j].number = s[i].number /\ j <= i)}

\* sort(key=number) keeps the order of rows with one number.
Sorted(s) ==
  [k \in DOMAIN s |-> s[CHOOSE i \in DOMAIN s : Cardinality(UpToRow(s, i)) = k]]

Sort ==
  /\ pc = "parse" /\ line > Len(source)
  /\ rows' = [a \in ABIs |-> Sorted(rows[a])]
  /\ pc' = "calculate"
  /\ UNCHANGED <<source, line, sizes, abi, rest, open, ranges>>

-------------------------------------------------------------------------------
\* calculate and compress_ranges, for one ABI after the other.

Numbers(a) == {r.number : r \in ToSet(rows[a])}

\* Mutant: number > sizes[abi] instead of >=.
SoundOffByOne(a) ==
  /\ sizes[a] # NoSize
  /\ Cardinality(Numbers(a)) = Len(rows[a])
  /\ \A n \in Numbers(a) : n <= sizes[a]

\* Mutant: a table without a size is not refused.
SoundUnsized(a) ==
  /\ Cardinality(Numbers(a)) = Len(rows[a])
  /\ \A n \in Numbers(a) : n < sizes[a]

Sound(a) ==
  /\ sizes[a] # NoSize
  /\ Cardinality(Numbers(a)) = Len(rows[a])
  /\ \A n \in Numbers(a) : n < sizes[a]

RejectTable ==
  /\ pc = "calculate" /\ ~Sound(abi)
  /\ pc' = "raised"
  /\ UNCHANGED <<source, line, rows, sizes, abi, rest, open, ranges>>

\* Listed in ascending order.
Gaps(a) == 0..sizes[a] - 1 \ Numbers(a)

NextAbi == /\ abi' = "i386"
           /\ pc' = IF abi = "x86_64" THEN "calculate" ELSE "verify"

NoGaps ==
  /\ pc = "calculate" /\ Sound(abi) /\ Gaps(abi) = {}
  /\ NextAbi
  /\ UNCHANGED <<source, line, rows, sizes, rest, open, ranges>>

StartRanges ==
  /\ pc = "calculate" /\ Sound(abi) /\ Gaps(abi) # {}
  /\ open' = <<Min(Gaps(abi)), Min(Gaps(abi))>>
  /\ rest' = Gaps(abi) \ {Min(Gaps(abi))}
  /\ pc' = "compress"
  /\ UNCHANGED <<source, line, rows, sizes, abi, ranges>>

ExtendRange ==
  /\ pc = "compress" /\ rest # {}
  /\ Min(rest) = open[2] + 1
  /\ open' = <<open[1], Min(rest)>>
  /\ rest' = rest \ {Min(rest)}
  /\ UNCHANGED <<source, pc, line, rows, sizes, abi, ranges>>

\* Mutant: start is not reset when a range is closed.
CloseRangeKeepStart ==
  /\ pc = "compress" /\ rest # {}
  /\ Min(rest) # open[2] + 1
  /\ ranges' = [ranges EXCEPT ![abi] = Append(@, open)]
  /\ open' = <<open[1], Min(rest)>>
  /\ rest' = rest \ {Min(rest)}
  /\ UNCHANGED <<source, pc, line, rows, sizes, abi>>

CloseRange ==
  /\ pc = "compress" /\ rest # {}
  /\ Min(rest) # open[2] + 1
  /\ ranges' = [ranges EXCEPT ![abi] = Append(@, open)]
  /\ open' = <<Min(rest), Min(rest)>>
  /\ rest' = rest \ {Min(rest)}
  /\ UNCHANGED <<source, pc, line, rows, sizes, abi>>

CloseLast ==
  /\ pc = "compress" /\ rest = {}
  /\ ranges' = [ranges EXCEPT ![abi] = Append(@, open)]
  /\ NextAbi
  /\ UNCHANGED <<source, line, rows, sizes, rest, open>>

-------------------------------------------------------------------------------
\* verify_invariants, then the matrix is written.

Verify ==
  /\ pc = "verify"
  /\ pc' \in {"written", "raised"}
  /\ UNCHANGED <<source, line, rows, sizes, abi, rest, open, ranges>>

Next == \/ ParseSize \/ SkipLine \/ ParseRow \/ RejectRow \/ Sort
        \/ RejectTable \/ NoGaps \/ StartRanges
        \/ ExtendRange \/ CloseRange \/ CloseLast \/ Verify

Spec == Init /\ [][Next]_vars

-------------------------------------------------------------------------------
\* The tables in ft_strace.  An array is as long as its highest designator asks
\* for, whatever SYS64_TABLE_SIZE says, and of two initializers of one slot the
\* later counts.

Unknown == 0    \* a slot without a name: NULL
Beyond == -1    \* memory after the array

RowLines(a) == {i \in DOMAIN source : source[i].kind = "row" /\ source[i].abi = a}
Within(a, n) == \E i \in RowLines(a) : n <= source[i].number
Slot(a, n) == LET at == {i \in RowLines(a) : source[i].number = n}
              IN IF at = {} THEN Unknown ELSE Max(at)

\* The line of the row that lookup_syscall finds for number n.
lookup_syscall(a, n) ==
  IF n >= sizes[a] THEN Unknown ELSE IF Within(a, n) THEN Slot(a, n) ELSE Beyond

-------------------------------------------------------------------------------
\* Types; a table that has been calculated has a size.
TypeOK ==
  /\ pc \in {"parse", "calculate", "compress", "verify", "raised", "written"}
  /\ line \in 1..Len(source) + 1
  /\ \A a \in ABIs : \A r \in ToSet(rows[a]) :
       /\ r.number \in Nat /\ r.line \in 1..line - 1
       /\ ToSet(r.types) \subseteq ArgTypes
  /\ sizes \in [ABIs -> Nat \cup {NoSize}]
  /\ abi \in ABIs
  /\ \A n \in rest : n \in open[2] + 1..sizes[abi] - 1
  /\ pc \in {"verify", "written"} => \A a \in ABIs : sizes[a] # NoSize

\* The ranges a written matrix gives are the gaps of the C arrays: exactly the
\* slots without a row, ascending, and no two of them could be joined.
GapsExact ==
  pc = "written" =>
    \A a \in ABIs :
      /\ \A n \in 0..sizes[a] : (\E r \in ToSet(ranges[a]) : n \in r[1]..r[2])
                                  <=> (n < sizes[a] /\ Slot(a, n) = Unknown)
      /\ \A i, j \in DOMAIN ranges[a] : i < j => ranges[a][i][2] + 1 < ranges[a][j][1]

\* "This matches the runtime bounds/name lookup" (syscall_matrix.md:8): of the
\* numbers a table reaches and the one after it, ft_strace finds exactly the row
\* the matrix lists, and none for the others.  It needs what both tables have
\* and the generator does not check: a row in the last slot.
RecognisedAsListed ==
  pc = "written" =>
    \A a \in ABIs : Slot(a, sizes[a] - 1) # Unknown =>
      /\ \A r \in ToSet(rows[a]) : lookup_syscall(a, r.number) = r.line
      /\ \A n \in 0..sizes[a] \ Numbers(a) : lookup_syscall(a, n) = Unknown

\* print_entry walks argCount fields of the row that lookup_syscall finds: for
\* a table the generator accepts, all of them exist and none is padding.
ArgumentsTyped ==
  pc = "written" =>
    \A a \in ABIs : \A n \in 0..sizes[a] :
      lookup_syscall(a, n) > 0 =>
        LET l == source[lookup_syscall(a, n)]
        IN \A i \in 1..l.count : i <= MaxArgs /\ l.fields[i] \notin {"0", "NONE"}
==============================================================================
