-------------------------------- MODULE Format --------------------------------
(***************************************************************************)
(* How ft_strace shows one argument and the result of a system call: from  *)
(* the register set of the tracee and its memory, which it reads with one  *)
(* process_vm_readv at a time, to what a reader sees.  Strace says when an *)
(* argument is shown; this module says what is shown.                      *)
(*                                                                         *)
(* Everything is scaled down by constants: a byte has Base values, a       *)
(* pointer takes one byte in an i386 program and two in an x86-64 one, and *)
(* the limits 64, 4096, 128 and 4095 of the code are parameters.  The      *)
(* wording of the output is left out; its quoting is not.                  *)
(***************************************************************************)
EXTENDS Integers, Sequences, SequencesExt

CONSTANTS
  Base,        \* the number of values of a byte
  PageSize,    \* bytes in a page
  Cases,       \* what to show: [memories, calls], memories from addresses to bytes
  MaxWrites,   \* bound: what others write into the memory of the tracee
  ByteCap,     \* sizeof(buf) in print_bytes, 64
  StringCap,   \* sizeof(buf) in print_string, 4096
  ArgvCap,     \* the number of elements print_argv reads, 128
  MaxErrno,    \* 4095
  Printable,   \* the bytes isprint accepts
  Quote, Backslash,
  Digits       \* Digits[b]: the decimal digits of a byte that is not printable

Byte == 0..(Base - 1)
Word == Base           \* the registers of an i386 program are below Word
Long == Base * Base    \* those of an x86-64 program below Long

ASSUME ScaleAssumption ==
  /\ Base \in Nat \ {0} /\ Base % 2 = 0 /\ PageSize \in Nat \ {0}
  \* The last address is never mapped: a program's addresses end well below it.
  /\ \A case \in Cases : \A m \in case.memories :
       DOMAIN m \subseteq 0..(Long - 2) /\ \A a \in DOMAIN m : m[a] \in Byte
  /\ ByteCap \in Nat \ {0} /\ StringCap \in Nat \ {0} /\ ArgvCap \in Nat \ {0}
  /\ MaxErrno \in Nat /\ MaxWrites \in Nat
ASSUME CharacterAssumption ==
  /\ {Quote, Backslash} \subseteq Printable /\ Printable \subseteq Byte /\ Quote # Backslash
  /\ \A b \in Byte \ Printable :
       Digits[b] \in Seq(Printable \ {Quote, Backslash}) /\ Digits[b] # <<>>

VARIABLES
  mem,      \* the memory of the tracee
  mapped,   \* the pages it can be read from
  past,     \* history: <<a, b>>, a byte b that address a has held
  alive,    \* the tracee is there: SIGKILL may take it at any moment
  call,     \* an argument the program passes: its type, its index among the six, its
            \* value and that of the next one, the ABI, what the kernel returns, and
            \* shared, the addresses that others can write
  args,     \* struct s_syscall_args: what read_registers has read
  pc,       \* "regs", "arg", "element", "string", "result", "done"
  element,  \* print_argv: the pointer just read
  shown,    \* what the argument shows
  answer    \* what the result shows

vars == <<mem, mapped, past, alive, call, args, pc, element, shown, answer>>
inputs == <<mem, mapped, past, call>>

NoArgs == [arg |-> <<>>, orig_ax |-> 0, rax |-> 0, compat |-> FALSE]

(* What can be shown. *)
Nothing           == [show |-> "nothing"]
Address(a)        == [show |-> "address", value |-> a]
Number(n)         == [show |-> "number", value |-> n]
List(items, end)  == [show |-> "list", items |-> items, end |-> end]
Text(b, q, more)  == [show |-> "text", bytes |-> b, quoted |-> q, more |-> more]
Error(e)          == [show |-> "error", errno |-> e]

BytesTypes == {"INPUT_BYTES", "OUTPUT_BYTES"}
HexTypes == {"FLAGS", "SIGNAL", "STRUCT_PTR", "PTR", "ULONG"}
IntTypes == {"FD", "MODE", "PID", "UID", "GID", "INT"}
ValueTypes == {"OFFSET", "LONG", "SIZE", "UINT"} \cup HexTypes \cup IntTypes

\* A program can only pass, and the kernel only return, what a register holds; the
\* count of a buffer is the argument after it.
Modulus(compat) == IF compat THEN Word ELSE Long
Calls ==
  {c \in [type : BytesTypes \cup {"STR", "VSTR"} \cup ValueTypes, index : 1..6,
          value : 0..(Long - 1), next : 0..(Long - 1), ret : (-Long)..(Long - 1),
          compat : BOOLEAN, shared : SUBSET (0..(Long - 1))] :
     /\ {c.value, c.next} \subseteq 0..(Modulus(c.compat) - 1)
     /\ 2 * c.ret \in (-Modulus(c.compat))..(Modulus(c.compat) - 1)
     /\ c.type \in BytesTypes => c.index < 6}
ASSUME CallAssumption == \A case \in Cases : case.calls \subseteq Calls

Init ==
  /\ \E case \in Cases : mem \in case.memories /\ call \in case.calls
  /\ mapped \in SUBSET {a \div PageSize : a \in DOMAIN mem}
  /\ past = {} /\ args = NoArgs
  /\ alive = TRUE /\ pc = "regs" /\ element = 0
  /\ shown = Nothing /\ answer = Nothing

(***************************************************************************)
(* Registers.                                                              *)
(***************************************************************************)

Low(v) == v % Word
Signed(v, modulus) == IF 2 * v >= modulus THEN v - modulus ELSE v

\* The register an ABI's kernel entry leaves result ret in.
Register(ret, compat) == ret % Modulus(compat)

\* NT_PRSTATUS: the registers in the order the kernel copies them out.
Prstatus(compat) ==
  IF compat
  THEN <<"ebx", "ecx", "edx", "esi", "edi", "ebp", "eax", "ds", "es", "fs", "gs",
         "orig_eax", "eip", "cs", "eflags", "esp", "ss">>
  ELSE <<"r15", "r14", "r13", "r12", "rbp", "rbx", "r11", "r10", "r9", "r8", "rax",
         "rcx", "rdx", "rsi", "rdi", "orig_rax", "rip", "cs", "eflags", "rsp", "ss",
         "fs_base", "gs_base", "ds", "es", "fs", "gs">>

\* The registers a program passes the arguments of a system call in.
Convention(compat) ==
  IF compat THEN <<"ebx", "ecx", "edx", "esi", "edi", "ebp">>
  ELSE <<"rdi", "rsi", "rdx", "r10", "r8", "r9">>

\* The six arguments; those that do not matter differ from the one that does.
Passed == [i \in 1..6 |-> IF i = call.index THEN call.value
                          ELSE IF i = call.index + 1 THEN call.next
                          ELSE (call.value + 1) % Word]

\* The number of the call, different from those arguments.
CallNumber == (call.value + 2) % Word

\* PTRACE_GETREGSET; a register the call does not use holds anything.
Regset ==
  [k \in DOMAIN Prstatus(call.compat) |->
     LET r == Prstatus(call.compat)[k]
         at == {i \in 1..6 : Convention(call.compat)[i] = r}
     IN  IF r \in {"rax", "eax"} THEN Register(call.ret, call.compat)
         ELSE IF r \in {"orig_rax", "orig_eax"} THEN CallNumber
         ELSE IF at = {} THEN (call.value + 1) % Word
         ELSE Passed[CHOOSE i \in at : TRUE]]

user_regs_struct64 ==
  <<"r15", "r14", "r13", "r12", "rbp", "rbx", "r11", "r10", "r9", "r8", "rax", "rcx",
    "rdx", "rsi", "rdi", "orig_rax", "rip", "cs", "eflags", "rsp", "ss", "fs_base",
    "gs_base", "ds", "es", "fs", "gs">>
user_regs_struct32 ==
  <<"ebx", "ecx", "edx", "esi", "edi", "ebp", "eax", "xds", "xes", "xfs", "xgs",
    "orig_eax", "eip", "xcs", "eflags", "esp", "xss">>

\* The fields of a register set that read_registers takes, the layout being a struct.
Taken(regs, layout, fields) ==
  [i \in DOMAIN fields |-> regs[CHOOSE k \in DOMAIN layout : layout[k] = fields[i]]]

\* Mutant: the fourth argument of an x86-64 call is looked for in rcx.
read_registers_rcx(regs) ==
  IF Len(regs) = Len(user_regs_struct64)
  THEN [arg |-> Taken(regs, user_regs_struct64, <<"rdi", "rsi", "rdx", "rcx", "r8", "r9">>),
        orig_ax |-> Taken(regs, user_regs_struct64, <<"orig_rax">>)[1],
        rax |-> Taken(regs, user_regs_struct64, <<"rax">>)[1], compat |-> FALSE]
  ELSE [arg |-> Taken(regs, user_regs_struct32, <<"ebx", "ecx", "edx", "esi", "edi", "ebp">>),
        orig_ax |-> Taken(regs, user_regs_struct32, <<"orig_eax">>)[1],
        rax |-> Taken(regs, user_regs_struct32, <<"eax">>)[1], compat |-> TRUE]

\* The size of the register set says which struct of the union it is; the kernel has
\* no third size, for which read_registers would fail with ENOTSUP.
read_registers(regs) ==
  IF Len(regs) = Len(user_regs_struct64)
  THEN [arg |-> Taken(regs, user_regs_struct64, <<"rdi", "rsi", "rdx", "r10", "r8", "r9">>),
        orig_ax |-> Taken(regs, user_regs_struct64, <<"orig_rax">>)[1],
        rax |-> Taken(regs, user_regs_struct64, <<"rax">>)[1], compat |-> FALSE]
  ELSE [arg |-> Taken(regs, user_regs_struct32, <<"ebx", "ecx", "edx", "esi", "edi", "ebp">>),
        orig_ax |-> Taken(regs, user_regs_struct32, <<"orig_eax">>)[1],
        rax |-> Taken(regs, user_regs_struct32, <<"eax">>)[1], compat |-> TRUE]

ReadRegisters ==
  /\ pc = "regs" /\ alive
  /\ args' = read_registers(Regset)
  /\ pc' = "arg"
  /\ UNCHANGED <<inputs, alive, element, shown, answer>>

\* ESRCH: nothing is shown.
RegistersGone ==
  /\ pc = "regs" /\ ~alive
  /\ pc' = "done"
  /\ UNCHANGED <<inputs, alive, args, element, shown, answer>>

value == args.arg[call.index]
count == args.arg[call.index + 1]

\* Mutant: eax is not sign-extended.
ResultUnsigned(ax, compat) == Signed(ax, Long)

\* The result register as trace reads it.
Result(ax, compat) == IF compat THEN Signed(Low(ax), Word) ELSE Signed(ax, Long)

(***************************************************************************)
(* The tracee's memory.                                                    *)
(***************************************************************************)

Readable(a) == alive /\ a \in DOMAIN mem /\ a \div PageSize \in mapped

\* process_vm_readv copies page by page up to the first one it cannot read; not
\* even the first byte is an error, here the empty sequence.
read_tracee(a, size) ==
  LET copied == Cardinality({k \in 1..size : \A j \in 1..k : Readable(a + j - 1)})
  IN  [k \in 1..copied |-> mem[a + k - 1]]

\* Mutant: a backslash is not escaped.
QuotedNoBackslash(bytes) ==
  LET Char(b) == IF b = Quote THEN <<Backslash, b>>
                 ELSE IF b \in Printable THEN <<b>>
                 ELSE <<Backslash>> \o Digits[b]
  IN  <<Quote>> \o FlattenSeq([i \in DOMAIN bytes |-> Char(bytes[i])]) \o <<Quote>>

print_quoted(bytes) ==
  LET Char(b) == IF b \in {Quote, Backslash} THEN <<Backslash, b>>
                 ELSE IF b \in Printable THEN <<b>>
                 ELSE <<Backslash>> \o Digits[b]
  IN  <<Quote>> \o FlattenSeq([i \in DOMAIN bytes |-> Char(bytes[i])]) \o <<Quote>>

print_bytes(a, length) ==
  LET wanted == Min({length, ByteCap})
      buf == read_tracee(a, wanted)
  IN  IF wanted > 0 /\ buf = <<>> THEN Address(a)
      ELSE Text(buf, print_quoted(buf), Len(buf) < length)

strnlen(buf) == Cardinality({k \in DOMAIN buf : \A j \in 1..k : buf[j] # 0})

\* Mutant: only a full buffer is marked as cut.
PrintStringFullOnly(a) ==
  LET buf == read_tracee(a, StringCap)
      text == SubSeq(buf, 1, strnlen(buf))
  IN  IF buf = <<>> THEN Address(a)
      ELSE Text(text, print_quoted(text), Len(text) = StringCap)

print_string(a) ==
  LET buf == read_tracee(a, StringCap)
      text == SubSeq(buf, 1, strnlen(buf))
  IN  IF buf = <<>> THEN Address(a)
      ELSE Text(text, print_quoted(text), Len(text) = Len(buf))

(***************************************************************************)
(* print_arg.                                                              *)
(***************************************************************************)

\* Mutant: an offset goes through int.
ScalarIntOffset(type, v, compat) ==
  CASE type \in {"SIZE"} \cup HexTypes -> v
    [] type = "UINT" -> Low(v)
    [] OTHER -> Signed(Low(v), Word)

\* A value that is not looked up in memory.
Scalar(type, v, compat) ==
  CASE type \in {"OFFSET", "LONG"} ->
         IF compat THEN Signed(Low(v), Word) ELSE Signed(v, Long)
    [] type \in {"SIZE"} \cup HexTypes -> v
    [] type = "UINT" -> Low(v)
    [] OTHER -> Signed(Low(v), Word)

PrintScalar ==
  /\ pc = "arg" /\ call.type \notin BytesTypes \cup {"STR", "VSTR"}
  /\ shown' = Number(Scalar(call.type, value, args.compat))
  /\ pc' = "result"
  /\ UNCHANGED <<inputs, alive, args, element, answer>>

PrintInputBytes ==
  /\ pc = "arg" /\ call.type = "INPUT_BYTES"
  /\ shown' = print_bytes(value, count)
  /\ pc' = "result"
  /\ UNCHANGED <<inputs, alive, args, element, answer>>

\* Mutant: the whole buffer is shown whatever the call has filled in.
PrintOutputWhole ==
  /\ pc = "arg" /\ call.type = "OUTPUT_BYTES"
  /\ shown' = IF Result(args.rax, args.compat) < 0 THEN Address(value)
              ELSE print_bytes(value, count)
  /\ pc' = "result"
  /\ UNCHANGED <<inputs, alive, args, element, answer>>

\* A buffer the call has filled in, as far as it has.
PrintOutputBytes ==
  /\ pc = "arg" /\ call.type = "OUTPUT_BYTES"
  /\ LET result == Result(args.rax, args.compat)
     IN  shown' = IF result < 0 THEN Address(value)
                  ELSE print_bytes(value, Min({result, count}))
  /\ pc' = "result"
  /\ UNCHANGED <<inputs, alive, args, element, answer>>

PrintString ==
  /\ pc = "arg" /\ call.type = "STR"
  /\ shown' = print_string(value)
  /\ pc' = "result"
  /\ UNCHANGED <<inputs, alive, args, element, answer>>

\* Mutant: the bracket is left to the first element.
StartArgvNoBracket ==
  /\ pc = "arg" /\ call.type = "VSTR"
  /\ shown' = Nothing /\ pc' = "element"
  /\ UNCHANGED <<inputs, alive, args, element, answer>>

\* A vector is shown from its bracket on.
StartArgv ==
  /\ pc = "arg" /\ call.type = "VSTR"
  /\ shown' = List(<<>>, "open") /\ pc' = "element"
  /\ UNCHANGED <<inputs, alive, args, element, answer>>

\* Mutant: the stride is that of the tracer's own pointers.
WidthNative(compat) == 2

\* The bytes of a pointer.
Width(compat) == IF compat THEN 1 ELSE 2

\* The little-endian number in a few bytes.
Pointer(bytes) == FoldRight(LAMBDA b, high : b + Base * high, bytes, 0)

\* The next turn of print_argv's loop, up to its own process_vm_readv.
ReadElement ==
  /\ pc = "element"
  /\ LET i == Len(shown.items)
         w == Width(args.compat)
         bytes == read_tracee((value + i * w) % Long, w)
     IN  \/ /\ i = ArgvCap \/ (Len(bytes) # w /\ i > 0)
            /\ shown' = [shown EXCEPT !.end = "cut"]
            /\ pc' = "result" /\ UNCHANGED element
         \/ /\ i = 0 /\ Len(bytes) # w
            /\ shown' = Address(value)
            /\ pc' = "result" /\ UNCHANGED element
         \/ /\ i < ArgvCap /\ Len(bytes) = w /\ Pointer(bytes) = 0
            /\ shown' = [shown EXCEPT !.end = "closed"]
            /\ pc' = "result" /\ UNCHANGED element
         \/ /\ i < ArgvCap /\ Len(bytes) = w /\ Pointer(bytes) # 0
            /\ element' = Pointer(bytes)
            /\ pc' = "string" /\ UNCHANGED shown
  /\ UNCHANGED <<inputs, alive, args, answer>>

\* The string the pointer points to, in a process_vm_readv of its own.
PrintElement ==
  /\ pc = "string"
  /\ shown' = [shown EXCEPT !.items = Append(shown.items, print_string(element))]
  /\ pc' = "element"
  /\ UNCHANGED <<inputs, alive, args, element, answer>>

PrintResult ==
  /\ pc = "result"
  /\ LET result == Result(args.rax, args.compat)
     IN  answer' = IF result < 0 /\ result >= -MaxErrno THEN Error(-result)
                   ELSE Number(args.rax)
  /\ pc' = "done"
  /\ UNCHANGED <<inputs, alive, args, element, shown>>

\* SIGKILL: the address space is gone, between any two reads.
Vanish ==
  /\ alive /\ pc # "done"
  /\ alive' = FALSE
  /\ UNCHANGED <<inputs, args, pc, element, shown, answer>>

\* Another thread, or a process that shares the page, writes between two reads.
Overwrite ==
  /\ pc # "done" /\ Cardinality(past) < MaxWrites
  /\ \E a \in call.shared : \E b \in Byte \ {mem[a]} :
       /\ mem' = [mem EXCEPT ![a] = b]
       /\ past' = past \cup {<<a, mem[a]>>}
  /\ UNCHANGED <<mapped, call, alive, args, pc, element, shown, answer>>

Over == pc = "done" /\ UNCHANGED vars

Next ==
  \/ ReadRegisters \/ RegistersGone
  \/ PrintScalar \/ PrintInputBytes \/ PrintOutputBytes \/ PrintString
  \/ StartArgv \/ ReadElement \/ PrintElement \/ PrintResult \/ Vanish \/ Overwrite
  \/ Over

Spec == Init /\ [][Next]_vars

(***************************************************************************)
(* What a reader may conclude.                                             *)
(***************************************************************************)

TypeOK ==
  /\ \A a \in DOMAIN mem : mem[a] \in Byte
  /\ pc \in {"regs", "arg", "element", "string", "result", "done"}
  /\ element \in 0..(Long - 1)
  /\ shown.show \in {"nothing", "address", "number", "list", "text"}
  /\ pc \in {"element", "string"} => shown.show = "list" /\ shown.end = "open"
  /\ answer.show \in {"nothing", "number", "error"}

There(a) == a \in DOMAIN mem /\ a \div PageSize \in mapped

\* What address a has held since the tracee stopped.
Held(a) == {mem[a]} \cup {w[2] : w \in {w \in past : w[1] = a}}

\* The bytes of a text are those at a.
IsAt(text, a) ==
  \A k \in DOMAIN text.bytes : There(a + k - 1) /\ text.bytes[k] \in Held(a + k - 1)

\* What is taken for the number, the arguments, the result and the ABI of a call is what the
\* program has put into the registers of its ABI, whichever struct of the union they
\* are read through.
RegistersTrue ==
  pc \notin {"regs", "done"} =>
    args = [arg |-> Passed, orig_ax |-> CallNumber,
            rax |-> Register(call.ret, call.compat), compat |-> call.compat]

\* A buffer shows bytes of the tracee and no others: of an input at most as many as
\* the call was given, of an output at most as many as it has filled in and none
\* if it failed.  Fewer are marked as cut, and are fewer only for the limit or a
\* page that cannot be read; a buffer that cannot be read shows where it is.
Meant == IF call.type = "INPUT_BYTES" THEN call.next
         ELSE Cardinality((0..(call.next - 1)) \cap (0..(call.ret - 1)))
BuffersTrue ==
  pc = "result" /\ call.type \in BytesTypes =>
    \/ shown = Address(call.value)
    \/ /\ shown.show = "text" /\ IsAt(shown, call.value)
       /\ call.type = "OUTPUT_BYTES" => call.ret >= 0
       /\ Len(shown.bytes) <= Meant
       /\ shown.more = (Len(shown.bytes) # Meant)
       /\ shown.more => Len(shown.bytes) = ByteCap
                        \/ ~There(call.value + Len(shown.bytes))

\* A string without dots is the whole string, up to its NUL; one with dots goes on
\* past the limit or into a page that cannot be read.
StringTrue(text, a) ==
  /\ IsAt(text, a)
  /\ \A k \in DOMAIN text.bytes : text.bytes[k] # 0
  /\ LET end == a + Len(text.bytes)
     IN  IF text.more THEN Len(text.bytes) = StringCap \/ ~There(end)
         ELSE There(end) /\ 0 \in Held(end)
StringsTrue ==
  (call.type = "STR" /\ shown.show = "text") => StringTrue(shown, call.value)

\* A vector shows the strings its pointers point to, the pointers being as wide as
\* those of the program, each of them and each byte of them as it was at some moment
\* if others write meanwhile.  A closed one has no more of them; one that is cut has
\* run into its limit, into a page that cannot be read, or its program is gone.
SlotOf(k) ==
  LET a == call.value + (k - 1) * (IF call.compat THEN 1 ELSE 2)
  IN  IF call.compat THEN {a} ELSE {a, a + 1}
PointersAt(k) ==
  LET a == call.value + (k - 1) * (IF call.compat THEN 1 ELSE 2)
  IN  IF call.compat THEN Held(a) ELSE {b + Base * c : b \in Held(a), c \in Held(a + 1)}
VectorsTrue ==
  call.type = "VSTR" /\ shown.show = "list" =>
    /\ \A k \in DOMAIN shown.items :
         /\ \A a \in SlotOf(k) : There(a)
         /\ \E p \in PointersAt(k) \ {0} :
              \/ shown.items[k] = Address(p)
              \/ shown.items[k].show = "text" /\ StringTrue(shown.items[k], p)
    /\ LET next == Len(shown.items) + 1
       IN  /\ shown.end = "closed" =>
                (\A a \in SlotOf(next) : There(a)) /\ 0 \in PointersAt(next)
           /\ shown.end = "cut" =>
                \/ Len(shown.items) = ArgvCap
                \/ ~alive
                \/ \E a \in SlotOf(next) : ~There(a)

\* The closing quote of a text is the first quote that is not escaped: no byte of the
\* program can end a text early or swallow its end.
ScanStep(st, c) ==
  CASE st = "before" /\ c = Quote -> "inside"
    [] st = "inside" /\ c = Backslash -> "escaped"
    [] st = "inside" /\ c = Quote -> "closed"
    [] st = "inside" /\ c \notin {Quote, Backslash} -> "inside"
    [] st = "escaped" -> "inside"
    [] OTHER -> "wrong"
Scan(chars) == FoldLeft(ScanStep, "before", chars)
Texts ==
  {t \in {shown} \cup (IF shown.show = "list" THEN Range(shown.items) ELSE {}) :
     t.show = "text"}
QuotesDelimit ==
  \A t \in Texts : Scan(t.quoted) = "closed"

\* A number has the width and the sign of the C type the kernel takes it as: it is
\* congruent to the register, and in the range of that type.
Range64(type) ==
  IF type \in {"OFFSET", "LONG"} THEN (-(Long \div 2))..((Long \div 2) - 1)
  ELSE IF type \in IntTypes THEN (-(Word \div 2))..((Word \div 2) - 1)
  ELSE IF type = "UINT" THEN 0..(Word - 1)
  ELSE 0..(Long - 1)
Range32(type) ==
  IF type \in {"OFFSET", "LONG"} \cup IntTypes THEN (-(Word \div 2))..((Word \div 2) - 1)
  ELSE 0..(Word - 1)
NumbersTrue ==
  shown.show = "number" =>
    LET range == IF call.compat THEN Range32(call.type) ELSE Range64(call.type)
    IN  /\ shown.value \in range
        /\ (shown.value - call.value) % Cardinality(range) = 0

\* The result is shown as an error exactly if the kernel returned one of its error
\* numbers to a program of that ABI, and otherwise as the register.
ErrorsTrue ==
  pc = "done" /\ args # NoArgs =>
    answer = IF call.ret \in (-MaxErrno)..(-1) THEN Error(-call.ret)
             ELSE Number(Register(call.ret, call.compat))
==============================================================================
