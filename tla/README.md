# Verification of ft_strace

`ft_strace` (`src/ft_strace.c`) runs one program, stops it at every system call with
`ptrace`, and prints the call, its arguments and its result. Beside it, the repository
holds an audit harness in Python that runs the tracer and GNU strace over fifteen
fixtures, records what both print, and publishes a judgement. This directory models
both in TLA+, checks the models with TLC and proves every invariant, every action property
and the refinement of the passing runs with TLAPS.

## The system

| Component | State it keeps | Operations | Talks to |
|---|---|---|---|
| The child (Linux) | life, ptrace-stop, pending signals, program, wait status | fork, `raise(SIGSTOP)`, system calls, execve, exit, signals | the tracer, through ptrace-stops and wait statuses; anybody, through signals |
| Launch and seizure (`main`, 303-347) | how far the setup is; which handlers are installed | check, fork, three `signal()`, wait, `PTRACE_SEIZE`, `PTRACE_INTERRUPT`, wait | the child, through ptrace and waitpid |
| Trace loop (`trace`, 248-301) | `in_syscall`, `deliver`, `compat`, the pending call | resume, wait, classify, print | the child; the formatting |
| Handlers (`handler`, `handler_term`, 19-38) | `pid_temp` | kill, wait, print, `_exit(1)` | run on top of any step of `main`, and of each other |
| Hand-over (`main`, 348-366) | the last status | print, return the code or die of the signal; error path | the shell that started the tracer |
| Formatting (40-112, 156-199, 284-289) | none | one argument or result from registers and memory | the memory of the child, through `process_vm_readv` |
| Tables (`include/strace_data.h`), registers (`include/user.h`) | constants | lookup | the trace loop |
| Process execution (`execute_process`, `run_baseline.py:122-199`) | one command, its group, two pipes | spawn, read, time out, kill, collect | the command and its descendants |
| Baseline runner, i386 runner (`portfolio_audit/tools/run_*.py`) | files under `raw/` | execute, capture, index | the analysis, through files |
| Analysis (`portfolio_audit/tools/analyze_results.py`) | `test_results.json`, `.md` | read, judge, publish | the runners' files |
| Matrix generator (`portfolio_audit/tools/generate_syscall_matrix.py`) | none; `syscall_matrix.md` | parse, check, write | reads the tables' source |
| Table scaffolding, fixtures, tutorial, Makefile, documents | - | - | not modelled, see below |

What is hard here: the tracer sees its child only through a sequence of stops, decides
by a toggle which of them are entries and which exits, and shares the child with
everybody who may send it a signal, SIGKILL above all, between any two of its steps;
three signals may interrupt it anywhere and end it through code of their own; what it
prints late must belong to what it read early, although an `execve` may have replaced
ABI, table and address space in between. The harness has crashes between file
operations, tools that run side by side, and commands that outlive their timeout or leave
descendants behind. `PROJECT.json` lists each hazard with the
line where it bites and the properties that cover it.

What makes each component correct: the launch lets nothing run unwatched and leaves
nothing behind; the loop records exactly what happened, in order, and passes signals
through untouched; the handlers end both processes; the hand-over tells how the child
ended; the formatting shows nothing that is not there and marks what is missing; the
harness publishes one run's healthy evidence.

## Modules

| Module | What it is |
|---|---|
| `Tracee` | The child as the kernel shows it. External, but for `ft_strace.c:333-338`. |
| `Strace` | The tracer, on top of `Tracee`: one action per system call it makes or per decision between two. |
| `Recorder` | The abstract specification: a synchronous record of a program. `Strace` implements it. |
| `Tables` | The rows of `strace_data.h`: counts, and the types that read memory. |
| `MCStrace` | A small program that makes four of the calls in `Tables`. |
| `StraceProofs` | The theorems about the toggle, the signals' hand-over, the end and the record of `Strace`. |
| `LineProofs` | The theorems about the lines that `Strace` prints, on top of `StraceProofs`. |
| `Format`, `MCFormat` | From registers and memory to an argument and a result that are shown, and scaled inputs. |
| `FormatProofs` | The theorems about `Format`. |
| `Execute` | One command run by the harness, with its descendants, pipes and timeout. |
| `ExecuteProofs` | The theorems about `Execute`. |
| `Audit`, `MCAudit` | The three tools of the harness, and a small set of captures. |
| `AuditProofs` | The theorems about `Audit`. |
| `Matrix`, `MCMatrix` | The tables as the matrix generator and the tracer read them: the real ones, and short ones. |
| `MatrixProofs` | The theorems about `Matrix`. |
| `DataLemmas` | Facts about numbers, sequences and folds that several of the proofs need. |

Definitions whose comment begins with *Mutant* are not part of a specification: each is
a plausible bug of the definition that follows it, and the property it is listed with in
`PROJECT.json` must find it.

### Tracee and Strace

`Tracee` has the child's variables and complete steps of the child and its environment:
`EnterCall`, `LeaveCall`, `ExecImage`, `ExitCall`, `TrapStop`, `SignalStop`, `Die`,
`SendSignal`, `SendKill` and the steps of a child nobody traces. The tracer's requests
are effects (`Seize`, `Interrupt`, `Resume`, `Collect`, `SigKill`, `TracerGone`) that
the tracer's actions include. Four history variables serve properties only: `hist` (the
events a trace has to show), `acted` (signals received), `early` (continued before the
seizure) and `blind` (ran a program image untraced).

In `Strace`, `pc` is the next system call of the tracer:

| `pc` | Action | Code |
|---|---|---|
| `start`, `fork` | `Refuse`, `Accept`, `Fork`, `ForkFails` | 303-332 |
| `install` | `Install` | 339-341 |
| `await`, `seize`, `interrupt`, `settle` | `Await`, `SeizeChild`, `InterruptChild`, `Settle` | 344-347 |
| `resume`, `wait` | `ResumeChild`, `WaitStop` with `Classify` | 256-270 |
| `siginfo` | `ReportSignal` | 271-278 |
| `regs`, `report` | `ReadRegisters`, `ReportStop` | 280-299 |
| `finish`, `announce`, `leave` | `Finish`, `Announce`, `LeaveMain` | 260-266, 353-366 |
| `fail`, `failwait`, `return` | `Fail`, `FailWait`, `ReturnError` | 348-352 |

`frames` is the stack of handlers running on top of `main`, each at `kill`, `wait` or
`say`. The output is three histories: `log` (what the trace shows of the child's events),
`modes` (the lines that announce an ABI) and `said` (the last lines); `line` is the line
of the current call, argument by argument, with the address space each piece of memory
was read from. A ptrace request on a child that is not stopped is ESRCH, which is how a
SIGKILL between two steps shows. `errno`, wording and the values of arguments are left
out.

### Tables

`Counts64_*` and `Counts32_*` hold the argument count of every number, `X` standing for a
number without a row, and `Reads64` and `Reads32` the numbers whose first, second, ...
argument is a string, a vector of strings or a buffer. Every other type is shown by its
value and is `"INT"` here, so that `SYS_TABLE` is what `lookup_syscall` returns as far as
the trace loop can tell rows apart; names are left out. `RowsAssumption` is evaluated with
every run that uses the rows: all of them have a count of at most `ArgTypeSlots`, types
within the count, and a count argument behind every buffer.

### Format

One behaviour shows one argument and the result, from `PTRACE_GETREGSET` on. The kernel's
register sets are sequences of named registers in its own order, the structs of `user.h`
lie over them field by field, and `read_registers` picks the six arguments, the number and
the result from the one that the size says; the argument may be any of the six. A byte has `Base` values, an i386
pointer takes one byte and an x86-64 pointer two, and the limits 64, 4096, 128 and 4095
are parameters. `process_vm_readv` is external: it copies up to the first page that cannot
be read, and one that cannot read the first byte fails. Each read of `print_argv` is a
step of its own; `Vanish`, a SIGKILL, and `Overwrite`, a write of another thread or of a
process that shares the page, may fall between any two. `past` is a history of what was
overwritten: a vector is true if each byte of it was there at some moment.

### Execute

`state`, `group` and `holds` say of the command and each descendant whether it runs, whether
it has left the process group of the command, and which of the two pipes it may write to.
`Popen`, `Read`, `EndOfFile`, `Reap`, `Timeout` and `KillGroup` are the runner's steps:
`communicate()` reads both pipes until nobody holds them and then reaps; a timeout kills the
group and collects a second time, without a timeout. A fork and the kill of the group exclude
each other, as they do in the kernel. `Interrupt` is Ctrl-C at the runner, which does not
reach the command's session. `Audit` takes all of this in one step with three outcomes.

### Audit

A capture is four files; a file says which run wrote it and whether the analysis likes
it. Each unlink, each file written, each file read and each index written is a step, and
each tool may be interrupted before any of them. `Overlap` says whether two tools may be
at work at the same time. At most one runner of each kind runs.

### Matrix

The source is a sequence of rows, table sizes and other lines. The generator reads it
line by line, sorts by number (rows of one number stay in the order of their lines), checks,
and compresses the gaps number by number, or raises; the ascending list of the gaps that are
still to be looked at is a set whose least element comes next;
`verify_invariants` compares with counts kept in the script and may go either way. The
tracer's side is the meaning of the designated initializers (an array as long as its
highest row, the later of two rows in a slot; `-Werror` would refuse the latter) and
`lookup_syscall`. The two readers meet in `RecognisedAsListed`, whose condition, a row in
the last slot, both tables meet at `strace_data.h:369` and `797` and nothing checks.

## Runs

| Run | Shows | States |
|---|---|---|
| `trace` | types, toggle, injection, conservation of signals, error path, refinement of `Recorder`, death with the tracer; signals TRAP, TERM, TSTP, CONT and KILL for the child, INT and KILL for the tracer | 370 000 |
| `calls` | complete lines, memory read in time, announced ABI; rows of both real tables, execve from one ABI to the other, SIGKILL | 3 600 000 |
| `setup` | nothing left behind, nothing untraced, no SIGKILL to a number that is free again but in three cases; SIGINT, SIGTERM, SIGKILL on the tracer and SIGCONT, SIGTERM, SIGKILL on the child from the first step | 1 600 000 |
| `live` | stops are answered, deaths noticed, interrupts and the setup end | 40 000 |
| `shown` | registers and formatting against reference definitions: arguments in every place, buffers, numbers and results, strings and vectors, memory that others overwrite | 3 100 000 |
| `execute` | output whole, status true, the group dead after a timeout; a capture ends | 140 000 |
| `audit` | published evidence is healthy and of one run; three runs, one tool at a time | 7 300 000 |
| `overlap` | captures, index and environment stay consistent; two runs, all tools at once | 360 000 |
| `matrix` | the matrix lists what the tracer recognises, exact gaps, no padding declared; the real tables and short ones, sound and unsound | 52 000 |
| `handover`, `killed_line`, `i386_index` | three disagreements, below | - |

**Bounds.** `MaxEvents` bounds the stops of the child in one behaviour. Two or three
events are enough for a call with a signal between entry and exit; `calls` needs seven,
for a call, an execve into the other ABI and calls of both tables. Signals are one of each
kind that the code or the kernel tells apart: fatal, stopping, continuing, SIGTRAP.
The calls of `MCStrace` are numbers of the real tables that mean something different in each
ABI, so that a lookup in the wrong table always shows. In `Execute` two descendants are enough
for one that leaves the group and one that does not, and two writes to a pipe that holds one
for a writer that waits. In `Format` the memories and limits are smaller than the counts
and strings, so that every limit is met from both sides, and `MaxWrites` lets others write
twice. In `Audit` three runs allow a
complete one, an interrupted one and one of the other runner. `EarlyCont` is on in `setup`
only: a SIGCONT before the seizure is what the toggle cannot survive (see hazards), so the
properties of the loop say `~early`.

**Fairness.** `FairSpec` asks for weak fairness of the tracer's steps and of a child that
has somewhere to go: to its `raise(SIGSTOP)`, to a stop it owes, to its death. That is
what a scheduler gives. Nothing obliges the program to make or to finish a call, nor
anybody to send a signal: a call that blocks for ever makes the tracer wait for ever, and
rightly. `Execute` asks for weak fairness of the runner, of its timeout, which every caller
passes, and of the death of a killed process; the command need not end, close or write
anything.

**Disagreements found.**

* `handover`: `src/README.md:23` promises that the tracer hands on its child's exit. A
  SIGKILL that finds the child in a stop that `trace` has collected makes the next ptrace
  request fail with ESRCH, and `main` prints an error and returns 1.
* `killed_line`: `handler_term` prints `+++ killed by SIGKILL +++` without looking at the
  status; a child that had exited by itself is reported as killed
  (`portfolio_audit/feature_inventory.md:48`).
* `i386_index`: `run_i386_smoke.py` writes its index last and never marks it; interrupted,
  it leaves captures that `i386_run_index.json` does not record
  (`portfolio_audit/test_plan.md:65`), and the analysis publishes them.

## Proofs

`StraceProofs` proves, for every program, table, set of signals and bound:

* `TypeCorrect`: `Spec => []StraceTypeOK`;
* `Invariant`: `Spec => []Inv`, the inductive invariant;
* `ToggleCorrect`, `InjectionCorrect`, `FailCorrect`, `NothingEscapesCorrect`,
  `NoChildLeftCorrect`: the invariants the runs check, from `Inv`;
* `KillsItsChildCorrect`: no SIGKILL is sent to the number of a reaped child but in the three
  cases `KillsItsChild` names;
* `SeizedDiesCorrect`: the action property that a seized child dies with its tracer;
* `Records`: if nobody continues the child early, `Strace` implements `Recorder`.

They rest on the named assumptions of `Tracee` and `Strace` about their constants, which
TLC evaluates on every run: numbers and kinds of calls, disjoint kinds of signals, a table
of well-formed rows (no argument in memory after the first output buffer, and no output buffer
in an exec call), which `SYS_TABLE`, the rows of `include/strace_data.h`, meets.

The properties are not inductive. That the toggle agrees with a stop says nothing of the
state before the stop, so `Inv` says where the child is when the tracer is at each of its
steps:

* `KernelInv`: what holds of the child's own state, whatever the tracer does: a dying child
  is in no stop, a status to collect belongs to a stop or a death, options are in force from
  the seizure on;
* `PhaseInv`: who is dead when: the end is announced only of a dead child, and nobody waits
  for a child that is not ending;
* `PlaceInv`: the child runs only while the tracer waits for it, and each request about a
  stop finds the child in a stop of the right kind, or killed;
* `StepInv`: the toggle is the child's place inside or outside a call, shifted by the one
  stop at hand, and the signal to deliver is that stop's;
* `RecordInv`: the child's history is the log, plus at most the event of the stop at hand.

The last three hold only of a child nobody continued early, hence
`Inv == KernelInv /\ PhaseInv /\ (early \/ LoopInv)`. Preservation is proved action by
action, in lemmas for the child, the setup, the loop, the end and the handlers. TLC had
checked `Inv` on `trace`, `setup` and `calls` before it was proved. `KillsItsChild` needs one
more invariant on top, `ReapInv`: once the child has been resumed and is reaped, `main` is on
its way out or the handler that reaped it is about to `_exit`.

`ExecuteProofs` proves, for any number of descendants, any size of the pipes and any output,
`ExecuteInvariant`: `Spec => []IInv` and from it `ExecuteTypeCorrect`, `OutputCorrect`,
`OwnStatusCorrect` and `GroupCorrect`. `IInv` adds to the types where every byte is (`PipeInv`:
captured and in the pipe make up what was written, and a pipe whose end was seen is empty and
held by nobody who could pass it on), where the command is at each step of the runner
(`PlaceInv`: it is never reaped before the runner returns, so that killpg finds its own group)
and who is doomed (`DoomInv`: only by a timeout, and then the whole group).

`LineProofs` proves, for every program, table, set of signals and bound, what the output says
of a call:

* `ModeCorrect`: every line is in the ABI the reader was last told of (`ModeInv`: the last
  announcement is the ABI of the loop, and none is announced for an event still to come);
* `SignalsCorrect`: the signals a child has received, and the one it is about to receive, are
  those shown, in order. `SignalInv` says that between the stop that is shown and the
  resume that injects its signal the child is parked in that very stop or killed;
  `ConservedInv` compares the histories;
* `LineCorrect`: a call's line is begun with the arguments up to the first output buffer and
  closed once (`CallInv`: what `call` and `line` say of the last call in the log);
* `DecodeCorrect`: an argument is read from memory before the call if the call consumes it,
  after the call if it fills it in, and in both cases from the address space it was meant for.
  `SpaceInv` says that the open call is the one the child is in, which `execve` may have taken
  into another address space. That an exec call fills in no buffer (`ExecAssumption`) is what
  keeps its exit from reading in the new one.

`FormatProofs` proves, for every size of a byte, of a page and of the buffers, every memory
and every call a register set can hold, `FormatTypeCorrect`, `RegistersCorrect`,
`NumbersCorrect`, `ErrorsCorrect`, `BuffersCorrect`, `StringsCorrect`, `VectorsCorrect` and
`QuotesCorrect`. The invariant is the conjunction of the properties with three more:
`MemoryInv` (bytes are bytes, and the call is one a program can make), `PlaceInv` (what has
been read and shown at each place) and `ElementInv` (between its two reads, `print_argv` holds
a pointer that stood in the vector at some moment). The argument has four parts:

* `Prefix`, `ReadTrue` and `StrnlenTrue` say that `process_vm_readv` and `strnlen` return the
  longest prefix without a hole and without a NUL; `PrintStringTrue` and `PrintBytesTrue`
  follow, for one moment;
* `Grows` carries them over the later steps: memory may change and vanish, but what an address
  has held is only added to, and a page that cannot be read never can;
* `SlotRead` lets `print_argv` take its next pointer: the sum that may wrap in C does not, as no
  program has memory at the last address (`ScaleAssumption`);
* `QuotedTrue` follows the reader of a quoted text over each escape, a quote, a backslash, a
  printable byte or a run of digits, of which there is at least one (`CharacterAssumption`).
  `\` followed by no digit would swallow the next character.

`CallAssumption` says that arguments fit a register of their ABI, that results fit its signed
counterpart, and that a buffer is never the sixth argument, as its count comes after it
(`RowsAssumption` checks that of the real tables).

`AuditProofs` proves, for any builds and cases and any number of runs, `AuditTypeCorrect`,
`WholeCorrect`, `BackedCorrect` and `AnnouncedCorrect`, and with one tool at a time
(`Overlap = FALSE`) `HealthyCorrect` and `OneRunCorrect`. The last hypothesis is not a
convenience: the analysis reads the index once and compares no run afterwards, so with two
tools at work `PublishedIsOneRun` does not hold, which is one of the hazards listed. The
invariant says how far a runner is (`PlaceInv`), which files of the capture at hand it has
removed and written (`FileInv`), what the index and the environment say meanwhile (`IndexInv`)
and what the analysis has accepted (`ReadInv`). `CaptureAssumption` asks that no two captures
have the same files and that a case is read as a result and an output.

`MatrixProofs` proves, for every file that the generator's two expressions can match and
tables of any size, `MatrixTypeCorrect`, `GapsCorrect`, `RecognisedCorrect` and `TypedCorrect`.
`RowsInv` says that the rows kept are those of the lines read, all of them well formed, which
sorting does not change (`SortedKeeps`); `CompressInv` that the ranges written, the one that is
open and the gaps to come make up the gaps. `OneRow` turns the generator's check, as many
numbers as rows, into what lookup_syscall needs: one row for each number.

TLC had checked each of these invariants on the runs of its component before it was proved.

**Inductions over data.** The provers cannot use a theorem that takes an operator, so
`DataLemmas` does inductions by the least element of a set of numbers (`Smallest`,
`UpTo`). On it rest the facts about joined sequences and folds that `FormatProofs`
and `AuditProofs` need (`FlattenHolds`, `ToSetJoined`, `ScanIs`). Recursive
operators and operators of the module `TLC` cannot be expanded in a proof; the
specifications use none of them where a theorem looks.

**Only model-checked:** liveness, as fairness and ENABLED are out of the prover's reach:
`StopsAreAnswered`, `DeathEndsTracer`, `InterruptEnds` and `SetupEnds` of the tracer and
`CaptureEnds` of the harness. So are the three disagreements, whose counterexamples TLC finds.

## Not modelled

* More than one thread in the child, the process that is given the number of a reaped child
  (`KillsItsChild` says when it could be hit), SIGCHLD ignored by whoever
  started the tracer (waitpid would fail with ECHILD), `int 0x80` from 64-bit code (decoded
  with the 64-bit table), registers of another size than the two known ones.
* The locks of stdio and async-signal-safety of the handlers.
* Names, wording and the difference between types that are shown by their value in the trace
  loop; whether a row's types fit the call. Some buffers that the kernel fills in are declared
  as strings (`mincore`, `strace_data.h:32`; `syslog`, 108; `getsockopt`, 60) and so read
  before the call.
* A stopped program is restarted at once by the code, as by the model; what a reader of the
  trace would expect of it is not stated anywhere.
* The scaffolding script, fixtures, tutorial programs and build files:
  stateless or not part of the tracer. The contents of `environment.json`, the manifest
  validation and the text the analysis looks for. A descendant of a command that ignores its
  timeout by leaving the group is modelled; what becomes of a command whose runner was
  interrupted is not.

## Plan

1. *Done:* the models of all components and their runs; proofs of all invariants and action
   properties of the passing runs and of the refinement of `Recorder`.
2. To prove: that `Execute`, seen from its caller, is the one step `Audit` takes (a capture
   that ends has one of its outcomes, and a late one only after a timeout), as a refinement;
   that a behaviour with overlapping tools publishes one run's evidence if no runner begins while
   the analysis reads, which is the hypothesis of `OneRunCorrect` at its weakest; the measures
   behind the liveness properties, as invariants.
