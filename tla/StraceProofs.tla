----------------------------- MODULE StraceProofs -----------------------------
(***************************************************************************)
(* Theorems about Strace, for every program, table, set of signals and     *)
(* bound.  The argument is one inductive invariant in five parts:          *)
(* KernelInv (what the kernel guarantees of the child's states), PhaseInv  *)
(* (who is dead when), and, for a child that nobody continues before it is *)
(* seized, PlaceInv (which of the child's states each step of the tracer   *)
(* can find), StepInv (what the tracer's variables say of the stop it      *)
(* handles) and RecordInv (what of the child's history is still missing in *)
(* the trace).                                                             *)
(***************************************************************************)
EXTENDS Strace, FiniteSetTheorems, TLAPS

\* A signal the child is dying of leaves it in no stop; a status to collect
\* belongs to a stop or a death; only the seized child is in a ptrace-stop.
KernelInv ==
  /\ doomed # NoSig => life \in {"newborn", "running"}
  /\ news => life \in {"held", "stopped", "zombie"}
  /\ life = "stopped" => traced /\ stop # "none"
  /\ life # "stopped" => stop = "none"
  /\ armed => traced
  /\ traced => opts = Options
  /\ life \in {"none", "newborn", "held"} => ~traced /\ where = "user"
  /\ stop = "signal" => stopsig \in Signals
  /\ stop # "signal" => stopsig = NoSig
  /\ stop \in {"entry", "exec"} => where = "call"
  /\ stop \in {"exit", "event", "signal"} => where = "user"
  /\ Dead => fate.kind \in {"exited", "signaled"}
  /\ early => EarlyCont

\* No path of the tracer gets past the end of its child: it is dead before its
\* end is announced, and killed before the error path or a handler waits for it.
Ending == ~Alive \/ doomed # NoSig
PhaseInv ==
  /\ life = "none" => pc \in {"start", "fork", "done"}
  /\ pc \in {"start", "fork"} => life = "none" /\ caught = {}
  /\ life = "newborn" => pc \in {"install", "await", "done"}
  /\ life = "held" => pc \in {"install", "await", "seize", "done"}
  /\ caught = {} => frames = <<>>
  /\ pc \in {"finish", "announce", "leave", "return"} => Dead
  /\ pc = "failwait" => Ending
  /\ InHandler("wait") => Ending
  /\ InHandler("say") => ~Alive
  /\ pc = "done" => (traced => Ending) /\ frames = <<>>
  /\ pc = "done" /\ outcome.kind = "exited" => ~Alive
  /\ pc \in {"start", "fork", "install", "await", "seize"} => ~traced

\* The tracer is where the child lets it be: a child runs only while the tracer
\* waits for it, and a stop is collected before anything is asked about it.
PlaceInv ==
  /\ Runs => armed /\ pc = "wait"
  /\ life = "stopped" => pc \in {"interrupt", "settle", "resume", "wait",
                                 "siginfo", "regs", "report"}
  /\ life = "stopped" /\ pc \in {"interrupt", "settle"} => stop = "event"
  /\ life = "stopped" /\ pc = "siginfo" => stop = "signal"
  /\ life = "stopped" /\ pc \in {"regs", "report"} => stop \in {"entry", "exit"}
  /\ blind => early

\* The toggle and the signal to deliver belong to the stop at hand, and a child
\* that died outside a wait was killed.
StepInv ==
  /\ pc \in SetupPcs => ~in_syscall /\ deliver = NoSig
  /\ Runs => in_syscall = (where = "call")
  /\ life = "stopped" /\ pc = "resume" => in_syscall = (where = "call")
  /\ life = "stopped" /\ pc \in {"wait", "siginfo", "regs", "report"} =>
       in_syscall = (stop \in {"exit", "exec"})
  /\ pc \in {"siginfo", "regs", "report"} => deliver = NoSig
  /\ life = "stopped" /\ pc = "siginfo" => status.sig = stopsig
  /\ life = "stopped" /\ pc = "resume" => deliver = stopsig
  /\ Dead /\ pc \notin {"wait", "finish", "announce", "leave", "done"} =>
       fate.kind = "signaled"
  /\ pc \in {"fail", "failwait"} => doomed # NoSig \/ Dead

\* The stop at hand is the one event that the trace still has to show.
Owed == CASE stop = "entry" -> Enter(prog.nr, prog.abi)
          [] stop = "exit" -> Leave(prog.ret)
          [] OTHER -> Signal(stopsig)
RecordInv ==
  /\ life \in {"none", "newborn", "held"} \/ Runs => hist = log
  /\ life = "stopped" =>
       hist = IF /\ stop \in {"entry", "exit", "signal"}
                 /\ pc \in {"wait", "siginfo", "regs", "report"}
              THEN Append(log, Owed) ELSE log
  /\ pc = "report" =>
       hist = Append(log, IF in_syscall THEN Leave(regs.ret)
                          ELSE Enter(regs.nr, regs.abi))

LoopInv == PlaceInv /\ StepInv /\ RecordInv
Inv == KernelInv /\ PhaseInv /\ (early \/ LoopInv)

-----------------------------------------------------------------------------
(* Type correctness. *)

\* An execve keeps the type of the program.
LEMMA ExecTypes ==
  ASSUME prog \in Program, NEW a \in Abis, NEW n \in Nr \cup {NoNr}
  PROVE  [prog EXCEPT !.abi = a, !.image = prog.image + 1, !.nr = n] \in Program
<1>1. prog.image + 1 \in Nat
  BY DEF Program
<1>2. QED
  BY <1>1 DEF Program

\* A step of the child keeps the types of its variables.
LEMMA TraceeTypes ==
  ASSUME TraceeTypeOK, TraceeNext
  PROVE  TraceeTypeOK'
<1> USE KindAssumption, SignalAssumption, BoundAssumption
<1>1. CASE ChildRaise
  BY <1>1 DEF ChildRaise, TraceeTypeOK, seizure, past
<1>2. ASSUME NEW s \in Signals, UntracedSignal(s) PROVE TraceeTypeOK'
  BY <1>2 DEF UntracedSignal, TraceeTypeOK, stopping, seizure, past
<1>3. ASSUME NEW s \in Signals, SignalStop(s) PROVE TraceeTypeOK'
  BY <1>3 DEF SignalStop, TraceeTypeOK, seizure, StopAt, Signal, Event, AnySig
<1>4. ASSUME NEW s \in Signals, SendSignal(s) PROVE TraceeTypeOK'
  <2>1. pend' \in SUBSET Signals
    BY <1>4 DEF SendSignal, TraceeTypeOK, Flushed
  <2>2. trap' \in BOOLEAN /\ early' \in BOOLEAN /\ news' \in BOOLEAN
    BY <1>4 DEF SendSignal, TraceeTypeOK
  <2>3. life' \in {"none", "newborn", "held", "running", "stopped", "zombie",
                    "reaped"}
    BY <1>4 DEF SendSignal, TraceeTypeOK
  <2>4. QED
    BY <1>4, <2>1, <2>2, <2>3 DEF SendSignal, TraceeTypeOK, seizure
<1>5. ASSUME NEW n \in Nr, EnterCall(n) PROVE TraceeTypeOK'
  <2>1. prog' \in Program
    BY <1>5 DEF EnterCall, TraceeTypeOK, Program, Results
  <2>2. hist' \in Seq(Event)
    BY <1>5 DEF EnterCall, TraceeTypeOK, Program, Enter, Event
  <2>3. QED
    BY <1>5, <2>1, <2>2 DEF EnterCall, TraceeTypeOK, seizure, StopAt
<1>6. ASSUME NEW r \in Results, LeaveCall(r) PROVE TraceeTypeOK'
  <2>1. prog' \in Program
    BY <1>6 DEF LeaveCall, TraceeTypeOK, Program
  <2>2. hist' \in Seq(Event)
    BY <1>6 DEF LeaveCall, TraceeTypeOK, Leave, Event
  <2>3. QED
    BY <1>6, <2>1, <2>2 DEF LeaveCall, TraceeTypeOK, seizure, StopAt
<1>7. ASSUME NEW a \in Abis, ExecImage(a) PROVE TraceeTypeOK'
  <2>1. prog' \in Program
    <3>1. prog.image + 1 \in Nat
      BY DEF TraceeTypeOK, Program
    <3>2. QED
      BY <1>7, <3>1 DEF ExecImage, TraceeTypeOK, Program
  <2>2. CASE "TRACEEXEC" \in opts
    BY <1>7, <2>1, <2>2 DEF ExecImage, TraceeTypeOK, seizure, past, StopAt
  <2>3. CASE "TRACEEXEC" \notin opts
    BY <1>7, <2>1, <2>3 DEF ExecImage, TraceeTypeOK, seizure, stopping, past
  <2>4. QED
    BY <2>2, <2>3
<1>8. ASSUME NEW a \in Abis, UnwatchedExec(a) PROVE TraceeTypeOK'
  <2>1. prog' \in Program
    <3>1. PICK n \in Nr : prog' = [prog EXCEPT !.abi = a,
                                   !.image = prog.image + 1, !.nr = n]
      BY <1>8 DEF UnwatchedExec
    <3>2. QED
      BY <3>1, ExecTypes DEF TraceeTypeOK
  <2>2. CASE traced /\ "TRACEEXEC" \in opts
    BY <1>8, <2>1, <2>2 DEF UnwatchedExec, TraceeTypeOK, seizure, StopAt
  <2>3. CASE ~(traced /\ "TRACEEXEC" \in opts)
    BY <1>8, <2>1, <2>3 DEF UnwatchedExec, TraceeTypeOK, seizure, stopping
  <2>4. QED
    BY <2>2, <2>3
<1>9. ASSUME NEW c \in ExitCodes, ExitCall(c) PROVE TraceeTypeOK'
  BY <1>9 DEF ExitCall, TraceeTypeOK, seizure, past, EndWith, Exited, Status, AnySig
<1>10. ASSUME NEW c \in ExitCodes, UnwatchedExit(c) PROVE TraceeTypeOK'
  BY <1>10 DEF UnwatchedExit, TraceeTypeOK, seizure, past, EndWith, Exited, Status, AnySig
<1>11. CASE TrapStop
  BY <1>11 DEF TrapStop, TraceeTypeOK, seizure, past, StopAt
<1>12. CASE Die
  BY <1>12 DEF Die, TraceeTypeOK, seizure, past, EndWith, Signaled, Status, AnySig
<1>13. CASE SendKill
  BY <1>13 DEF SendKill, KillChild, SigKill, TraceeTypeOK, seizure, past
<1>14. QED
  BY <1>1, <1>2, <1>3, <1>4, <1>5, <1>6, <1>7, <1>8, <1>9, <1>10, <1>11, <1>12,
     <1>13 DEF TraceeNext

\* A SIGKILL keeps the types of the child's variables.
LEMMA SigKillTypes ==
  ASSUME TraceeTypeOK, SigKill
  PROVE  /\ life' \in {"none", "newborn", "held", "running", "stopped", "zombie",
                       "reaped"}
         /\ stop' \in {"none", "entry", "exit", "exec", "event", "signal"}
         /\ stopsig' \in Signals \cup {NoSig}
         /\ doomed' \in Signals \cup {NoSig, KILL}
         /\ news' \in BOOLEAN
<1>1. CASE Alive
  BY <1>1 DEF SigKill, TraceeTypeOK
<1>2. CASE ~Alive
  <2>1. UNCHANGED stopping /\ doomed' = doomed
    BY <1>2, SigKill DEF SigKill
  <2>2. QED
    BY <2>1 DEF TraceeTypeOK, stopping
<1>3. QED
  BY <1>1, <1>2

\* So do the effects of the tracer's system calls.
LEMMA EffectTypes ==
  ASSUME TraceeTypeOK
  PROVE  /\ KillChild => TraceeTypeOK'
         /\ ForkChild => TraceeTypeOK'
         /\ Collect => TraceeTypeOK'
         /\ Interrupt => TraceeTypeOK'
         /\ Seize(Options) => TraceeTypeOK'
         /\ TracerGone => TraceeTypeOK'
         /\ UNCHANGED kernel => TraceeTypeOK'
<1> USE SignalAssumption
<1>1. ASSUME KillChild PROVE TraceeTypeOK'
  BY <1>1, SigKillTypes DEF KillChild, TraceeTypeOK, seizure, past
<1>2. ForkChild => TraceeTypeOK'
  BY DEF ForkChild, TraceeTypeOK, seizure, past
<1>3. Collect => TraceeTypeOK'
  BY DEF Collect, TraceeTypeOK, seizure, past
<1>4. Interrupt => TraceeTypeOK'
  BY DEF Interrupt, TraceeTypeOK, stopping, seizure, past
<1>5. ASSUME Seize(Options) PROVE TraceeTypeOK'
  <2>1. CASE life = "held"
    BY <1>5, <2>1 DEF Seize, TraceeTypeOK, past, StopAt, Options
  <2>2. CASE life # "held"
    BY <1>5, <2>2 DEF Seize, TraceeTypeOK, stopping, past, Options
  <2>3. QED
    BY <2>1, <2>2
<1>6. ASSUME TracerGone PROVE TraceeTypeOK'
  <2>1. traced' \in BOOLEAN
    BY <1>6 DEF TracerGone
  <2>2. CASE traced /\ "EXITKILL" \in opts
    BY <1>6, <2>1, <2>2, SigKillTypes DEF TracerGone, TraceeTypeOK, past
  <2>3. CASE ~(traced /\ "EXITKILL" \in opts)
    BY <1>6, <2>1, <2>3 DEF TracerGone, TraceeTypeOK, past
  <2>4. QED
    BY <2>2, <2>3
<1>7. UNCHANGED kernel => TraceeTypeOK'
  BY DEF TraceeTypeOK, kernel, stopping, seizure, past
<1>8. QED
  BY <1>1, <1>2, <1>3, <1>4, <1>5, <1>6, <1>7

\* PTRACE_SYSCALL keeps the types of the child's variables.
LEMMA ResumeTypes ==
  ASSUME TraceeTypeOK, NEW sig \in AnySig, Resume(sig)
  PROVE  TraceeTypeOK'
<1>1. acted' \in Seq(AnySig)
  BY DEF Resume, TraceeTypeOK
<1>2. doomed' \in Signals \cup {NoSig, KILL}
  BY SignalAssumption DEF Resume, TraceeTypeOK
<1>3. trap' \in BOOLEAN
  BY DEF Resume, TraceeTypeOK
<1>4. QED
  BY <1>1, <1>2, <1>3 DEF Resume, TraceeTypeOK

\* The status waitpid fills in.
LEMMA ReportableType ==
  ASSUME TraceeTypeOK
  PROVE  Reportable \in Status
BY SignalAssumption DEF Reportable, TraceeTypeOK, Stopped, Status, AnySig

\* wait_child keeps the types and fills in a wait status.
LEMMA WaitTypes ==
  ASSUME TraceeTypeOK, WaitChild
  PROVE  TraceeTypeOK' /\ status' \in Status
BY EffectTypes, ReportableType DEF WaitChild

-----------------------------------------------------------------------------
(* The types of the tracer's variables. *)

\* The status tells trace what to do next.
LEMMA ClassifyTypes ==
  ASSUME NEW st PROVE Classify(st) \in {"finish", "resume", "siginfo", "regs"}
BY DEF Classify

\* A line written cell by cell is a sequence, an empty one included.
LEMMA CellsAreSeq ==
  ASSUME NEW S, NEW k \in Int, NEW f, f = [i \in 1..k |-> f[i]],
         \A i \in 1..k : f[i] \in S
  PROVE  f \in Seq(S)
<1>1. CASE k >= 0
  BY <1>1
<1>2. CASE k < 0
  <2>1. 1..k = 1..0
    BY <1>2
  <2>2. QED
    BY <2>1
<1>3. QED
  BY <1>1, <1>2

\* The arguments printed at entry are no more than the row has.
LEMMA EntryArgsType ==
  ASSUME NEW row \in Seq(ArgTypes)
  PROVE  EntryArgs(row) \in Nat
<1> DEFINE S == {i \in DOMAIN row : \A j \in 1..i : row[j] # "OUTPUT_BYTES"}
<1>1. IsFiniteSet(1..Len(row))
  BY FS_Interval
<1>2. S \subseteq 1..Len(row)
  OBVIOUS
<1>3. IsFiniteSet(S)
  BY <1>1, <1>2, FS_Subset
<1>4. Cardinality(S) \in Nat
  BY <1>3, FS_CardinalityType
<1>5. QED
  BY <1>4 DEF EntryArgs

\* What one argument shows.
LEMMA PrintArgType ==
  ASSUME prog \in Program, NEW row, NEW i \in Nat, NEW result, NEW readable
  PROVE  PrintArg(row, i, result, readable) \in Shown
<1>1. prog.image \in Nat
  BY DEF Program
<1>2. QED
  BY <1>1 DEF PrintArg, Shown

\* A row of the table is a sequence of argument types.
LEMMA RowType ==
  ASSUME NEW r \in [nr : Nr \cup {NoNr}, abi : Abis, ret : Results]
  PROVE  lookup_syscall(r) \in {NULL} \cup Seq(ArgTypes)
BY TableAssumption DEF lookup_syscall

\* print_entry leaves a call that is open and a line.
LEMMA EntryTypes ==
  ASSUME TracerTypeOK, prog \in Program, NEW readable,
         print_entry(regs, readable)
  PROVE  /\ call' \in [nr : Nr \cup {NoNr}, abi : Abis, next_arg : Nat,
                       syscall : {NULL} \cup Seq(ArgTypes)]
         /\ line' \in CallLine
<1> DEFINE row == lookup_syscall(regs)
           n == IF row = NULL THEN 0 ELSE EntryArgs(row)
           cells == [i \in 1..n |-> PrintArg(row, i, "ok", readable)]
<1>1. row \in {NULL} \cup Seq(ArgTypes)
  BY RowType DEF TracerTypeOK
<1>2. n \in Nat
  BY <1>1, EntryArgsType
<1>3. cells \in Seq(Shown)
  <2>1. \A i \in 1..n : cells[i] \in Shown
    BY <1>2, PrintArgType
  <2>2. cells = [i \in 1..n |-> cells[i]]
    OBVIOUS
  <2> HIDE DEF cells, n, row
  <2>3. QED
    BY <1>2, <2>1, <2>2, CellsAreSeq
<1>4. /\ call' = [nr |-> regs.nr, abi |-> regs.abi, next_arg |-> n, syscall |-> row]
      /\ line' = [args |-> cells,
                  parens |-> IF row = NULL \/ n = Len(row) THEN 1 ELSE 0]
  BY DEF print_entry
<1> HIDE DEF row, n, cells
<1>5. QED
  BY <1>1, <1>2, <1>3, <1>4 DEF TracerTypeOK, CallLine

\* finish_args leaves a line.
LEMMA FinishTypes ==
  ASSUME TracerTypeOK, prog \in Program, NEW result, NEW readable,
         finish_args(result, readable)
  PROVE  line' \in CallLine
<1>1. CASE call.syscall = NULL \/ call.next_arg = Len(call.syscall)
  BY <1>1, finish_args(result, readable) DEF finish_args, TracerTypeOK
<1>2. CASE ~(call.syscall = NULL \/ call.next_arg = Len(call.syscall))
  <2> DEFINE n == call.next_arg
             k == Len(call.syscall) - n
             rest == [i \in 1..k |->
                        PrintArg(call.syscall, n + i, result, readable)]
  <2>1. n \in Nat /\ k \in Int
    BY <1>2 DEF TracerTypeOK
  <2>2. \A i \in 1..k : rest[i] \in Shown
    BY <2>1, PrintArgType
  <2>3. rest = [i \in 1..k |-> rest[i]]
    OBVIOUS
  <2>4. line' = [args |-> line.args \o rest, parens |-> line.parens + 1]
    BY <1>2, finish_args(result, readable) DEF finish_args
  <2> HIDE DEF rest, k, n
  <2>5. rest \in Seq(Shown)
    BY <2>1, <2>2, <2>3, CellsAreSeq
  <2>6. line.args \o rest \in Seq(Shown) /\ line.parens + 1 \in Nat
    BY <2>5 DEF TracerTypeOK, CallLine
  <2>7. QED
    BY <2>4, <2>6 DEF CallLine
<1>3. QED
  BY <1>1, <1>2

\* The tracer ends.
LEMMA EndTypes ==
  ASSUME StraceTypeOK, NEW o \in Status \cup {Signaled(s) : s \in Handled},
         End(o), UNCHANGED <<caught, status, loop>>, said' \in Seq(Saying)
  PROVE  StraceTypeOK'
<1>1. TraceeTypeOK'
  BY EffectTypes DEF End, StraceTypeOK
<1>2. QED
  BY <1>1 DEF End, StraceTypeOK, TracerTypeOK, loop, printed, EndPcs

\* A step of the tracer that leaves the trace loop's variables alone keeps the
\* types if it keeps those of the child.
LEMMA QuietTypes ==
  ASSUME StraceTypeOK, TraceeTypeOK', UNCHANGED <<handlers, loop, ending>>,
         status' \in Status, pc' \in SetupPcs \cup TracePcs \cup EndPcs
  PROVE  StraceTypeOK'
BY DEF StraceTypeOK, TracerTypeOK, handlers, loop, printed, ending

\* The steps of main up to trace keep the types.
LEMMA SetupTypes ==
  ASSUME StraceTypeOK,
         Refuse \/ Accept \/ Fork \/ ForkFails \/ Install \/ Await \/ SeizeChild
           \/ InterruptChild \/ Settle
  PROVE  StraceTypeOK'
<1>1. Exited(1) \in Status
  BY DEF Exited, Status, AnySig
<1>2. CASE Refuse \/ ForkFails
  <2>1. said' \in Seq(Saying)
    BY <1>2 DEF Refuse, ForkFails, StraceTypeOK, TracerTypeOK
  <2>2. QED
    BY <1>1, <1>2, <2>1, EndTypes DEF Refuse, ForkFails
<1>3. CASE Accept
  <2>1. TraceeTypeOK' /\ status' \in Status
    BY <1>3, EffectTypes DEF Accept, StraceTypeOK, TracerTypeOK
  <2>2. QED
    BY <1>3, <2>1, QuietTypes DEF Accept, Goto, SetupPcs
<1>4. CASE Fork
  <2>1. TraceeTypeOK' /\ status' \in Status
    BY <1>4, EffectTypes DEF Fork, StraceTypeOK, TracerTypeOK
  <2>2. QED
    BY <1>4, <2>1, QuietTypes DEF Fork, Goto, SetupPcs
<1>5. CASE Install
  <2>1. TraceeTypeOK'
    BY <1>5, EffectTypes DEF Install, StraceTypeOK
  <2>2. caught' \in SUBSET Handled /\ pc' \in SetupPcs
    BY <1>5 DEF Install, Goto, Handled, SetupPcs
  <2>3. QED
    BY <1>5, <2>1, <2>2 DEF Install, StraceTypeOK, TracerTypeOK, loop, printed, ending
<1>6. CASE Await
  <2>1. TraceeTypeOK' /\ status' \in Status
    BY <1>6, WaitTypes DEF Await, StraceTypeOK
  <2>2. QED
    BY <1>6, <2>1, QuietTypes DEF Await, Goto, SetupPcs, EndPcs
<1>7. CASE SeizeChild
  <2>1. TraceeTypeOK' /\ status' \in Status
    BY <1>7, EffectTypes DEF SeizeChild, StraceTypeOK, TracerTypeOK
  <2>2. QED
    BY <1>7, <2>1, QuietTypes DEF SeizeChild, Goto, SetupPcs, EndPcs
<1>8. CASE InterruptChild
  <2>1. TraceeTypeOK' /\ status' \in Status
    BY <1>8, EffectTypes DEF InterruptChild, StraceTypeOK, TracerTypeOK
  <2>2. QED
    BY <1>8, <2>1, QuietTypes DEF InterruptChild, Goto, SetupPcs
<1>9. CASE Settle
  <2>1. TraceeTypeOK' /\ status' \in Status
    BY <1>9, WaitTypes DEF Settle, StraceTypeOK
  <2>2. QED
    BY <1>9, <2>1, QuietTypes DEF Settle, Goto, TracePcs
<1>10. QED
  BY <1>2, <1>3, <1>4, <1>5, <1>6, <1>7, <1>8, <1>9

\* Reporting a syscall-stop keeps the types.
LEMMA ReportStopTypes ==
  ASSUME StraceTypeOK, ReportStop
  PROVE  StraceTypeOK'
<1>1. TraceeTypeOK' /\ prog \in Program
  BY EffectTypes DEF ReportStop, StraceTypeOK, TraceeTypeOK
<1>2. /\ in_syscall' \in BOOLEAN
      /\ UNCHANGED <<handlers, status, deliver, regs, ending>>
      /\ pc' = "resume"
  BY DEF ReportStop, Goto
<1>3. PICK readable \in BOOLEAN :
        IF in_syscall
        THEN /\ finish_args(regs.ret, readable)
             /\ log' = Append(log, Leave(regs.ret))
             /\ AnnounceMode(Len(log) + 1)
             /\ UNCHANGED call
        ELSE /\ AnnounceMode(Len(log))
             /\ print_entry(regs, readable)
             /\ log' = Append(log, Enter(regs.nr, regs.abi))
  BY DEF ReportStop
<1>4. ASSUME NEW n \in Nat, AnnounceMode(n)
      PROVE  compat' \in Abis /\ modes' \in Seq(Mode)
  <2>1. regs.abi \in Abis /\ modes \in Seq(Mode)
    BY DEF StraceTypeOK, TracerTypeOK
  <2>2. [after |-> n, abi |-> regs.abi] \in Mode
    BY <2>1 DEF Mode
  <2>3. QED
    BY <1>4, <2>1, <2>2 DEF AnnounceMode
<1>5. Len(log) \in Nat /\ Len(log) + 1 \in Nat
  BY DEF StraceTypeOK, TracerTypeOK
<1>6. CASE in_syscall
  <2>1. line' \in CallLine
    BY <1>1, <1>3, <1>6, FinishTypes DEF StraceTypeOK
  <2>2. log' \in Seq(Event)
    <3>1. regs.ret \in Results /\ log \in Seq(Event)
      BY DEF StraceTypeOK, TracerTypeOK
    <3>2. Leave(regs.ret) \in Event
      BY <3>1 DEF Leave, Event
    <3>3. QED
      BY <1>3, <1>6, <3>1, <3>2
  <2>3. compat' \in Abis /\ modes' \in Seq(Mode)
    BY <1>3, <1>4, <1>5, <1>6
  <2>4. call' = call
    BY <1>3, <1>6
  <2>5. QED
    BY <1>1, <1>2, <2>1, <2>2, <2>3, <2>4
       DEF StraceTypeOK, TracerTypeOK, handlers, ending, TracePcs
<1>7. CASE ~in_syscall
  <2>1. /\ call' \in [nr : Nr \cup {NoNr}, abi : Abis, next_arg : Nat,
                      syscall : {NULL} \cup Seq(ArgTypes)]
        /\ line' \in CallLine
    BY <1>1, <1>3, <1>7, EntryTypes DEF StraceTypeOK
  <2>2. log' \in Seq(Event)
    <3>1. regs.nr \in Nr \cup {NoNr} /\ regs.abi \in Abis /\ log \in Seq(Event)
      BY DEF StraceTypeOK, TracerTypeOK
    <3>2. Enter(regs.nr, regs.abi) \in Event
      BY <3>1 DEF Enter, Event
    <3>3. QED
      BY <1>3, <1>7, <3>1, <3>2
  <2>3. compat' \in Abis /\ modes' \in Seq(Mode)
    BY <1>3, <1>4, <1>5, <1>7
  <2>4. QED
    BY <1>1, <1>2, <2>1, <2>2, <2>3
       DEF StraceTypeOK, TracerTypeOK, handlers, ending, TracePcs
<1>8. QED
  BY <1>6, <1>7

\* The other steps of trace keep the types.
LEMMA TraceTypes ==
  ASSUME StraceTypeOK,
         ResumeChild \/ WaitStop \/ ReportSignal \/ ReadRegisters \/ Finish
  PROVE  StraceTypeOK'
<1>1. CASE ResumeChild
  <2>1. TraceeTypeOK' /\ status' \in Status
    <3>1. CASE Answers
      BY <1>1, <3>1, ResumeTypes DEF ResumeChild, StraceTypeOK, TracerTypeOK
    <3>2. CASE ~Answers
      BY <1>1, <3>2, EffectTypes DEF ResumeChild, StraceTypeOK, TracerTypeOK
    <3>3. QED
      BY <3>1, <3>2
  <2>2. QED
    BY <1>1, <2>1, QuietTypes DEF ResumeChild, Goto, TracePcs, EndPcs
<1>2. CASE WaitStop
  <2>1. TraceeTypeOK' /\ status' \in Status
    BY <1>2, WaitTypes DEF WaitStop, StraceTypeOK
  <2>2. pc' \in TracePcs
    BY <1>2, ClassifyTypes DEF WaitStop, Goto, TracePcs
  <2>3. deliver' \in AnySig
    BY <1>2 DEF WaitStop, AnySig
  <2>4. QED
    BY <1>2, <2>1, <2>2, <2>3
       DEF WaitStop, StraceTypeOK, TracerTypeOK, handlers, printed, ending
<1>3. CASE ReportSignal
  <2>1. TraceeTypeOK'
    BY <1>3, EffectTypes DEF ReportSignal, StraceTypeOK
  <2>2. status.sig \in AnySig /\ log \in Seq(Event) /\ deliver \in AnySig
    BY DEF StraceTypeOK, TracerTypeOK, Status
  <2>3. Signal(status.sig) \in Event
    BY <2>2 DEF Signal, Event
  <2>4. log' \in Seq(Event) /\ deliver' \in AnySig
    BY <1>3, <2>2, <2>3 DEF ReportSignal
  <2>5. pc' \in TracePcs \cup EndPcs
    BY <1>3 DEF ReportSignal, Goto, TracePcs, EndPcs
  <2>6. QED
    BY <1>3, <2>1, <2>4, <2>5
       DEF ReportSignal, StraceTypeOK, TracerTypeOK, handlers, ending
<1>4. CASE ReadRegisters
  <2>1. TraceeTypeOK'
    BY <1>4, EffectTypes DEF ReadRegisters, StraceTypeOK
  <2>2. regs' \in [nr : Nr \cup {NoNr}, abi : Abis, ret : Results]
    <3>1. prog \in Program
      BY DEF StraceTypeOK, TraceeTypeOK
    <3>2. [nr |-> prog.nr, abi |-> prog.abi, ret |-> prog.ret]
            \in [nr : Nr \cup {NoNr}, abi : Abis, ret : Results]
      BY <3>1 DEF Program
    <3>3. QED
      BY <1>4, <3>2 DEF ReadRegisters, StraceTypeOK, TracerTypeOK
  <2>3. pc' \in TracePcs \cup EndPcs
    BY <1>4 DEF ReadRegisters, Goto, TracePcs, EndPcs
  <2>4. QED
    BY <1>4, <2>1, <2>2, <2>3
       DEF ReadRegisters, StraceTypeOK, TracerTypeOK, handlers, printed, ending
<1>5. CASE Finish
  <2>1. TraceeTypeOK' /\ prog \in Program
    BY <1>5, EffectTypes DEF Finish, StraceTypeOK, TraceeTypeOK
  <2>2. line' \in CallLine
    <3>1. CASE in_syscall
      BY <1>5, <2>1, <3>1, FinishTypes DEF Finish, StraceTypeOK
    <3>2. CASE ~in_syscall
      BY <1>5, <3>2 DEF Finish, StraceTypeOK, TracerTypeOK
    <3>3. QED
      BY <3>1, <3>2
  <2>3. said' \in Seq(Saying)
    <3>1. said \in Seq(Saying) /\ [line |-> "cut"] \in Saying
      BY DEF StraceTypeOK, TracerTypeOK, Saying
    <3>2. CASE in_syscall
      BY <1>5, <3>1, <3>2 DEF Finish
    <3>3. CASE ~in_syscall
      BY <1>5, <3>1, <3>3 DEF Finish
    <3>4. QED
      BY <3>2, <3>3
  <2>4. pc' \in EndPcs
    BY <1>5 DEF Finish, Goto, EndPcs
  <2>5. QED
    BY <1>5, <2>1, <2>2, <2>3, <2>4
       DEF Finish, StraceTypeOK, TracerTypeOK, handlers
<1>6. QED
  BY <1>1, <1>2, <1>3, <1>4, <1>5

\* The steps of main after trace keep the types.
LEMMA EndPathTypes ==
  ASSUME StraceTypeOK,
         Announce \/ LeaveMain \/ Fail \/ FailWait \/ ReturnError \/ TracerCrash
  PROVE  StraceTypeOK'
<1>1. /\ said \in Seq(Saying) /\ status \in Status
      /\ Exited(1) \in Status /\ Signaled(KILL) \in Status
  BY DEF StraceTypeOK, TracerTypeOK, Exited, Signaled, Status, AnySig
<1>2. CASE Announce
  <2>1. TraceeTypeOK'
    BY <1>2, EffectTypes DEF Announce, StraceTypeOK
  <2>2. status.code \in 0..255 /\ status.sig \in AnySig
    BY <1>1 DEF Status
  <2>3. /\ [line |-> "exited", code |-> status.code] \in Saying
        /\ [line |-> "killed", sig |-> status.sig] \in Saying
    BY <2>2 DEF Saying
  <2>4. said' \in Seq(Saying)
    BY <1>1, <1>2, <2>3 DEF Announce
  <2>5. QED
    BY <1>2, <2>1, <2>4
       DEF Announce, Goto, EndPcs, StraceTypeOK, TracerTypeOK, handlers, loop, printed
<1>3. CASE LeaveMain
  BY <1>1, <1>3, EndTypes DEF LeaveMain
<1>4. CASE Fail
  <2>1. TraceeTypeOK'
    BY <1>4, EffectTypes DEF Fail, StraceTypeOK
  <2>2. [line |-> "error"] \in Saying
    BY DEF Saying
  <2>3. said' \in Seq(Saying)
    BY <1>1, <1>4, <2>2 DEF Fail
  <2>4. QED
    BY <1>4, <2>1, <2>3
       DEF Fail, Goto, EndPcs, StraceTypeOK, TracerTypeOK, handlers, loop, printed
<1>5. CASE FailWait
  <2>1. TraceeTypeOK' /\ status' \in Status
    <3>1. CASE life = "reaped"
      BY <1>1, <1>5, <3>1, EffectTypes DEF FailWait, StraceTypeOK
    <3>2. CASE life # "reaped"
      BY <1>5, <3>2, WaitTypes DEF FailWait, StraceTypeOK
    <3>3. QED
      BY <3>1, <3>2
  <2>2. QED
    BY <1>5, <2>1, QuietTypes DEF FailWait, Goto, EndPcs
<1>6. CASE ReturnError
  BY <1>1, <1>6, EndTypes DEF ReturnError
<1>7. CASE TracerCrash
  BY <1>1, <1>7, EndTypes DEF TracerCrash
<1>8. QED
  BY <1>2, <1>3, <1>4, <1>5, <1>6, <1>7

\* The handlers and the signals that start them keep the types.
LEMMA HandlerTypes ==
  ASSUME StraceTypeOK,
         \/ HandlerKill \/ HandlerWait \/ HandlerSay
         \/ \E s \in UserSends : UserSignal(s)
  PROVE  StraceTypeOK'
<1>1. frames \in Seq(Frame) /\ said \in Seq(Saying) /\ Exited(1) \in Status
  BY DEF StraceTypeOK, TracerTypeOK, Exited, Status, AnySig
<1>2. ASSUME NEW l \in {"wait", "say"}, frames # <<>>, HandlerGoto(l)
      PROVE  frames' \in Seq(Frame)
  <2>1. Len(frames) \in DOMAIN frames
    BY <1>1, <1>2
  <2>2. [frames[Len(frames)] EXCEPT !.at = l] \in Frame
    <3>1. frames[Len(frames)] \in Frame
      BY <1>1, <2>1
    <3>2. QED
      BY <3>1 DEF Frame
  <2>3. frames' = [frames EXCEPT ![Len(frames)] =
                     [frames[Len(frames)] EXCEPT !.at = l]]
    BY <1>2 DEF HandlerGoto
  <2>4. QED
    BY <1>1, <2>1, <2>2, <2>3
<1>3. CASE HandlerKill
  <2>1. TraceeTypeOK' /\ frames' \in Seq(Frame)
    BY <1>2, <1>3, EffectTypes DEF HandlerKill, InHandler, StraceTypeOK
  <2>2. QED
    BY <1>3, <2>1
       DEF HandlerKill, StraceTypeOK, TracerTypeOK, loop, printed, ending
<1>4. CASE HandlerWait
  <2>1. TraceeTypeOK' /\ frames' \in Seq(Frame)
    BY <1>2, <1>4, EffectTypes DEF HandlerWait, InHandler, StraceTypeOK
  <2>2. QED
    BY <1>4, <2>1
       DEF HandlerWait, StraceTypeOK, TracerTypeOK, loop, printed, ending
<1>5. CASE HandlerSay
  <2>1. /\ <<[line |-> "cut"], [line |-> "killed", sig |-> KILL]>> \in Seq(Saying)
        /\ <<[line |-> "detached"]>> \in Seq(Saying)
    <3>1. /\ [line |-> "cut"] \in Saying /\ [line |-> "detached"] \in Saying
          /\ [line |-> "killed", sig |-> KILL] \in Saying
      BY DEF Saying, AnySig
    <3>2. QED
      BY <3>1
  <2>2. said' \in Seq(Saying)
    BY <1>1, <1>5, <2>1 DEF HandlerSay
  <2>3. QED
    BY <1>1, <1>5, <2>2, EndTypes DEF HandlerSay
<1>6. ASSUME NEW s \in UserSends, UserSignal(s) PROVE StraceTypeOK'
  <2>1. s \in Handled
    BY UserAssumption
  <2>2. CASE s \in caught
    <3>1. TraceeTypeOK'
      BY <1>6, <2>2, EffectTypes DEF UserSignal, StraceTypeOK
    <3>2. frames' \in Seq(Frame)
      <4>1. [sig |-> s, at |-> "kill"] \in Frame
        BY <2>1 DEF Frame
      <4>2. QED
        BY <1>1, <1>6, <2>2, <4>1 DEF UserSignal
    <3>3. QED
      BY <1>6, <2>2, <3>1, <3>2
         DEF UserSignal, StraceTypeOK, TracerTypeOK, loop, printed
  <2>3. CASE s \notin caught
    BY <1>1, <1>6, <2>1, <2>3, EndTypes DEF UserSignal
  <2>4. QED
    BY <2>2, <2>3
<1>7. QED
  BY <1>3, <1>4, <1>5, <1>6

\* Every variable of Strace keeps its type: a trace line is a sequence of
\* arguments, a log one of events, a handler frame one of the three handlers.
THEOREM TypeCorrect == Spec => []StraceTypeOK
<1>1. Init => StraceTypeOK
  <2> SUFFICES ASSUME Init PROVE StraceTypeOK
    OBVIOUS
  <2>1. NoStatus \in Status
    BY DEF NoStatus, Status, AnySig
  <2>2. prog \in Program
    BY DEF Init, TraceeInit, Program, Results, Abis
  <2>3. /\ hist \in Seq(Event) /\ acted \in Seq(AnySig) /\ frames \in Seq(Frame)
        /\ log \in Seq(Event) /\ modes \in Seq(Mode) /\ said \in Seq(Saying)
    BY DEF Init, TraceeInit
  <2>4. TraceeTypeOK
    BY <2>1, <2>2, <2>3, SignalAssumption DEF Init, TraceeInit, TraceeTypeOK
  <2>5. regs \in [nr : Nr \cup {NoNr}, abi : Abis, ret : Results]
    BY DEF Init, Results, Abis
  <2>6. call \in [nr : Nr \cup {NoNr}, abi : Abis, next_arg : Nat,
                  syscall : {NULL} \cup Seq(ArgTypes)]
    BY DEF Init, Abis
  <2>7. line \in CallLine
    BY DEF Init, CallLine
  <2>8. TracerTypeOK
    BY <2>1, <2>3, <2>5, <2>6, <2>7 DEF Init, TracerTypeOK, SetupPcs, AnySig, Abis
  <2>9. QED
    BY <2>4, <2>8 DEF StraceTypeOK
<1>2. StraceTypeOK /\ [Next]_vars => StraceTypeOK'
  <2> SUFFICES ASSUME StraceTypeOK, [Next]_vars PROVE StraceTypeOK'
    OBVIOUS
  <2>1. CASE TracerStep
    BY <2>1, SetupTypes, TraceTypes, ReportStopTypes, EndPathTypes, HandlerTypes
       DEF TracerStep
  <2>2. CASE TraceeStep
    BY <2>2, TraceeTypes DEF TraceeStep, StraceTypeOK, TracerTypeOK, tracer,
         handlers, loop, printed, ending
  <2>3. CASE UserStep
    BY <2>3, EndPathTypes, HandlerTypes DEF UserStep
  <2>4. CASE UNCHANGED vars
    BY <2>4, EffectTypes DEF vars, StraceTypeOK, TracerTypeOK, tracer,
         handlers, loop, printed, ending
  <2>5. QED
    BY <2>1, <2>2, <2>3, <2>4 DEF Next, Over
<1>3. QED
  BY <1>1, <1>2, PTL DEF Spec

-----------------------------------------------------------------------------
(* The child's own part of the invariant. *)

\* What the child and its environment do keeps KernelInv.
LEMMA TraceeKernel ==
  ASSUME TraceeTypeOK, KernelInv, TraceeNext
  PROVE  KernelInv'
<1> USE SignalAssumption DEF KernelInv, Dead
<1>1. CASE ChildRaise
  BY <1>1 DEF ChildRaise, seizure, past
<1>2. ASSUME NEW s \in Signals, UntracedSignal(s) PROVE KernelInv'
  BY <1>2 DEF UntracedSignal, stopping, seizure, past
<1>3. ASSUME NEW s \in Signals, SignalStop(s) PROVE KernelInv'
  BY <1>3 DEF SignalStop, StopAt, Runs, seizure
<1>4. ASSUME NEW s \in Signals, SendSignal(s) PROVE KernelInv'
  BY <1>4 DEF SendSignal, Alive, seizure, TraceeTypeOK
<1>5. ASSUME NEW n \in Nr, EnterCall(n) PROVE KernelInv'
  BY <1>5 DEF EnterCall, StopAt, Runs, seizure
<1>6. ASSUME NEW r \in Results, LeaveCall(r) PROVE KernelInv'
  BY <1>6 DEF LeaveCall, StopAt, Runs, seizure
<1>7. ASSUME NEW a \in Abis, ExecImage(a) PROVE KernelInv'
  BY <1>7 DEF ExecImage, StopAt, Runs, stopping, seizure, past
<1>8. ASSUME NEW a \in Abis, UnwatchedExec(a) PROVE KernelInv'
  BY <1>8 DEF UnwatchedExec, StopAt, Runs, stopping, seizure
<1>9. ASSUME NEW c \in ExitCodes, ExitCall(c) \/ UnwatchedExit(c) PROVE KernelInv'
  BY <1>9 DEF ExitCall, UnwatchedExit, EndWith, Exited, Runs, seizure, past
<1>10. CASE TrapStop
  BY <1>10 DEF TrapStop, StopAt, Runs, seizure, past
<1>11. CASE Die
  BY <1>11 DEF Die, Alive, EndWith, Signaled, seizure, past
<1>12. CASE SendKill
  BY <1>12 DEF SendKill, KillChild, SigKill, Alive, seizure, past
<1>13. QED
  BY <1>1, <1>2, <1>3, <1>4, <1>5, <1>6, <1>7, <1>8, <1>9, <1>10, <1>11, <1>12
     DEF TraceeNext

\* The requests of the tracer do one of these things to the child.
Effects ==
  \/ UNCHANGED kernel
  \/ life = "none" /\ ForkChild
  \/ KillChild
  \/ news /\ Collect
  \/ life \notin {"none", "newborn", "zombie", "reaped"} /\ Seize(Options)
  \/ Interrupt
  \/ \E sig \in AnySig : Answers /\ Resume(sig)
  \/ TracerGone

\* What each step of the tracer does to the child, if anything.
LEMMA TracerEffects ==
  ASSUME StraceTypeOK, PhaseInv, TracerStep \/ UserStep
  PROVE  Effects
<1> USE DEF Effects
<1>1. CASE TracerStep
  <2> USE <1>1
  <2>1. CASE Refuse \/ ForkFails \/ LeaveMain \/ ReturnError \/ HandlerSay
    BY <2>1 DEF Refuse, ForkFails, LeaveMain, ReturnError, HandlerSay, End
  <2>2. CASE Fork
    BY <2>2 DEF Fork, At, PhaseInv
  <2>3. CASE Await \/ Settle \/ WaitStop \/ FailWait
    BY <2>3 DEF Await, Settle, WaitStop, FailWait, WaitChild
  <2>4. CASE SeizeChild
    BY <2>4 DEF SeizeChild, At, PhaseInv, Dead
  <2>5. CASE InterruptChild
    BY <2>5 DEF InterruptChild
  <2>6. CASE ResumeChild
    BY <2>6 DEF ResumeChild, StraceTypeOK, TracerTypeOK
  <2>7. CASE Fail \/ HandlerKill
    BY <2>7 DEF Fail, HandlerKill
  <2>8. CASE HandlerWait
    BY <2>8 DEF HandlerWait
  <2>9. CASE Accept \/ Install \/ ReportSignal \/ ReadRegisters \/ ReportStop
               \/ Finish \/ Announce
    BY <2>9 DEF Accept, Install, ReportSignal, ReadRegisters, ReportStop, Finish,
                Announce
  <2>10. QED
    BY <2>1, <2>2, <2>3, <2>4, <2>5, <2>6, <2>7, <2>8, <2>9 DEF TracerStep
<1>2. CASE UserStep
  BY <1>2 DEF UserStep, TracerCrash, UserSignal, End
<1>3. QED
  BY <1>1, <1>2

\* Each effect of the tracer's system calls keeps KernelInv.
LEMMA EffectsKernel ==
  ASSUME TraceeTypeOK, KernelInv, Effects
  PROVE  KernelInv'
<1> USE DEF KernelInv, Dead
<1>1. CASE UNCHANGED kernel
  BY <1>1 DEF kernel, stopping, seizure, past
<1>2. CASE life = "none" /\ ForkChild
  BY <1>2 DEF ForkChild, seizure, past
<1>3. CASE KillChild
  <2>1. CASE Alive
    BY <1>3, <2>1 DEF KillChild, SigKill, Alive, seizure, past
  <2>2. CASE ~Alive
    BY <1>3, <2>2 DEF KillChild, SigKill, stopping, seizure, past
  <2>3. QED
    BY <2>1, <2>2
<1>4. CASE news /\ Collect
  BY <1>4 DEF Collect, seizure, past
<1>5. CASE life \notin {"none", "newborn", "zombie", "reaped"} /\ Seize(Options)
  <2>1. CASE life = "held"
    BY <1>5, <2>1 DEF Seize, StopAt, past
  <2>2. CASE life # "held"
    BY <1>5, <2>2 DEF Seize, stopping, past
  <2>3. QED
    BY <2>1, <2>2
<1>6. CASE Interrupt
  BY <1>6 DEF Interrupt, stopping, seizure, past
<1>7. ASSUME NEW sig \in AnySig, Answers, Resume(sig) PROVE KernelInv'
  BY <1>7 DEF Resume, Answers
<1>8. CASE TracerGone
  <2>1. CASE traced
    <3>1. "EXITKILL" \in opts
      BY <2>1 DEF Options
    <3>2. CASE Alive
      BY <1>8, <2>1, <3>1, <3>2 DEF TracerGone, SigKill, Alive, past
    <3>3. CASE ~Alive
      BY <1>8, <2>1, <3>1, <3>3 DEF TracerGone, SigKill, stopping, past
    <3>4. QED
      BY <3>2, <3>3
  <2>2. CASE ~traced
    BY <1>8, <2>2 DEF TracerGone, past
  <2>3. QED
    BY <2>1, <2>2
<1>9. QED
  BY <1>1, <1>2, <1>3, <1>4, <1>5, <1>6, <1>7, <1>8 DEF Effects

-----------------------------------------------------------------------------
(* Who is dead when. *)

\* A handler's own step changes the innermost frame only.
LEMMA HandlerTop ==
  ASSUME frames \in Seq(Frame), frames # <<>>, NEW l \in {"wait", "say"},
         HandlerGoto(l)
  PROVE  /\ frames' # <<>>
         /\ \A m : InHandler(m)' => m = l
<1>1. Len(frames) \in DOMAIN frames /\ frames[Len(frames)] \in Frame
  OBVIOUS
<1>2. frames' = [frames EXCEPT ![Len(frames)] =
                   [frames[Len(frames)] EXCEPT !.at = l]]
  BY DEF HandlerGoto
<1>3. DOMAIN frames' = DOMAIN frames /\ Len(frames') = Len(frames)
  BY <1>2
<1>4. frames'[Len(frames')].at = l
  BY <1>1, <1>2, <1>3 DEF Frame
<1>5. frames' # <<>>
  BY <1>1, <1>3
<1>6. QED
  BY <1>4, <1>5 DEF InHandler

\* A signal starts a handler at its first step.
LEMMA HandlerStarts ==
  ASSUME frames \in Seq(Frame), NEW s \in Handled,
         frames' = Append(frames, [sig |-> s, at |-> "kill"])
  PROVE  \A m : InHandler(m)' => m = "kill"
<1>1. frames'[Len(frames')] = [sig |-> s, at |-> "kill"]
  BY DEF Frame
<1>2. QED
  BY <1>1 DEF InHandler

\* Death is final, and no step of the child or its environment undoes a SIGKILL.
LEMMA ChildGoesOn ==
  ASSUME TraceeTypeOK, KernelInv, TraceeNext
  PROVE  /\ (life' = "none") = (life = "none")
         /\ life' = "newborn" => life = "newborn"
         /\ life' = "held" => life \in {"newborn", "held"}
         /\ Dead => Dead'
         /\ Ending => Ending'
         /\ traced' = traced
<1> USE SignalAssumption DEF Dead, Alive, Ending
<1>1. CASE ChildRaise
  BY <1>1 DEF ChildRaise, seizure, past
<1>2. ASSUME NEW s \in Signals, UntracedSignal(s) \/ SignalStop(s) \/ SendSignal(s)
      PROVE  /\ (life' = "none") = (life = "none")
             /\ life' = "newborn" => life = "newborn"
             /\ life' = "held" => life \in {"newborn", "held"}
             /\ Dead => Dead'
             /\ Ending => Ending'
             /\ traced' = traced
  BY <1>2 DEF UntracedSignal, SignalStop, SendSignal, StopAt, Runs, stopping, seizure
<1>3. ASSUME NEW n \in Nr, EnterCall(n)
      PROVE  Runs /\ life' = "stopped" /\ UNCHANGED <<doomed, seizure>>
  BY <1>3 DEF EnterCall, StopAt
<1>4. ASSUME NEW r \in Results, LeaveCall(r)
      PROVE  Runs /\ life' = "stopped" /\ UNCHANGED <<doomed, seizure>>
  BY <1>4 DEF LeaveCall, StopAt
<1>5. ASSUME NEW a \in Abis, ExecImage(a) \/ UnwatchedExec(a)
      PROVE  Runs /\ life' \in {"running", "stopped"} /\ UNCHANGED <<doomed, seizure>>
  BY <1>5 DEF ExecImage, UnwatchedExec, StopAt, Runs, stopping
<1>6. ASSUME NEW c \in ExitCodes, ExitCall(c) \/ UnwatchedExit(c)
      PROVE  life' = "zombie" /\ life = "running" /\ UNCHANGED seizure
  BY <1>6 DEF ExitCall, UnwatchedExit, EndWith, Runs
<1>7. CASE TrapStop
  BY <1>7 DEF TrapStop, StopAt, Runs, seizure
<1>8. CASE Die
  BY <1>8 DEF Die, EndWith, seizure
<1>9. CASE SendKill
  BY <1>9 DEF SendKill, KillChild, SigKill, seizure, KILL, NoSig
<1>10. QED
  BY <1>1, <1>2, <1>3, <1>4, <1>5, <1>6, <1>7, <1>8, <1>9
     DEF TraceeNext, Runs, seizure

\* SIGKILL leaves nothing of the child that does not end.
LEMMA KillEnds ==
  ASSUME SigKill
  PROVE  /\ Ending'
         /\ life' = IF Alive THEN "running" ELSE life
<1>1. CASE Alive
  BY <1>1 DEF SigKill, Ending, KILL, NoSig
<1>2. CASE ~Alive
  BY <1>2 DEF SigKill, Ending, Alive, stopping
<1>3. QED
  BY <1>1, <1>2

\* Neither does the end of the tracer, if the child is seized.
LEMMA GoneEnds ==
  ASSUME TraceeTypeOK, KernelInv, TracerGone
  PROVE  /\ traced' = traced
         /\ traced => Ending'
         /\ ~traced => UNCHANGED <<life, doomed>>
         /\ life' = IF traced /\ Alive THEN "running" ELSE life
<1>1. CASE traced
  <2>1. traced' = traced /\ SigKill
    BY <1>1 DEF TracerGone, KernelInv, Options
  <2>2. QED
    BY <1>1, <2>1, KillEnds
<1>2. CASE ~traced
  BY <1>2 DEF TracerGone, KernelInv, TraceeTypeOK
<1>3. QED
  BY <1>1, <1>2

\* A tracer that ends keeps PhaseInv, if it exits only when its child is dead.
LEMMA EndPhase ==
  ASSUME TraceeTypeOK, KernelInv, PhaseInv, NEW o, End(o), UNCHANGED caught,
         o.kind = "exited" => ~Alive
  PROVE  PhaseInv'
<1>1. /\ traced' = traced
      /\ traced => Ending'
      /\ ~traced => UNCHANGED <<life, doomed>>
      /\ life' = IF traced /\ Alive THEN "running" ELSE life
  BY GoneEnds DEF End
<1>2. pc' = "done" /\ outcome' = o /\ frames' = <<>>
  BY DEF End
<1>3. ~Alive => ~Alive'
  BY <1>1 DEF Alive
<1>4. QED
  BY <1>1, <1>2, <1>3 DEF PhaseInv, InHandler

\* A step of the child or of its environment keeps PhaseInv.
LEMMA ChildPhase ==
  ASSUME TraceeTypeOK, KernelInv, PhaseInv, TraceeNext, UNCHANGED tracer
  PROVE  PhaseInv'
<1>1. /\ (life' = "none") = (life = "none")
      /\ life' = "newborn" => life = "newborn"
      /\ life' = "held" => life \in {"newborn", "held"}
      /\ Dead => Dead'
      /\ Ending => Ending'
      /\ traced' = traced
  BY ChildGoesOn
<1>2. UNCHANGED <<pc, caught, frames, outcome>>
  BY DEF tracer, handlers, ending
<1>3. /\ InHandler("wait")' = InHandler("wait")
      /\ InHandler("say")' = InHandler("say")
  BY <1>2 DEF InHandler
<1>4. ~Alive => ~Alive'
  BY <1>1 DEF Alive, Dead
<1> HIDE DEF Dead, Ending, InHandler, Alive
<1>5. QED
  BY <1>1, <1>2, <1>3, <1>4 DEF PhaseInv

\* The steps of main up to trace keep PhaseInv.
LEMMA SetupPhase ==
  ASSUME StraceTypeOK, KernelInv, PhaseInv,
         Refuse \/ Accept \/ Fork \/ ForkFails \/ Install \/ Await \/ SeizeChild
           \/ InterruptChild \/ Settle
  PROVE  PhaseInv'
<1> USE DEF At, Goto, PhaseInv, InHandler, Dead, Alive, Ending, handlers, ending
<1>1. CASE Refuse \/ ForkFails
  <2>1. ~Alive
    BY <1>1 DEF Refuse, ForkFails
  <2>2. TraceeTypeOK
    BY DEF StraceTypeOK
  <2> QED
    BY <1>1, <2>1, <2>2, EndPhase DEF Refuse, ForkFails
<1>2. CASE Accept
  BY <1>2 DEF Accept, kernel, stopping, seizure
<1>3. CASE Fork
  BY <1>3 DEF Fork, ForkChild, seizure
<1>4. CASE Install
  BY <1>4 DEF Install, kernel, stopping, seizure
<1>5. CASE Await
  <2>1. life \in {"held", "stopped", "zombie"}
    BY <1>5 DEF Await, WaitChild, KernelInv
  <2>2. ~Dead => status'.kind = "stopped"
    BY <1>5 DEF Await, WaitChild, Reportable, Stopped
  <2>3. /\ pc = "await" /\ pc' = IF status'.kind = "stopped" THEN "seize" ELSE "fail"
        /\ frames = <<>> /\ UNCHANGED <<caught, frames, outcome, traced>>
        /\ life' = IF life = "zombie" THEN "reaped" ELSE life
    BY <1>5 DEF Await, WaitChild, Collect, seizure
  <2>4. QED
    BY <2>1, <2>2, <2>3
<1>6. CASE SeizeChild
  BY <1>6 DEF SeizeChild, Seize, StopAt, kernel, stopping, seizure
<1>7. CASE InterruptChild
  BY <1>7 DEF InterruptChild, Interrupt, stopping, seizure
<1>8. CASE Settle
  BY <1>8 DEF Settle, WaitChild, Collect, seizure
<1>9. QED
  BY <1>1, <1>2, <1>3, <1>4, <1>5, <1>6, <1>7, <1>8

\* waitpid reports an end exactly when the child has ended.
LEMMA ReportsEnd ==
  ASSUME NEW st, st = Reportable
  PROVE  st.kind \in {"exited", "signaled"} => Dead
BY DEF Reportable, Stopped

\* The steps of trace keep PhaseInv.
LEMMA TracePhase ==
  ASSUME StraceTypeOK, KernelInv, PhaseInv,
         ResumeChild \/ WaitStop \/ ReportSignal \/ ReadRegisters \/ ReportStop
           \/ Finish
  PROVE  PhaseInv'
<1> USE DEF At, Goto, PhaseInv, InHandler, Dead, Alive, Ending, handlers, ending
<1>1. CASE ResumeChild
  <2>1. CASE Answers
    BY <1>1, <2>1 DEF ResumeChild, Resume, Answers
  <2>2. CASE ~Answers
    BY <1>1, <2>2 DEF ResumeChild, kernel, stopping, seizure
  <2>3. QED
    BY <2>1, <2>2
<1>2. CASE WaitStop
  <2>1. pc' = "finish" => Dead
    BY <1>2, ReportsEnd DEF WaitStop, WaitChild, Classify
  <2>2. pc' \in TracePcs
    BY <1>2, ClassifyTypes DEF WaitStop, TracePcs
  <2>3. QED
    BY <1>2, <2>1, <2>2 DEF WaitStop, WaitChild, Collect, KernelInv, TracePcs, seizure
<1>3. CASE ReportSignal \/ ReadRegisters
  BY <1>3 DEF ReportSignal, ReadRegisters, kernel, stopping, seizure
<1>4. CASE ReportStop
  BY <1>4 DEF ReportStop, kernel, stopping, seizure
<1>5. CASE Finish
  BY <1>5 DEF Finish, kernel, stopping, seizure
<1>6. QED
  BY <1>1, <1>2, <1>3, <1>4, <1>5

\* The steps of main after trace keep PhaseInv.
LEMMA EndPathPhase ==
  ASSUME StraceTypeOK, KernelInv, PhaseInv,
         Announce \/ LeaveMain \/ Fail \/ FailWait \/ ReturnError \/ TracerCrash
  PROVE  PhaseInv'
<1> USE DEF At, Goto, PhaseInv, InHandler, Dead, Alive, Ending, handlers, ending
<1>1. CASE LeaveMain \/ ReturnError \/ TracerCrash
  <2>1. \E o : End(o) /\ (o.kind = "exited" => ~Alive)
    BY <1>1 DEF LeaveMain, ReturnError, TracerCrash, Signaled
  <2>2. UNCHANGED caught /\ TraceeTypeOK
    BY <1>1 DEF LeaveMain, ReturnError, TracerCrash, StraceTypeOK
  <2> HIDE DEF PhaseInv
  <2>3. QED
    BY <2>1, <2>2, EndPhase
<1>2. CASE Announce
  BY <1>2 DEF Announce, kernel, stopping, seizure
<1>3. CASE Fail
  <2>1. /\ Ending' /\ traced' = traced
        /\ life' = IF Alive THEN "running" ELSE life
    BY <1>3, KillEnds DEF Fail, KillChild, seizure
  <2>2. QED
    BY <1>3, <2>1 DEF Fail
<1>4. CASE FailWait
  <2>1. Dead'
    <3>1. CASE life = "reaped"
      BY <1>4, <3>1 DEF FailWait, kernel, stopping
    <3>2. CASE life # "reaped"
      BY <1>4, <3>2 DEF FailWait, WaitChild, Collect, KernelInv
    <3>3. QED
      BY <3>1, <3>2
  <2>2. pc' = "return" /\ UNCHANGED <<caught, frames, outcome>> /\ frames = <<>>
    BY <1>4 DEF FailWait
  <2>3. QED
    BY <2>1, <2>2
<1>5. QED
  BY <1>1, <1>2, <1>3, <1>4

\* The handlers, and the end of the tracer by a signal, keep PhaseInv.
LEMMA HandlerPhase ==
  ASSUME StraceTypeOK, KernelInv, PhaseInv,
         \/ HandlerKill \/ HandlerWait \/ HandlerSay
         \/ \E s \in UserSends : UserSignal(s)
  PROVE  PhaseInv'
<1>1. frames \in Seq(Frame) /\ TraceeTypeOK
  BY DEF StraceTypeOK, TracerTypeOK
<1>2. CASE HandlerKill
  <2>1. /\ Ending' /\ traced' = traced
        /\ life' = IF Alive THEN "running" ELSE life
    BY <1>2, KillEnds DEF HandlerKill, KillChild, seizure
  <2>2. /\ frames # <<>> /\ frames' # <<>>
        /\ \A m : InHandler(m)' => m = "wait"
    BY <1>1, <1>2, HandlerTop DEF HandlerKill, InHandler
  <2>3. UNCHANGED <<pc, caught, outcome>>
    BY <1>2 DEF HandlerKill, ending
  <2>4. Alive \/ life = "none" \/ Dead
    BY DEF Alive, Dead
  <2>5. QED
    BY <2>1, <2>2, <2>3 DEF PhaseInv, Alive, Dead, Ending
<1>3. CASE HandlerWait
  <2>1. InHandler("wait") /\ Ending
    BY <1>3 DEF HandlerWait, PhaseInv
  <2>2. /\ frames # <<>> /\ frames' # <<>>
        /\ \A m : InHandler(m)' => m = "say"
    BY <1>1, <1>3, HandlerTop DEF HandlerWait, InHandler
  <2>3. UNCHANGED <<pc, caught, outcome, traced, doomed>>
    BY <1>3 DEF HandlerWait, ending, Collect, kernel, seizure
  <2>4. ~Alive /\ life' = IF life = "zombie" THEN "reaped" ELSE life
    BY <1>3, <2>1 DEF HandlerWait, Collect, Ending, KernelInv, Alive, kernel, stopping
  <2>5. QED
    BY <2>2, <2>3, <2>4 DEF PhaseInv, Alive, Dead, Ending
<1>4. CASE HandlerSay
  <2>1. ~Alive
    BY <1>4 DEF HandlerSay, PhaseInv
  <2>2. QED
    BY <1>1, <1>4, <2>1, EndPhase DEF HandlerSay
<1>5. ASSUME NEW s \in UserSends, UserSignal(s) PROVE PhaseInv'
  <2>1. CASE s \in caught
    <3>1. /\ caught # {} /\ caught' # {}
          /\ \A m : InHandler(m)' => m = "kill"
      BY <1>1, <1>5, <2>1, HandlerStarts, UserAssumption DEF UserSignal
    <3>2. UNCHANGED <<pc, outcome, life, doomed, traced>> /\ pc # "done"
      BY <1>5, <2>1 DEF UserSignal, Running, kernel, stopping, seizure
    <3>3. QED
      BY <3>1, <3>2 DEF PhaseInv, Alive, Dead, Ending
  <2>2. CASE s \notin caught
    <3>1. End(Signaled(s)) /\ UNCHANGED caught
      BY <1>5, <2>2 DEF UserSignal
    <3>2. Signaled(s).kind # "exited"
      BY DEF Signaled
    <3>3. QED
      BY <1>1, <3>1, <3>2, EndPhase
  <2>3. QED
    BY <2>1, <2>2
<1>6. QED
  BY <1>2, <1>3, <1>4, <1>5

-----------------------------------------------------------------------------
(* The trace loop, for a child that nobody has continued early. *)

\* While the child is not in a running state nobody asks more of LoopInv than of
\* the stops and the deaths of the child.
LEMMA ChildLoop ==
  ASSUME StraceTypeOK, KernelInv, PhaseInv, LoopInv, TraceeNext, UNCHANGED tracer,
         ~early'
  PROVE  LoopInv'
<1> USE SignalAssumption
    DEF LoopInv, PlaceInv, StepInv, KernelInv, Runs, Dead, Alive
<1>1. UNCHANGED <<pc, status, in_syscall, deliver, regs, log>>
  BY DEF tracer, loop, printed
<1>2. prog \in Program
  BY DEF StraceTypeOK, TraceeTypeOK
<1>3. CASE ChildRaise
  BY <1>1, <1>3 DEF ChildRaise, past, RecordInv, PhaseInv
<1>4. ASSUME NEW s \in Signals, UntracedSignal(s) PROVE LoopInv'
  BY <1>1, <1>4 DEF UntracedSignal, stopping, seizure, past, RecordInv
<1>5. ASSUME NEW s \in Signals, SignalStop(s) PROVE LoopInv'
  BY <1>1, <1>5 DEF SignalStop, StopAt, seizure, RecordInv, Owed
<1>6. ASSUME NEW s \in Signals, SendSignal(s) PROVE LoopInv'
  <2>1. UNCHANGED <<life, where, stop, stopsig, doomed, fate, seizure, prog, hist,
                    blind, early>>
    BY <1>6 DEF SendSignal
  <2>2. Owed' = Owed
    BY <2>1 DEF Owed
  <2> HIDE DEF Owed
  <2>3. QED
    BY <1>1, <2>1, <2>2 DEF seizure, RecordInv
<1>7. ASSUME NEW n \in Nr, EnterCall(n) PROVE LoopInv'
  <2>1. prog'.nr = n /\ prog'.abi = prog.abi
    BY <1>2, <1>7 DEF EnterCall, Program
  <2>2. hist' = Append(log, Enter(n, prog.abi)) /\ stop' = "entry"
    BY <1>7 DEF EnterCall, StopAt, RecordInv
  <2>3. Owed' = Enter(n, prog.abi)
    BY <2>1, <2>2 DEF Owed
  <2>4. RecordInv'
    BY <1>1, <1>7, <2>2, <2>3 DEF EnterCall, StopAt, RecordInv
  <2>5. PlaceInv' /\ StepInv'
    BY <1>1, <1>7 DEF EnterCall, StopAt, seizure
  <2>6. QED
    BY <2>4, <2>5
<1>8. ASSUME NEW r \in Results, LeaveCall(r) PROVE LoopInv'
  <2>1. prog'.ret = r
    BY <1>2, <1>8 DEF LeaveCall, Program
  <2>2. hist' = Append(log, Leave(r)) /\ stop' = "exit"
    BY <1>8 DEF LeaveCall, StopAt, RecordInv
  <2>3. Owed' = Leave(r)
    BY <2>1, <2>2 DEF Owed
  <2>4. RecordInv'
    BY <1>1, <1>8, <2>2, <2>3 DEF LeaveCall, StopAt, RecordInv
  <2>5. PlaceInv' /\ StepInv'
    BY <1>1, <1>8 DEF LeaveCall, StopAt, seizure
  <2>6. QED
    BY <2>4, <2>5
<1>9. ASSUME NEW a \in Abis, ExecImage(a) PROVE LoopInv'
  BY <1>1, <1>9 DEF ExecImage, StopAt, Options, seizure, past, RecordInv
<1>10. ASSUME NEW a \in Abis PROVE ~UnwatchedExec(a)
  BY DEF UnwatchedExec
<1>11. ASSUME NEW c \in ExitCodes, ExitCall(c) \/ UnwatchedExit(c) PROVE LoopInv'
  BY <1>1, <1>11 DEF ExitCall, UnwatchedExit, EndWith, Exited, seizure, past, RecordInv
<1>12. CASE TrapStop
  BY <1>1, <1>12 DEF TrapStop, StopAt, seizure, past, RecordInv
<1>13. CASE Die
  BY <1>1, <1>13 DEF Die, EndWith, Signaled, seizure, past, RecordInv
<1>14. CASE SendKill
  BY <1>1, <1>14 DEF SendKill, KillChild, SigKill, KILL, NoSig, seizure, past, RecordInv
<1>15. QED
  BY <1>3, <1>4, <1>5, <1>6, <1>7, <1>8, <1>9, <1>10, <1>11, <1>12, <1>13, <1>14
     DEF TraceeNext

\* The stop does not depend on what the tracer does with it.
LEMMA OwedStays ==
  UNCHANGED <<stop, stopsig, prog>> => Owed' = Owed
BY DEF Owed

\* A tracer that ends leaves nobody running.
LEMMA EndLoop ==
  ASSUME StraceTypeOK, KernelInv, PhaseInv, LoopInv, NEW o, End(o),
         UNCHANGED <<status, loop>>
  PROVE  LoopInv'
<1>1. /\ life' = IF traced /\ Alive THEN "running" ELSE life
      /\ traced => Ending'
      /\ ~traced => UNCHANGED <<life, doomed>>
  BY GoneEnds DEF End, StraceTypeOK
<1>2. /\ pc' = "done" /\ UNCHANGED <<armed, hist, blind, early, log>>
  BY DEF End, TracerGone, past, loop, printed
<1>3. ~Runs'
  <2>1. CASE traced
    BY <1>1, <2>1 DEF Runs, Ending, Alive
  <2>2. CASE ~traced
    BY <1>1, <2>2 DEF Runs, LoopInv, PlaceInv, KernelInv
  <2>3. QED
    BY <2>1, <2>2
<1>4. life' # "stopped"
  BY <1>1 DEF KernelInv, Alive
<1>5. PlaceInv'
  BY <1>1, <1>2, <1>3, <1>4 DEF LoopInv, PlaceInv
<1>6. StepInv'
  BY <1>2, <1>3, <1>4 DEF StepInv, SetupPcs
<1>7. RecordInv'
  BY <1>1, <1>2, <1>3, <1>4 DEF LoopInv, RecordInv, KernelInv
<1>8. QED
  BY <1>5, <1>6, <1>7 DEF LoopInv

\* The steps of main up to trace keep LoopInv.
LEMMA SetupLoop ==
  ASSUME StraceTypeOK, KernelInv, PhaseInv, LoopInv,
         Refuse \/ Accept \/ Fork \/ ForkFails \/ Install \/ Await \/ SeizeChild
           \/ InterruptChild \/ Settle
  PROVE  LoopInv'
<1> USE DEF At, Goto, LoopInv, PlaceInv, StepInv, RecordInv, KernelInv, Runs, Dead,
            SetupPcs
<1>1. CASE Refuse \/ ForkFails
  <2>1. \E o : End(o)
    BY <1>1 DEF Refuse, ForkFails
  <2>2. UNCHANGED <<status, loop>>
    BY <1>1 DEF Refuse, ForkFails
  <2> HIDE DEF LoopInv, KernelInv
  <2>3. QED
    BY <2>1, <2>2, EndLoop
<1>2. CASE Accept \/ Install
  BY <1>2 DEF Accept, Install, PhaseInv, kernel, stopping, seizure, past, loop, printed
<1>3. CASE Fork
  BY <1>3 DEF Fork, ForkChild, PhaseInv, seizure, past, loop, printed
<1>4. CASE Await
  <2>1. life \in {"held", "zombie"}
    BY <1>4 DEF Await, WaitChild
  <2>2. life = "held" => status'.kind = "stopped"
    BY <1>4 DEF Await, WaitChild, Reportable, Stopped
  <2>3. life = "zombie" => status'.kind # "stopped"
    BY <1>4 DEF Await, WaitChild, Reportable
  <2>4. QED
    BY <1>4, <2>1, <2>2, <2>3
       DEF Await, WaitChild, Collect, seizure, past, loop, printed
<1>5. CASE SeizeChild
  <2>1. CASE Dead
    BY <1>5, <2>1 DEF SeizeChild, kernel, stopping, seizure, past, loop, printed
  <2>2. CASE life = "held"
    BY <1>5, <2>2 DEF SeizeChild, Seize, StopAt, past, loop, printed
  <2>3. CASE ~Dead /\ life # "held"
    <3>1. life = "running" /\ doomed # NoSig
      BY <1>5, <2>3 DEF SeizeChild, PhaseInv, StraceTypeOK, TraceeTypeOK
    <3>2. QED
      BY <1>5, <2>3, <3>1 DEF SeizeChild, Seize, stopping, past, loop, printed
  <2>4. QED
    BY <2>1, <2>2, <2>3
<1>6. CASE InterruptChild
  BY <1>6 DEF InterruptChild, Interrupt, stopping, seizure, past, loop, printed
<1>7. CASE Settle
  <2>1. life \in {"stopped", "zombie"} /\ pc = "settle" /\ pc' = "resume"
    BY <1>7 DEF Settle, WaitChild, PhaseInv
  <2>2. /\ life' = IF life = "zombie" THEN "reaped" ELSE life
        /\ UNCHANGED <<where, stop, stopsig, doomed, fate, armed, prog, hist, early,
                       blind, in_syscall, deliver, regs, log>>
    BY <1>7 DEF Settle, WaitChild, Collect, seizure, past, loop, printed
  <2>3. life = "stopped" => stop = "event" /\ hist = log /\ deliver = stopsig
    BY <2>1
  <2>4. in_syscall = FALSE
    BY <2>1 DEF StraceTypeOK, TracerTypeOK
  <2> HIDE DEF Owed
  <2>5. QED
    BY <2>1, <2>2, <2>3, <2>4
<1>8. QED
  BY <1>1, <1>2, <1>3, <1>4, <1>5, <1>6, <1>7

\* How trace classifies the stop it has just collected.
LEMMA Classified ==
  ASSUME StraceTypeOK, KernelInv, PhaseInv, LoopInv, At("wait"), WaitChild
  PROVE  \/ Dead /\ Classify(status') = "finish"
         \/ /\ life = "stopped"
            /\ \/ stop \in {"entry", "exit"} /\ Classify(status') = "regs"
               \/ /\ stop = "signal" /\ Classify(status') = "siginfo"
                  /\ status'.sig = stopsig
               \/ stop \in {"event", "exec"} /\ Classify(status') = "resume"
<1>1. status' = Reportable /\ life \in {"held", "stopped", "zombie"}
  BY DEF WaitChild, KernelInv
<1>2. CASE life = "zombie"
  <2>1. Dead /\ fate.kind \in {"exited", "signaled"}
    BY <1>2 DEF Dead, KernelInv
  <2>2. status' = fate
    BY <1>1, <2>1 DEF Reportable
  <2>3. QED
    BY <2>1, <2>2 DEF Classify
<1>3. CASE life = "held"
  BY <1>3 DEF At, PhaseInv
<1>4. CASE life = "stopped"
  <2>1. ~Dead /\ "TRACESYSGOOD" \in opts
    BY <1>4 DEF Dead, KernelInv, Options
  <2>2. CASE stop = "signal"
    <3>1. stopsig \in Signals /\ stopsig # SYSTRAP
      BY <2>2, SignalAssumption DEF KernelInv
    <3>2. QED
      BY <1>1, <1>4, <2>1, <2>2, <3>1 DEF Reportable, Stopped, Classify
  <2>3. CASE stop \in {"entry", "exit"}
    BY <1>1, <1>4, <2>1, <2>3 DEF Reportable, Stopped, Classify
  <2>4. CASE stop \in {"event", "exec"}
    BY <1>1, <1>4, <2>1, <2>4 DEF Reportable, Stopped, Classify
  <2>5. QED
    BY <1>4, <2>2, <2>3, <2>4 DEF KernelInv, StraceTypeOK, TraceeTypeOK
<1>5. QED
  BY <1>1, <1>2, <1>3, <1>4

\* The steps of trace keep LoopInv.
LEMMA TraceLoop ==
  ASSUME StraceTypeOK, KernelInv, PhaseInv, LoopInv,
         ResumeChild \/ WaitStop \/ ReportSignal \/ ReadRegisters \/ ReportStop
           \/ Finish
  PROVE  LoopInv'
<1> USE DEF At, Goto, LoopInv, PlaceInv, StepInv, RecordInv, KernelInv, Runs, Dead,
            SetupPcs
<1>1. CASE ResumeChild
  <2>1. CASE Answers
    <3>1. /\ pc = "resume" /\ pc' = "wait" /\ life = "stopped" /\ traced
          /\ life' = "running" /\ stop' = "none" /\ armed' = TRUE
          /\ UNCHANGED <<where, fate, hist, early, blind, status, in_syscall, deliver,
                         regs, log>>
      BY <1>1, <2>1 DEF ResumeChild, Answers, Resume, loop, printed
    <3>2. hist' = log'
      BY <3>1
    <3> HIDE DEF Owed
    <3>3. QED
      BY <3>1, <3>2
  <2>2. CASE ~Answers
    <3>1. life \in {"running", "zombie", "reaped"}
      BY <1>1, <2>2 DEF ResumeChild, Answers, PhaseInv, StraceTypeOK, TraceeTypeOK
    <3>2. QED
      BY <1>1, <2>2, <3>1
         DEF ResumeChild, kernel, stopping, seizure, past, loop, printed
  <2>3. QED
    BY <2>1, <2>2
<1>2. CASE WaitStop
  <2>1. \/ Dead /\ pc' = "finish"
        \/ /\ life = "stopped"
           /\ \/ stop \in {"entry", "exit"} /\ pc' = "regs"
              \/ stop = "signal" /\ pc' = "siginfo" /\ status'.sig = stopsig
              \/ stop \in {"event", "exec"} /\ pc' = "resume"
    BY <1>2, Classified DEF WaitStop
  <2>2. /\ pc = "wait" /\ life' = IF life = "zombie" THEN "reaped" ELSE life
        /\ deliver' = NoSig
        /\ UNCHANGED <<where, stop, stopsig, doomed, fate, armed, traced, prog, hist,
                       early, blind, in_syscall, regs, log>>
    BY <1>2 DEF WaitStop, WaitChild, Collect, seizure, past, printed
  <2>3. Owed' = Owed
    BY <2>2, OwedStays
  <2> HIDE DEF Owed
  <2>4. QED
    BY <2>1, <2>2, <2>3
<1>3. CASE ReportSignal
  <2>1. CASE Answers
    <3>1. life = "stopped" /\ stop = "signal" /\ status.sig = stopsig
      BY <1>3, <2>1 DEF ReportSignal, Answers
    <3>2. hist = Append(log, Signal(stopsig))
      BY <1>3, <3>1 DEF ReportSignal, Owed
    <3>3. log' = hist /\ deliver' = stopsig
      BY <1>3, <2>1, <3>1, <3>2 DEF ReportSignal
    <3>4. QED
      BY <1>3, <2>1, <3>1, <3>3
         DEF ReportSignal, kernel, stopping, seizure, past
  <2>2. CASE ~Answers
    <3>1. life \in {"running", "zombie", "reaped"}
      BY <1>3, <2>2 DEF ReportSignal, Answers, PhaseInv, StraceTypeOK, TraceeTypeOK
    <3>2. QED
      BY <1>3, <2>2, <3>1
         DEF ReportSignal, kernel, stopping, seizure, past
  <2>3. QED
    BY <2>1, <2>2
<1>4. CASE ReadRegisters
  <2>1. CASE Answers
    <3>1. life = "stopped" /\ stop \in {"entry", "exit"} /\ pc = "regs"
      BY <1>4, <2>1 DEF ReadRegisters, Answers
    <3>2. in_syscall = (stop = "exit")
      BY <3>1
    <3>3. hist = Append(log, IF in_syscall THEN Leave(prog.ret)
                             ELSE Enter(prog.nr, prog.abi))
      BY <3>1, <3>2 DEF Owed
    <3>4. regs'.ret = prog.ret /\ regs'.nr = prog.nr /\ regs'.abi = prog.abi
      BY <1>4, <2>1 DEF ReadRegisters
    <3>5. /\ pc' = "report"
          /\ UNCHANGED <<kernel, status, in_syscall, deliver, log>>
      BY <1>4, <2>1 DEF ReadRegisters, printed
    <3>6. Owed' = Owed
      BY <3>5, OwedStays DEF kernel, stopping
    <3> HIDE DEF Owed
    <3>7. QED
      BY <3>1, <3>2, <3>3, <3>4, <3>5, <3>6 DEF kernel, stopping, seizure, past
  <2>2. CASE ~Answers
    <3>1. life \in {"running", "zombie", "reaped"}
      BY <1>4, <2>2 DEF ReadRegisters, Answers, PhaseInv, StraceTypeOK, TraceeTypeOK
    <3>2. QED
      BY <1>4, <2>2, <3>1
         DEF ReadRegisters, kernel, stopping, seizure, past, printed
  <2>3. QED
    BY <2>1, <2>2
<1>5. CASE ReportStop
  <2>1. /\ pc = "report" /\ pc' = "resume" /\ UNCHANGED <<kernel, status, deliver>>
        /\ in_syscall' = ~in_syscall
        /\ log' = Append(log, IF in_syscall THEN Leave(regs.ret)
                              ELSE Enter(regs.nr, regs.abi))
    BY <1>5 DEF ReportStop
  <2>2. log' = hist /\ in_syscall \in BOOLEAN
    BY <2>1 DEF StraceTypeOK, TracerTypeOK
  <2>3. life = "stopped" => /\ stop \in {"entry", "exit"} /\ stopsig = NoSig
                            /\ in_syscall = (stop = "exit")
                            /\ where = IF stop = "entry" THEN "call" ELSE "user"
    BY <2>1
  <2>4. QED
    BY <2>1, <2>2, <2>3 DEF kernel, stopping, seizure, past
<1>6. CASE Finish
  <2>1. Dead
    BY <1>6 DEF Finish, PhaseInv
  <2>2. QED
    BY <1>6, <2>1 DEF Finish, kernel, stopping, seizure, past
<1>7. QED
  BY <1>1, <1>2, <1>3, <1>4, <1>5, <1>6

\* The steps of main after trace keep LoopInv.
LEMMA EndPathLoop ==
  ASSUME StraceTypeOK, KernelInv, PhaseInv, LoopInv,
         Announce \/ LeaveMain \/ Fail \/ FailWait \/ ReturnError \/ TracerCrash
  PROVE  LoopInv'
<1> USE DEF At, Goto, LoopInv, PlaceInv, StepInv, RecordInv, KernelInv, Runs, Dead,
            SetupPcs
<1>1. CASE LeaveMain \/ ReturnError \/ TracerCrash
  <2>1. \E o : End(o)
    BY <1>1 DEF LeaveMain, ReturnError, TracerCrash
  <2>2. UNCHANGED <<status, loop>>
    BY <1>1 DEF LeaveMain, ReturnError, TracerCrash
  <2> HIDE DEF LoopInv, KernelInv
  <2>3. QED
    BY <2>1, <2>2, EndLoop
<1>2. CASE Announce
  <2>1. Dead
    BY <1>2 DEF Announce, PhaseInv
  <2>2. QED
    BY <1>2, <2>1 DEF Announce, kernel, stopping, seizure, past, loop, printed
<1>3. CASE Fail
  <2>1. CASE Alive
    BY <1>3, <2>1
       DEF Fail, KillChild, SigKill, KILL, NoSig, seizure, past, loop, printed
  <2>2. CASE ~Alive
    BY <1>3, <2>2 DEF Fail, KillChild, SigKill, stopping, seizure, past, loop, printed
  <2>3. QED
    BY <2>1, <2>2
<1>4. CASE FailWait
  <2>1. CASE life = "reaped"
    BY <1>4, <2>1 DEF FailWait, kernel, stopping, seizure, past, loop, printed
  <2>2. CASE life # "reaped"
    BY <1>4, <2>2 DEF FailWait, WaitChild, Collect, seizure, past, loop, printed
  <2>3. QED
    BY <2>1, <2>2
<1>5. QED
  BY <1>1, <1>2, <1>3, <1>4

\* The handlers, and the end of the tracer by a signal, keep LoopInv.
LEMMA HandlerLoop ==
  ASSUME StraceTypeOK, KernelInv, PhaseInv, LoopInv,
         \/ HandlerKill \/ HandlerWait \/ HandlerSay
         \/ \E s \in UserSends : UserSignal(s)
  PROVE  LoopInv'
<1> USE DEF LoopInv, PlaceInv, StepInv, RecordInv, KernelInv, Runs, Dead, SetupPcs
<1>1. CASE HandlerKill
  <2>1. CASE Alive
    BY <1>1, <2>1
       DEF HandlerKill, KillChild, SigKill, KILL, NoSig, seizure, past, loop, printed
  <2>2. CASE ~Alive
    BY <1>1, <2>2
       DEF HandlerKill, KillChild, SigKill, Alive, stopping, seizure, past, loop, printed
  <2>3. QED
    BY <2>1, <2>2
<1>2. CASE HandlerWait
  <2>1. UNCHANGED <<pc, status, loop>>
    BY <1>2 DEF HandlerWait
  <2>2. \/ UNCHANGED kernel
        \/ life = "zombie" /\ Collect
    BY <1>2 DEF HandlerWait, PhaseInv, Ending, Alive
  <2>3. CASE UNCHANGED kernel
    <3>1. Owed' = Owed
      BY <2>3, OwedStays DEF kernel, stopping
    <3> HIDE DEF Owed
    <3>2. QED
      BY <2>1, <2>3, <3>1 DEF kernel, stopping, seizure, past, loop, printed
  <2>4. CASE life = "zombie" /\ Collect
    BY <2>1, <2>4 DEF Collect, seizure, past, loop, printed
  <2>5. QED
    BY <2>2, <2>3, <2>4
<1>3. CASE HandlerSay
  <2>1. End(Exited(1)) /\ UNCHANGED <<status, loop>>
    BY <1>3 DEF HandlerSay
  <2> HIDE DEF LoopInv, KernelInv
  <2>2. QED
    BY <2>1, EndLoop
<1>4. ASSUME NEW s \in UserSends, UserSignal(s) PROVE LoopInv'
  <2>1. UNCHANGED <<status, loop>>
    BY <1>4 DEF UserSignal
  <2>2. CASE s \in caught
    <3>1. UNCHANGED <<kernel, pc>>
      BY <1>4, <2>2 DEF UserSignal
    <3>2. Owed' = Owed
      BY <3>1, OwedStays DEF kernel, stopping
    <3> HIDE DEF Owed
    <3>3. QED
      BY <2>1, <3>1, <3>2 DEF kernel, stopping, seizure, past, loop, printed
  <2>3. CASE s \notin caught
    <3>1. End(Signaled(s))
      BY <1>4, <2>3 DEF UserSignal
    <3> HIDE DEF LoopInv, KernelInv
    <3>2. QED
      BY <2>1, <3>1, EndLoop
  <2>4. QED
    BY <2>2, <2>3
<1>5. QED
  BY <1>1, <1>2, <1>3, <1>4

-----------------------------------------------------------------------------
(* The invariant. *)

\* The child is continued early once and for all, and never unless the
\* environment may do it.
LEMMA EarlyStays ==
  ASSUME early, Next
  PROVE  early'
<1>1. CASE TracerStep \/ UserStep
  <2>1. UNCHANGED early
    BY <1>1 DEF TracerStep, Refuse, Accept, Fork, ForkFails, Install, Await,
         SeizeChild, InterruptChild, Settle, ResumeChild, WaitStop, ReportSignal,
         ReadRegisters, ReportStop, Finish, Announce, LeaveMain, Fail, FailWait,
         ReturnError, HandlerKill, HandlerWait, HandlerSay, UserStep, TracerCrash,
         UserSignal, End, TracerGone, ForkChild, WaitChild, Collect, Seize, Interrupt,
         Resume, KillChild, kernel, past
  <2>2. QED
    BY <2>1
<1>2. CASE TraceeStep
  BY <1>2 DEF TraceeStep, TraceeNext, ChildRaise, UntracedSignal, SignalStop,
       SendSignal, EnterCall, LeaveCall, ExecImage, UnwatchedExec, ExitCall,
       UnwatchedExit, TrapStop, Die, SendKill, KillChild, past
<1>3. CASE Over
  BY <1>3 DEF Over, vars, kernel, past
<1>4. QED
  BY <1>1, <1>2, <1>3 DEF Next

\* Stuttering changes nothing.
LEMMA InvStutters ==
  ASSUME Inv, UNCHANGED vars
  PROVE  Inv'
<1>1. UNCHANGED <<life, where, stop, stopsig, pend, doomed, news, fate, traced, opts,
                  armed, prog, hist, early, blind, pc, caught, frames, status,
                  in_syscall, deliver, regs, log, outcome>>
  BY DEF vars, kernel, stopping, seizure, past, tracer, handlers, loop, printed,
         ending
<1>2. Owed' = Owed
  BY <1>1, OwedStays
<1>3. KernelInv'
  BY <1>1 DEF Inv, KernelInv, Dead
<1>4. PhaseInv'
  BY <1>1 DEF Inv, PhaseInv, InHandler, Ending, Alive, Dead
<1>5. PlaceInv /\ StepInv => PlaceInv' /\ StepInv'
  BY <1>1 DEF PlaceInv, StepInv, Runs, Dead
<1>6. RecordInv => RecordInv'
  BY <1>1, <1>2 DEF RecordInv, Runs
<1>7. QED
  BY <1>1, <1>3, <1>4, <1>5, <1>6 DEF Inv, LoopInv

\* The tracer starts in the inductive invariant.
LEMMA InvInit == Init => Inv
<1> SUFFICES ASSUME Init PROVE Inv
  OBVIOUS
<1>1. KernelInv
  BY DEF Init, TraceeInit, KernelInv, Dead
<1>2. PhaseInv
  BY DEF Init, TraceeInit, PhaseInv, InHandler
<1>3. LoopInv
  BY DEF Init, TraceeInit, LoopInv, PlaceInv, StepInv, RecordInv, Runs, Dead
<1>4. QED
  BY <1>1, <1>2, <1>3 DEF Inv

\* Every step keeps the inductive invariant.
LEMMA InvNext ==
  ASSUME StraceTypeOK, Inv, [Next]_vars
  PROVE  Inv'
<1> USE DEF Inv
<1>1. TraceeTypeOK
  BY DEF StraceTypeOK
<1>2. CASE TracerStep \/ UserStep
  <2>1. KernelInv'
    BY <1>1, <1>2, TracerEffects, EffectsKernel
  <2>2. PhaseInv'
    BY <1>2, SetupPhase, TracePhase, EndPathPhase, HandlerPhase
       DEF TracerStep, UserStep
  <2>3. LoopInv => LoopInv'
    BY <1>2, SetupLoop, TraceLoop, EndPathLoop, HandlerLoop DEF TracerStep, UserStep
  <2>4. early => early'
    BY <1>2, EarlyStays DEF Next
  <2>5. QED
    BY <2>1, <2>2, <2>3, <2>4
<1>3. CASE TraceeStep
  <2>1. TraceeNext /\ UNCHANGED tracer
    BY <1>3 DEF TraceeStep
  <2>2. KernelInv'
    BY <1>1, <2>1, TraceeKernel
  <2>3. PhaseInv'
    BY <1>1, <2>1, ChildPhase
  <2>4. LoopInv => early' \/ LoopInv'
    BY <2>1, ChildLoop
  <2>5. early => early'
    BY <1>3, EarlyStays DEF Next
  <2>6. QED
    BY <2>2, <2>3, <2>4, <2>5
<1>4. CASE UNCHANGED vars
  BY <1>4, InvStutters
<1>5. QED
  BY <1>2, <1>3, <1>4 DEF Next, Over

\* The inductive invariant, for every program, table and bound.
THEOREM Invariant == Spec => []Inv
<1>1. StraceTypeOK /\ Inv /\ [Next]_vars => Inv'
  BY InvNext
<1>2. QED
  BY <1>1, InvInit, TypeCorrect, PTL DEF Spec

\* The toggle of trace never gets out of step with the stops of the kernel
\* (ft_strace.c:251, 299).
THEOREM ToggleCorrect == Spec => []ToggleInStep
<1>1. Inv => ToggleInStep
  BY DEF Inv, LoopInv, PlaceInv, StepInv, ToggleInStep
<1>2. QED
  BY <1>1, Invariant, PTL

\* trace passes on the signal of the stop it resumes from, and no other
\* (ft_strace.c:252-259, 277).
THEOREM InjectionCorrect == Spec => []InjectsWhatItTook
<1>1. Inv => InjectsWhatItTook
  BY DEF Inv, LoopInv, StepInv, InjectsWhatItTook
<1>2. QED
  BY <1>1, Invariant, PTL

\* main's error path is never the tracer's own mistake (ft_strace.c:344-352).
THEOREM FailCorrect == Spec => []FailOnlyIfKilled
<1>1. Inv => FailOnlyIfKilled
  BY DEF Inv, LoopInv, StepInv, FailOnlyIfKilled
<1>2. QED
  BY <1>1, Invariant, PTL

\* The program runs nothing that is not traced (ft_strace.c:333-347).
THEOREM NothingEscapesCorrect == Spec => []NothingEscapes
<1>1. Inv => NothingEscapes
  BY DEF Inv, LoopInv, PlaceInv, NothingEscapes
<1>2. QED
  BY <1>1, Invariant, PTL

\* A tracer that exits has seen its child die (ft_strace.c:19-38, 349-366).
THEOREM NoChildLeftCorrect == Spec => []NoChildLeftBehind
<1>1. Inv => NoChildLeftBehind
  BY DEF Inv, PhaseInv, NoChildLeftBehind
<1>2. QED
  BY <1>1, Invariant, PTL

\* PTRACE_O_EXITKILL covers every end of the tracer after PTRACE_SEIZE
\* (ft_strace.c:345).
THEOREM SeizedDiesCorrect == Spec => SeizedDiesWithTracer
<1>1. ASSUME StraceTypeOK, Inv, [Next]_vars, EndsTracer, traced
      PROVE  ~Alive' \/ doomed' # NoSig
  <2>1. TracerGone
    BY <1>1 DEF EndsTracer, Running, Next, TracerStep, Refuse, Accept, Fork, ForkFails,
         Install, Await, SeizeChild, InterruptChild, Settle, ResumeChild, WaitStop,
         Classify, ReportSignal, ReadRegisters, ReportStop, Finish, Announce, LeaveMain,
         Fail, FailWait, ReturnError, HandlerKill, HandlerWait, HandlerSay, UserStep,
         TracerCrash, UserSignal, TraceeStep, Over, End, Goto, At, vars, tracer
  <2>2. Ending'
    BY <1>1, <2>1, GoneEnds DEF Inv, StraceTypeOK
  <2>3. QED
    BY <2>2 DEF Ending
<1>2. StraceTypeOK /\ Inv /\ [Next]_vars
        => [(EndsTracer /\ traced) => (~Alive' \/ doomed' # NoSig)]_vars
  BY <1>1
<1>3. QED
  BY <1>2, Invariant, TypeCorrect, PTL DEF Spec, SeizedDiesWithTracer

\* What the tracer does to the child adds nothing to its history and does not bring
\* it back.
LEMMA EffectsHistory ==
  ASSUME TraceeTypeOK, KernelInv, Effects
  PROVE  /\ hist' = hist
         /\ (Dead \/ doomed # NoSig) => (Dead' \/ doomed' # NoSig)
<1> USE DEF Dead, KernelInv
<1>1. CASE UNCHANGED kernel
  BY <1>1 DEF kernel, stopping, past
<1>2. CASE life = "none" /\ ForkChild
  BY <1>2 DEF ForkChild, past
<1>3. CASE KillChild
  BY <1>3 DEF KillChild, SigKill, Alive, KILL, NoSig, stopping, past
<1>4. CASE news /\ Collect
  BY <1>4 DEF Collect, past
<1>5. CASE life \notin {"none", "newborn", "zombie", "reaped"} /\ Seize(Options)
  BY <1>5 DEF Seize, StopAt, stopping, past
<1>6. CASE Interrupt
  BY <1>6 DEF Interrupt, stopping, past
<1>7. ASSUME NEW sig \in AnySig, Answers, Resume(sig)
      PROVE  hist' = hist /\ ~Dead /\ doomed = NoSig
  BY <1>7 DEF Resume, Answers
<1>8. CASE TracerGone
  <2>1. hist' = hist
    BY <1>8 DEF TracerGone, past
  <2>2. CASE traced /\ Alive
    BY <1>8, <2>1, <2>2, GoneEnds DEF Ending, Alive
  <2>3. CASE traced /\ ~Alive
    <3>1. life' = life /\ doomed = NoSig
      BY <1>8, <2>3, GoneEnds DEF Alive
    <3>2. QED
      BY <2>1, <3>1
  <2>4. CASE ~traced
    BY <1>8, <2>1, <2>4, GoneEnds
  <2>5. QED
    BY <2>1, <2>2, <2>3, <2>4
<1>9. QED
  BY <1>1, <1>2, <1>3, <1>4, <1>5, <1>6, <1>7, <1>8 DEF Effects

\* A step of the child either adds one event, when the trace shows all the others, or
\* adds nothing.
LEMMA ChildHistory ==
  ASSUME StraceTypeOK, KernelInv, LoopInv, TraceeNext
  PROVE  \/ /\ hist = log /\ Runs /\ ~Dead' /\ doomed' = NoSig
            /\ \E m \in Event : hist' = Append(hist, m)
         \/ hist' = hist
<1>1. Runs => hist = log
  BY DEF LoopInv, RecordInv
<1>2. ASSUME NEW n \in Nr, EnterCall(n)
      PROVE  /\ Runs /\ ~Dead' /\ doomed' = NoSig
             /\ \E m \in Event : hist' = Append(hist, m)
  <2>1. prog.abi \in Abis
    BY DEF StraceTypeOK, TraceeTypeOK, Program
  <2>2. Enter(n, prog.abi) \in Event
    BY <2>1 DEF Enter, Event
  <2>3. hist' = Append(hist, Enter(n, prog.abi)) /\ Runs /\ ~Dead' /\ doomed' = NoSig
    BY <1>2 DEF EnterCall, StopAt, Runs, Dead
  <2>4. QED
    BY <2>2, <2>3
<1>3. ASSUME NEW r \in Results, LeaveCall(r)
      PROVE  /\ Runs /\ ~Dead' /\ doomed' = NoSig
             /\ \E m \in Event : hist' = Append(hist, m)
  <2>1. Leave(r) \in Event
    BY DEF Leave, Event
  <2>2. hist' = Append(hist, Leave(r)) /\ Runs /\ ~Dead' /\ doomed' = NoSig
    BY <1>3 DEF LeaveCall, StopAt, Runs, Dead
  <2>3. QED
    BY <2>1, <2>2
<1>4. ASSUME NEW s \in Signals, SignalStop(s)
      PROVE  /\ Runs /\ ~Dead' /\ doomed' = NoSig
             /\ \E m \in Event : hist' = Append(hist, m)
  <2>1. Signal(s) \in Event
    BY DEF Signal, Event, AnySig
  <2>2. hist' = Append(hist, Signal(s)) /\ Runs /\ ~Dead' /\ doomed' = NoSig
    BY <1>4 DEF SignalStop, StopAt, Runs, Dead
  <2>3. QED
    BY <2>1, <2>2
<1>5. ASSUME NEW s \in Signals, UntracedSignal(s) \/ SendSignal(s)
      PROVE  hist' = hist
  BY <1>5 DEF UntracedSignal, SendSignal, past
<1>6. ASSUME NEW a \in Abis, ExecImage(a) \/ UnwatchedExec(a)
      PROVE  hist' = hist
  BY <1>6 DEF ExecImage, UnwatchedExec, past
<1>7. ASSUME NEW c \in ExitCodes, ExitCall(c) \/ UnwatchedExit(c)
      PROVE  hist' = hist
  BY <1>7 DEF ExitCall, UnwatchedExit, past
<1>8. CASE ChildRaise \/ TrapStop \/ Die \/ SendKill
  BY <1>8 DEF ChildRaise, TrapStop, Die, SendKill, KillChild, past
<1>9. QED
  BY <1>1, <1>2, <1>3, <1>4, <1>5, <1>6, <1>7, <1>8 DEF TraceeNext

\* A step of the tracer either writes down the one event that is owed or leaves the
\* trace alone.
LEMMA TracerHistory ==
  ASSUME StraceTypeOK, KernelInv, LoopInv, TracerStep \/ UserStep
  PROVE  \/ UNCHANGED kernel /\ log' = hist /\ \E m \in Event : hist = Append(log, m)
         \/ log' = log
<1>1. CASE ReportSignal
  <2>1. CASE Answers
    <3>1. life = "stopped" /\ stop = "signal" /\ status.sig = stopsig /\ pc = "siginfo"
      BY <1>1, <2>1 DEF ReportSignal, Answers, At, LoopInv, PlaceInv, StepInv
    <3>2. hist = Append(log, Signal(stopsig)) /\ log' = hist
      BY <1>1, <2>1, <3>1 DEF ReportSignal, LoopInv, RecordInv, Owed
    <3>3. Signal(stopsig) \in Event
      BY DEF Signal, Event, AnySig, StraceTypeOK, TraceeTypeOK
    <3>4. QED
      BY <1>1, <3>2, <3>3 DEF ReportSignal
  <2>2. CASE ~Answers
    BY <1>1, <2>2 DEF ReportSignal
  <2>3. QED
    BY <2>1, <2>2
<1>2. CASE ReportStop
  <2> DEFINE m == IF in_syscall THEN Leave(regs.ret) ELSE Enter(regs.nr, regs.abi)
  <2>1. regs.nr \in Nr \cup {NoNr} /\ regs.abi \in Abis /\ regs.ret \in Results
    BY DEF StraceTypeOK, TracerTypeOK
  <2>2. m \in Event
    BY <2>1 DEF Leave, Enter, Event
  <2>3. hist = Append(log, m)
    BY <1>2 DEF ReportStop, At, LoopInv, RecordInv
  <2>4. log' = Append(log, m) /\ UNCHANGED kernel
    BY <1>2 DEF ReportStop
  <2> HIDE DEF m
  <2>5. QED
    BY <2>2, <2>3, <2>4
<1>3. CASE TracerStep /\ ~ReportSignal /\ ~ReportStop
  BY <1>3 DEF TracerStep, Refuse, Accept, Fork, ForkFails, Install, Await, SeizeChild,
       InterruptChild, Settle, ResumeChild, WaitStop, ReadRegisters, Finish, Announce,
       LeaveMain, Fail, FailWait, ReturnError, HandlerKill, HandlerWait, HandlerSay,
       loop, printed
<1>4. CASE UserStep
  BY <1>4 DEF UserStep, TracerCrash, UserSignal, loop, printed
<1>5. QED
  BY <1>1, <1>2, <1>3, <1>4

\* ft_strace is a synchronous recorder: if nobody continues the child before it is
\* seized, the trace is what the child did, in order, and at most one event behind.
THEOREM Records == ASSUME EarlyCont = FALSE PROVE Spec => RecordsTheChild
<1>1. Init => R!Init
  BY DEF Init, TraceeInit, R!Init, Dead
<1>2. ASSUME StraceTypeOK, Inv, ~early, [Next]_vars
      PROVE  [R!Next]_R!vars
  <2> DEFINE gone == Dead \/ doomed # NoSig
  <2>1. KernelInv /\ PhaseInv /\ TraceeTypeOK /\ LoopInv
    BY <1>2 DEF Inv, KernelInv, StraceTypeOK
  <2>2. hist \in Seq(Event) /\ log \in Seq(Event)
    BY <1>2 DEF StraceTypeOK, TraceeTypeOK, TracerTypeOK
  <2>3. CASE TracerStep \/ UserStep
    <3>1. hist' = hist /\ (gone => gone')
      BY <1>2, <2>1, <2>3, TracerEffects, EffectsHistory
    <3>2. CASE log' = log
      BY <3>1, <3>2 DEF R!Next, R!Finish, R!vars
    <3>3. CASE /\ UNCHANGED kernel /\ log' = hist
               /\ \E m \in Event : hist = Append(log, m)
      <4>1. PICK m \in Event : hist = Append(log, m)
        BY <3>3
      <4>2. Len(log) < Len(hist) /\ log' = Append(log, hist[Len(log) + 1])
        BY <2>2, <3>3, <4>1
      <4>3. UNCHANGED <<hist, gone>>
        BY <3>3 DEF kernel, stopping, past, Dead
      <4>4. QED
        BY <4>2, <4>3 DEF R!Next, R!Record
    <3>4. QED
      BY <1>2, <2>1, <2>3, <3>2, <3>3, TracerHistory
  <2>4. CASE TraceeStep
    <3>1. TraceeNext /\ UNCHANGED log
      BY <2>4 DEF TraceeStep, tracer, loop, printed
    <3>2. CASE hist' = hist
      <4>1. gone => gone'
        BY <2>1, <3>1, ChildGoesOn DEF Ending, Alive, Dead, KernelInv
      <4>2. QED
        BY <3>1, <3>2, <4>1 DEF R!Next, R!Finish, R!vars
    <3>3. CASE /\ hist = log /\ Runs /\ ~Dead' /\ doomed' = NoSig
               /\ \E m \in Event : hist' = Append(hist, m)
      <4>1. ~gone /\ ~gone'
        BY <3>3 DEF Runs, Dead
      <4>2. QED
        BY <3>1, <3>3, <4>1 DEF R!Next, R!Happen
    <3>4. QED
      BY <1>2, <2>1, <3>1, <3>2, <3>3, ChildHistory
  <2>5. CASE UNCHANGED vars
    BY <2>5 DEF vars, kernel, stopping, past, tracer, loop, printed, R!vars, Dead
  <2>6. QED
    BY <1>2, <2>3, <2>4, <2>5 DEF Next, Over
<1>3. Inv => ~early
  BY DEF Inv, KernelInv
<1>4. StraceTypeOK /\ Inv /\ [Next]_vars => [R!Next]_R!vars
  BY <1>2, <1>3
<1>5. QED
  BY <1>1, <1>4, Invariant, TypeCorrect, PTL DEF Spec, RecordsTheChild, R!Spec

-----------------------------------------------------------------------------
(* The number of a child that has been reaped. *)

\* Once a child that was resumed at least once is reaped, main is on its way out
\* without another kill, or the handler that reaped it is about to _exit.
PastKilling == pc \in {"finish", "announce", "leave", "return", "done"}
SomeSay == \E i \in DOMAIN frames : frames[i].at = "say"
ReapInv ==
  /\ pc \in SetupPcs => ~armed
  /\ life = "reaped" => ~armed \/ PastKilling \/ SomeSay

\* Nothing the child and its environment do reaps it.
LEMMA ChildStays ==
  ASSUME TraceeNext
  PROVE  (life' = "reaped" => life = "reaped") /\ armed' = armed
<1> USE DEF seizure, stopping, StopAt, EndWith
<1>1. CASE ChildRaise
  BY <1>1 DEF ChildRaise
<1>2. ASSUME NEW s \in Signals, UntracedSignal(s) \/ SignalStop(s) \/ SendSignal(s)
      PROVE  (life' = "reaped" => life = "reaped") /\ armed' = armed
  BY <1>2 DEF UntracedSignal, SignalStop, SendSignal
<1>3. ASSUME NEW n \in Nr, EnterCall(n)
      PROVE  (life' = "reaped" => life = "reaped") /\ armed' = armed
  BY <1>3 DEF EnterCall
<1>4. ASSUME NEW r \in Results, LeaveCall(r)
      PROVE  (life' = "reaped" => life = "reaped") /\ armed' = armed
  BY <1>4 DEF LeaveCall
<1>5. ASSUME NEW a \in Abis, ExecImage(a) \/ UnwatchedExec(a)
      PROVE  (life' = "reaped" => life = "reaped") /\ armed' = armed
  <2> HIDE DEF StopAt, stopping, seizure
  <2>1. (StopAt("exec", NoSig) \/ UNCHANGED stopping) /\ UNCHANGED seizure
    BY <1>5, ZenonT(30) DEF ExecImage, UnwatchedExec
  <2>2. QED
    BY <2>1 DEF StopAt, stopping, seizure
<1>6. ASSUME NEW c \in ExitCodes, ExitCall(c) \/ UnwatchedExit(c)
      PROVE  (life' = "reaped" => life = "reaped") /\ armed' = armed
  BY <1>6 DEF ExitCall, UnwatchedExit
<1>7. CASE TrapStop \/ Die
  BY <1>7 DEF TrapStop, Die
<1>8. CASE SendKill
  BY <1>8 DEF SendKill, KillChild, SigKill
<1>9. QED
  BY <1>1, <1>2, <1>3, <1>4, <1>5, <1>6, <1>7, <1>8 DEF TraceeNext

\* A status trace collects of a dead child sends it to its end.
LEMMA DeathFinishes ==
  ASSUME KernelInv, life = "zombie", WaitChild
  PROVE  Classify(status') = "finish"
<1>1. Dead /\ fate.kind \in {"exited", "signaled"}
  BY DEF KernelInv, Dead
<1>2. QED
  BY <1>1 DEF WaitChild, Reportable, Classify

\* A step of a handler leaves the frames below it alone.
LEMMA OuterStays ==
  ASSUME frames \in Seq(Frame), frames # <<>>, NEW l \in {"wait", "say"}, HandlerGoto(l),
         ~InHandler("say")
  PROVE  SomeSay => SomeSay'
<1>1. ASSUME NEW i \in DOMAIN frames, frames[i].at = "say" PROVE SomeSay'
  <2>1. i # Len(frames)
    BY <1>1 DEF InHandler
  <2>2. DOMAIN frames' = DOMAIN frames /\ frames'[i] = frames[i]
    BY <1>1, <2>1 DEF HandlerGoto
  <2>3. QED
    BY <1>1, <2>2 DEF SomeSay
<1>2. QED
  BY <1>1 DEF SomeSay

\* Every step keeps ReapInv.
LEMMA ReapNext ==
  ASSUME StraceTypeOK, KernelInv, ReapInv, [Next]_vars
  PROVE  ReapInv'
<1> USE DEF ReapInv, PastKilling, At, Goto, SetupPcs
<1>0. frames \in Seq(Frame)
  BY DEF StraceTypeOK, TracerTypeOK
<1>1. frames = <<>> => ~SomeSay
  BY DEF SomeSay
<1>2. CASE TraceeStep
  <2>1. UNCHANGED <<pc, frames>> /\ (life' = "reaped" => life = "reaped") /\ armed' = armed
    BY <1>2, ChildStays DEF TraceeStep, tracer, handlers
  <2>2. QED
    BY <2>1 DEF SomeSay
<1>3. CASE UNCHANGED vars
  BY <1>3 DEF vars, tracer, handlers, kernel, stopping, seizure, SomeSay
<1>4. ASSUME NEW o, End(o) PROVE ReapInv'
  BY <1>4 DEF End
<1>5. CASE Refuse \/ ForkFails \/ LeaveMain \/ ReturnError \/ HandlerSay \/ TracerCrash
  BY <1>4, <1>5 DEF Refuse, ForkFails, LeaveMain, ReturnError, HandlerSay, TracerCrash
<1>6. CASE Accept \/ Install \/ ReportSignal \/ ReadRegisters \/ ReportStop \/ Announce
           \/ Finish
  <2>1. UNCHANGED <<life, armed>> /\ frames = <<>>
    BY <1>6 DEF Accept, Install, ReportSignal, ReadRegisters, ReportStop, Announce,
                Finish, kernel, stopping, seizure
  <2>2. pc' \in SetupPcs => pc \in SetupPcs
    BY <1>6 DEF Accept, Install, ReportSignal, ReadRegisters, ReportStop, Announce, Finish
  <2>3. PastKilling => PastKilling'
    BY <1>6 DEF Accept, Install, ReportSignal, ReadRegisters, ReportStop, Announce, Finish
  <2>4. QED
    BY <1>1, <2>1, <2>2, <2>3
<1>7. CASE Fork
  BY <1>7 DEF Fork, ForkChild, seizure
<1>8. CASE Await \/ Settle
  <2>1. armed' = armed /\ pc \in SetupPcs
    BY <1>8 DEF Await, Settle, WaitChild, Collect, seizure
  <2>2. QED
    BY <2>1
<1>9. CASE SeizeChild \/ InterruptChild
  <2>1. armed' = armed /\ pc \in SetupPcs
    BY <1>9 DEF SeizeChild, InterruptChild, Seize, Interrupt, kernel, seizure
  <2>2. QED
    BY <2>1
<1>10. CASE ResumeChild
  <2>1. CASE Answers
    BY <1>10, <2>1 DEF ResumeChild, Resume
  <2>2. CASE ~Answers
    BY <1>1, <1>10, <2>2 DEF ResumeChild, kernel, stopping, seizure
  <2>3. QED
    BY <2>1, <2>2
<1>11. CASE WaitStop
  <2>1. armed' = armed /\ WaitChild /\ pc' = Classify(status') /\ life # "reaped"
    BY <1>11 DEF WaitStop, WaitChild, Collect, KernelInv, seizure
  <2>2. pc' \in {"finish", "resume", "siginfo", "regs"}
    BY <2>1 DEF Classify
  <2>3. life = "zombie" => Classify(status') = "finish"
    BY <2>1, DeathFinishes
  <2>4. life' = "reaped" => life = "zombie"
    BY <2>1 DEF WaitChild, Collect
  <2>5. QED
    BY <2>1, <2>2, <2>3, <2>4
<1>12. CASE Fail
  BY <1>1, <1>12 DEF Fail, KillChild, SigKill, stopping, seizure
<1>13. CASE FailWait
  BY <1>13 DEF FailWait
<1>14. CASE HandlerKill
  <2>1. /\ UNCHANGED <<pc, armed>> /\ (life' = "reaped" => life = "reaped")
        /\ frames # <<>> /\ HandlerGoto("wait") /\ ~InHandler("say")
    BY <1>14 DEF HandlerKill, InHandler, KillChild, SigKill, stopping, seizure
  <2>2. SomeSay => SomeSay'
    BY <1>0, <2>1, OuterStays
  <2>3. QED
    BY <2>1, <2>2
<1>15. CASE HandlerWait
  <2>1. UNCHANGED <<pc, armed>> /\ frames # <<>> /\ HandlerGoto("say")
    BY <1>15 DEF HandlerWait, InHandler, Collect, kernel, seizure
  <2>2. Len(frames) \in DOMAIN frames /\ frames[Len(frames)] \in Frame
    BY <1>0, <2>1
  <2>3. frames' = [frames EXCEPT ![Len(frames)] = [frames[Len(frames)] EXCEPT !.at = "say"]]
    BY <2>1 DEF HandlerGoto
  <2>4. Len(frames) \in DOMAIN frames' /\ frames'[Len(frames)].at = "say"
    BY <2>2, <2>3 DEF Frame
  <2>5. QED
    BY <2>1, <2>4 DEF SomeSay
<1>16. ASSUME NEW s \in UserSends, UserSignal(s) PROVE ReapInv'
  <2>1. CASE s \notin caught
    BY <1>4, <1>16, <2>1 DEF UserSignal
  <2>2. CASE s \in caught
    <3>1. /\ frames' = Append(frames, [sig |-> s, at |-> "kill"])
          /\ UNCHANGED <<pc, life, armed>>
      BY <1>16, <2>2 DEF UserSignal, kernel, stopping, seizure
    <3>2. \A i \in DOMAIN frames : i \in DOMAIN frames' /\ frames'[i] = frames[i]
      BY <1>0, <3>1
    <3>3. SomeSay => SomeSay'
      BY <3>2 DEF SomeSay
    <3>4. QED
      BY <3>1, <3>3
  <2>3. QED
    BY <2>1, <2>2
<1>17. QED
  BY <1>2, <1>3, <1>5, <1>6, <1>7, <1>8, <1>9, <1>10, <1>11, <1>12, <1>13, <1>14, <1>15,
     <1>16 DEF Next, TracerStep, UserStep, Over

\* The tracer and its handlers send SIGKILL to a number that may be another
\* process's only in the three cases of KillsItsChild (ft_strace.c:19-38, 349).
THEOREM KillsItsChildCorrect == Spec => []KillsItsChild
<1>1. Init => ReapInv
  BY DEF Init, TraceeInit, ReapInv
<1>2. StraceTypeOK /\ Inv /\ ReapInv /\ [Next]_vars => ReapInv'
  BY ReapNext DEF Inv
<1>3. StraceTypeOK /\ Inv /\ ReapInv => KillsItsChild
  <2> SUFFICES ASSUME StraceTypeOK, Inv, ReapInv, life = "reaped", armed,
                      At("fail") \/ InHandler("kill"),
                      pc \notin {"finish", "announce", "leave", "return"}
               PROVE  \E i \in 1..(Len(frames) - 1) : frames[i].at = "say"
    BY DEF KillsItsChild
  <2>1. frames \in Seq(Frame)
    BY DEF StraceTypeOK, TracerTypeOK
  <2>2. pc # "done"
    BY DEF Inv, PhaseInv, At, InHandler
  <2>3. PICK i \in DOMAIN frames : frames[i].at = "say"
    BY <2>2 DEF ReapInv, PastKilling, SomeSay
  <2>4. InHandler("kill")
    BY <2>3 DEF At
  <2>5. i # Len(frames)
    BY <2>3, <2>4 DEF InHandler
  <2>6. i \in 1..(Len(frames) - 1)
    BY <2>1, <2>3, <2>5
  <2>7. QED
    BY <2>3, <2>6
<1>4. QED
  BY <1>1, <1>2, <1>3, Invariant, TypeCorrect, PTL DEF Spec

==============================================================================
