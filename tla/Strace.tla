-------------------------------- MODULE Strace --------------------------------
(***************************************************************************)
(* ft_strace.c: main, trace, wait_child, read_registers, lookup_syscall,   *)
(* print_entry, finish_args and the two signal handlers, composed with the *)
(* child of module Tracee.                                                 *)
(*                                                                         *)
(* A step of the tracer is the code from one system call it makes on the   *)
(* child to the next: between two of them the child and its environment    *)
(* may do anything the kernel lets them.  Handlers run on top of whatever  *)
(* step the tracer is about to make.                                       *)
(***************************************************************************)
EXTENDS Tracee

CONSTANTS
  Table,        \* Table[abi][nr]: the argument types of a row of strace_data.h
  UserSends,    \* the signals the user may send to the tracer
  KillsTracer   \* whether somebody may SIGKILL the tracer

Handled == {"INT", "TERM", "HUP"}
MemoryTypes == {"INPUT_BYTES", "OUTPUT_BYTES", "STR", "VSTR"}
ArgTypes == MemoryTypes \cup {"INT"}   \* "INT": any type shown by its value

(* Every row is a sequence of argument types; a number without a name has no
   row.  No row reads memory after an output buffer: its second half is decoded
   after the call. *)
ASSUME TableAssumption ==
  /\ DOMAIN Table = Abis
  /\ \A a \in Abis : Table[a] \in [DOMAIN Table[a] -> Seq(ArgTypes)]
  /\ \A a \in Abis : \A n \in DOMAIN Table[a] :
       \A i, j \in DOMAIN Table[a][n] :
         i < j /\ Table[a][n][i] = "OUTPUT_BYTES"
           => Table[a][n][j] \notin MemoryTypes
(* No call that replaces the address space fills in a buffer: what finish_args shows
   after the call is read from the address space the call was made in. *)
ASSUME ExecAssumption ==
  \A a \in Abis : \A n \in Nr \cap DOMAIN Table[a] :
    Kind[a][n] = "exec"
      => \A i \in DOMAIN Table[a][n] : Table[a][n][i] # "OUTPUT_BYTES"
ASSUME UserAssumption ==
  /\ UserSends \subseteq Handled
  /\ KillsTracer \in BOOLEAN

VARIABLES
  pc,          \* the tracer's next step
  caught,      \* the signals whose handler main has installed
  frames,      \* running handlers, innermost last: [sig, at]
  status,      \* main's int status
  in_syscall,  \* trace's toggle
  deliver,     \* the signal the next PTRACE_SYSCALL injects
  compat,      \* trace's compat, as the ABI it stands for: 64 or 32
  regs,        \* what read_registers returned: number, ABI and, on exit, result
  call,        \* struct pending_call: entry, syscall and next_arg
  line,        \* the current call's line: arguments and closing parentheses
  log,         \* what trace has printed: calls, their results, signals
  modes,       \* and where it announced another ABI
  said,        \* the lines that end the trace
  outcome      \* how the tracer itself ended

printed == <<call, line, log, modes>>
loop == <<in_syscall, deliver, compat, regs, printed>>
handlers == <<caught, frames>>
ending == <<said, outcome>>
tracer == <<pc, handlers, status, loop, ending>>
vars == <<kernel, tracer>>

NULL == <<"NULL">>
NoMem == -1

\* A line that announces an ABI, after so many others.
Mode == [after : Nat, abi : Abis]

\* One printed argument: its index, the address space it was read from if it
\* shows memory, and whether the kernel had completed the call when it was read.
Shown == [arg : Nat, mem : Nat \cup {NoMem}, at : {"entry", "exit"}]
CallLine == [args : Seq(Shown), parens : Nat]

Frame == [sig : Handled, at : {"kill", "wait", "say"}]
Saying == [line : {"exited"}, code : 0..255]
          \cup [line : {"killed"}, sig : AnySig]
          \cup [line : {"cut", "detached", "error"}]

SetupPcs == {"start", "fork", "install", "await", "seize", "interrupt", "settle"}
TracePcs == {"resume", "wait", "siginfo", "regs", "report", "finish"}
EndPcs == {"announce", "leave", "fail", "failwait", "return",
          "done"}

TracerTypeOK ==
  /\ pc \in SetupPcs \cup TracePcs \cup EndPcs
  /\ caught \in SUBSET Handled
  /\ frames \in Seq(Frame)
  /\ status \in Status
  /\ in_syscall \in BOOLEAN
  /\ deliver \in AnySig
  /\ compat \in Abis
  /\ regs \in [nr : Nr \cup {NoNr}, abi : Abis, ret : Results]
  /\ call \in [nr : Nr \cup {NoNr}, abi : Abis, next_arg : Nat,
               syscall : {NULL} \cup Seq(ArgTypes)]
  /\ line \in CallLine
  /\ log \in Seq(Event)
  /\ modes \in Seq(Mode)
  /\ said \in Seq(Saying)
  /\ outcome \in Status \cup {Signaled(s) : s \in Handled}

StraceTypeOK == TraceeTypeOK /\ TracerTypeOK

Init ==
  /\ TraceeInit
  /\ pc = "start" /\ caught = {} /\ frames = <<>> /\ status = NoStatus
  /\ in_syscall = FALSE /\ deliver = NoSig /\ compat = 64
  /\ regs = [nr |-> NoNr, abi |-> 64, ret |-> "ok"]
  /\ call = [nr |-> NoNr, abi |-> 64, next_arg |-> 0, syscall |-> NULL]
  /\ line = [args |-> <<>>, parens |-> 0] /\ log = <<>> /\ modes = <<>> /\ said = <<>> /\ outcome = NoStatus

\* main runs only when no handler is running on top of it.
At(l) == pc = l /\ frames = <<>>

Goto(l) == pc' = l

\* ptrace(PTRACE_SYSCALL), PTRACE_GETREGSET and PTRACE_GETSIGINFO need a stopped
\* tracee: any other child is ESRCH.
Answers == traced /\ life = "stopped"

\* The process ends with status o; the kernel treats its child accordingly.
End(o) == pc' = "done" /\ outcome' = o /\ frames' = <<>> /\ TracerGone

(***************************************************************************)
(* main, up to the call of trace.                                          *)
(***************************************************************************)

\* No program, lstat fails, or no execute bit: nothing is started.
Refuse ==
  /\ At("start")
  /\ End(Exited(1))
  /\ UNCHANGED <<caught, status, loop, said>>

Accept ==
  /\ At("start") /\ Goto("fork")
  /\ UNCHANGED <<kernel, handlers, status, loop, ending>>

Fork ==
  /\ At("fork") /\ Goto("install")
  /\ ForkChild
  /\ UNCHANGED <<handlers, status, loop, ending>>

ForkFails ==
  /\ At("fork")
  /\ End(Exited(1))
  /\ UNCHANGED <<caught, status, loop, said>>

\* One of the three signal() calls, in their order.
Install ==
  /\ At("install")
  /\ \/ caught = {} /\ caught' = {"INT"} /\ Goto("install")
     \/ caught = {"INT"} /\ caught' = {"INT", "TERM"} /\ Goto("install")
     \/ caught = {"INT", "TERM"} /\ caught' = Handled /\ Goto("await")
  /\ UNCHANGED <<kernel, frames, status, loop, ending>>

\* Mutant: waitpid is called with WNOHANG.
WaitChildNoHang ==
  IF news THEN status' = Reportable /\ Collect ELSE UNCHANGED <<kernel, status>>

\* wait_child: waitpid, retried on EINTR, fills in status.
WaitChild ==
  /\ news
  /\ status' = Reportable
  /\ Collect

\* Mutant: the first wait forgets WUNTRACED and so sees deaths only.
AwaitNoUntraced ==
  /\ At("await") /\ Dead
  /\ WaitChild
  /\ Goto("fail")
  /\ UNCHANGED <<handlers, loop, ending>>

\* wait_child(child, &status, WUNTRACED) and the test of WIFSTOPPED.
Await ==
  /\ At("await")
  /\ WaitChild
  /\ Goto(IF status'.kind = "stopped" THEN "seize" ELSE "fail")
  /\ UNCHANGED <<handlers, loop, ending>>

\* Mutants: an option is forgotten.
OptionsNoSysGood == {"EXITKILL", "TRACEEXEC"}
OptionsNoExitKill == {"TRACESYSGOOD", "TRACEEXEC"}

Options == {"TRACESYSGOOD", "EXITKILL", "TRACEEXEC"}

SeizeChild ==
  /\ At("seize")
  /\ IF Dead
     THEN UNCHANGED kernel /\ Goto("fail")
     ELSE Seize(Options) /\ Goto("interrupt")
  /\ UNCHANGED <<handlers, status, loop, ending>>

InterruptChild ==
  /\ At("interrupt") /\ Goto("settle")
  /\ Interrupt
  /\ UNCHANGED <<handlers, status, loop, ending>>

\* The wait after PTRACE_INTERRUPT: whatever status it fills in is not looked at.
Settle ==
  /\ At("settle") /\ Goto("resume")
  /\ WaitChild
  /\ UNCHANGED <<handlers, loop, ending>>

(***************************************************************************)
(* trace.                                                                  *)
(***************************************************************************)

\* PTRACE_SYSCALL with the signal to deliver.
ResumeChild ==
  /\ At("resume")
  /\ IF Answers
     THEN Resume(deliver) /\ Goto("wait")
     ELSE UNCHANGED kernel /\ Goto("fail")
  /\ UNCHANGED <<handlers, status, loop, ending>>

\* Mutants: a plain SIGTRAP is taken for a syscall-stop; an event stop is waited on
\* without a resume; WIFSIGNALED is forgotten.
ClassifyAnyTrap(st) ==
  IF st.kind \in {"exited", "signaled"} THEN "finish"
  ELSE IF st.kind # "stopped" \/ st.event THEN "resume"
  ELSE IF st.sig \notin {SYSTRAP, "TRAP"} THEN "siginfo" ELSE "regs"
ClassifyListens(st) ==
  IF st.kind \in {"exited", "signaled"} THEN "finish"
  ELSE IF st.kind # "stopped" \/ st.event THEN "wait"
  ELSE IF st.sig # SYSTRAP THEN "siginfo" ELSE "regs"

ClassifyForgetsDeath(st) ==
  IF st.kind = "exited" THEN "finish"
  ELSE IF st.kind # "stopped" \/ st.event THEN "resume"
  ELSE IF st.sig # SYSTRAP THEN "siginfo" ELSE "regs"

\* What the status says happens next; an event stop is resumed as it is.
Classify(st) ==
  IF st.kind \in {"exited", "signaled"} THEN "finish"
  ELSE IF st.kind # "stopped" \/ st.event THEN "resume"
  ELSE IF st.sig # SYSTRAP THEN "siginfo" ELSE "regs"

\* Mutant: deliver is not reset.
WaitStopKeepsDeliver ==
  /\ At("wait")
  /\ WaitChild
  /\ Goto(Classify(status'))
  /\ UNCHANGED <<handlers, in_syscall, deliver, compat, regs, printed, ending>>

WaitStop ==
  /\ At("wait")
  /\ WaitChild
  /\ deliver' = NoSig
  /\ Goto(Classify(status'))
  /\ UNCHANGED <<handlers, in_syscall, compat, regs, printed, ending>>

\* Mutant: the signal is shown and not delivered.
ReportSignalSwallows ==
  /\ At("siginfo")
  /\ IF Answers
     THEN log' = Append(log, Signal(status.sig)) /\ Goto("resume")
     ELSE Goto("fail") /\ UNCHANGED log
  /\ UNCHANGED <<kernel, handlers, status, in_syscall, deliver, compat, regs, call,
                 line, modes, ending>>

\* A signal-delivery-stop: show the signal, and deliver it at the next resume.
ReportSignal ==
  /\ At("siginfo")
  /\ IF Answers
     THEN /\ log' = Append(log, Signal(status.sig))
          /\ deliver' = status.sig
          /\ Goto("resume")
     ELSE Goto("fail") /\ UNCHANGED <<log, deliver>>
  /\ UNCHANGED <<kernel, handlers, status, in_syscall, compat, regs, call, line,
                 modes, ending>>

\* The size of the register set tells the ABI the child is in.
ReadRegisters ==
  /\ At("regs")
  /\ IF Answers
     THEN /\ regs' = [nr |-> prog.nr, abi |-> prog.abi, ret |-> prog.ret]
          /\ Goto("report")
     ELSE Goto("fail") /\ UNCHANGED regs
  /\ UNCHANGED <<kernel, handlers, status, in_syscall, deliver, compat, printed,
                 ending>>

lookup_syscall(r) ==
  IF r.nr \in DOMAIN Table[r.abi] THEN Table[r.abi][r.nr] ELSE NULL

\* An output buffer is shown only if the call succeeded; memory that cannot be
\* read, a dead child's for one, is shown as its address.
PrintArg(row, i, result, readable) ==
  [arg |-> i,
   mem |-> IF row[i] \in MemoryTypes /\ readable
              /\ (row[i] = "OUTPUT_BYTES" => result = "ok")
           THEN prog.image ELSE NoMem,
   at  |-> IF where = "call" THEN "entry" ELSE "exit"]

\* Mutant: output buffers are read at entry like everything else.
EntryArgsAll(row) == Len(row)

\* How many arguments come before the first output buffer.
EntryArgs(row) ==
  Cardinality({i \in DOMAIN row : \A j \in 1..i : row[j] # "OUTPUT_BYTES"})

\* The row of the call, and its arguments up to the first output buffer.
print_entry(r, readable) ==
  LET row == lookup_syscall(r)
      n == IF row = NULL THEN 0 ELSE EntryArgs(row)
  IN  /\ call' = [nr |-> r.nr, abi |-> r.abi, next_arg |-> n, syscall |-> row]
      /\ line' = [args |-> [i \in 1..n |-> PrintArg(row, i, "ok", readable)],
                  parens |-> IF row = NULL \/ n = Len(row) THEN 1 ELSE 0]

\* Mutant: the row is looked up again with the registers of the exit.
finish_args_exit_row(result, readable) ==
  LET row == lookup_syscall(regs)
      n == call.next_arg
  IN  IF row = NULL \/ n = Len(row)
      THEN UNCHANGED line
      ELSE line' = [args |-> line.args \o [i \in 1..(Len(row) - n) |->
                               PrintArg(row, n + i, result, readable)],
                    parens |-> line.parens + 1]

\* The rest of the arguments; a line that was complete stays as it is.
finish_args(result, readable) ==
  IF call.syscall = NULL \/ call.next_arg = Len(call.syscall)
  THEN UNCHANGED line
  ELSE LET n == call.next_arg
           rest == [i \in 1..(Len(call.syscall) - n) |->
                      PrintArg(call.syscall, n + i, result, readable)]
       IN  line' = [args |-> line.args \o rest, parens |-> line.parens + 1]

\* Mutant: compat is not brought up to date.
AnnounceModeForgets(n) ==
  /\ UNCHANGED compat
  /\ modes' = IF compat # regs.abi
              THEN Append(modes, [after |-> n, abi |-> regs.abi])
              ELSE modes

\* Another ABI than the last one announced is announced, after n lines.
AnnounceMode(n) ==
  /\ compat' = regs.abi
  /\ modes' = IF compat # regs.abi
              THEN Append(modes, [after |-> n, abi |-> regs.abi])
              ELSE modes

\* The body of the loop for a syscall-stop: the result of the open call or, if
\* none is open, a new call.  A child killed meanwhile may or may not let its
\* memory be read.
ReportStop ==
  /\ At("report") /\ Goto("resume")
  /\ \E readable \in (IF life = "stopped" THEN {TRUE} ELSE BOOLEAN) :
       IF in_syscall
       THEN /\ finish_args(regs.ret, readable)
            /\ log' = Append(log, Leave(regs.ret))
            /\ AnnounceMode(Len(log) + 1)
            /\ UNCHANGED call
       ELSE /\ AnnounceMode(Len(log))
            /\ print_entry(regs, readable)
            /\ log' = Append(log, Enter(regs.nr, regs.abi))
  /\ in_syscall' = ~in_syscall
  /\ UNCHANGED <<kernel, handlers, status, deliver, regs, ending>>

\* The child is dead: a call that is open gets the rest of its arguments and "?".
Finish ==
  /\ At("finish") /\ Goto("announce")
  /\ IF in_syscall
     THEN finish_args("err", FALSE) /\ said' = Append(said, [line |-> "cut"])
     ELSE UNCHANGED <<line, said>>
  /\ UNCHANGED <<kernel, handlers, status, in_syscall, deliver, compat, regs, call,
                 log, modes, outcome>>

(***************************************************************************)
(* main, after trace.                                                      *)
(***************************************************************************)

Announce ==
  /\ At("announce") /\ Goto("leave")
  /\ said' = Append(said, IF status.kind = "exited"
                          THEN [line |-> "exited", code |-> status.code]
                          ELSE [line |-> "killed", sig |-> status.sig])
  /\ UNCHANGED <<kernel, handlers, status, loop, outcome>>

\* Return the child's code, or die of the child's signal: SIG_DFL, unblock, raise.
LeaveMain ==
  /\ At("leave")
  /\ End(status)
  /\ UNCHANGED <<caught, status, loop, said>>

\* perror and kill(child, SIGKILL).
Fail ==
  /\ At("fail") /\ Goto("failwait")
  /\ said' = Append(said, [line |-> "error"])
  /\ KillChild
  /\ UNCHANGED <<handlers, status, loop, outcome>>

\* Mutant: the wait is retried on every error.
FailWaitRetries ==
  /\ At("failwait") /\ Goto("return")
  /\ WaitChild
  /\ UNCHANGED <<handlers, loop, ending>>

\* wait_child on the killed child; one that is reaped already is ECHILD.
FailWait ==
  /\ At("failwait") /\ Goto("return")
  /\ IF life = "reaped"
     THEN UNCHANGED <<kernel, status>>
     ELSE WaitChild
  /\ UNCHANGED <<handlers, loop, ending>>

ReturnError ==
  /\ At("return")
  /\ End(Exited(1))
  /\ UNCHANGED <<caught, status, loop, said>>

(***************************************************************************)
(* Signals to the tracer, and the handlers of SIGINT, SIGHUP and SIGTERM.  *)
(***************************************************************************)

Running == pc # "done"

\* Caught: the handler runs on top of what is running; its own signal is blocked
\* meanwhile.  Not yet caught: the default action ends the tracer.
UserSignal(s) ==
  /\ Running
  /\ \A i \in DOMAIN frames : frames[i].sig # s
  /\ IF s \in caught
     THEN /\ frames' = Append(frames, [sig |-> s, at |-> "kill"])
          /\ UNCHANGED <<kernel, pc, outcome>>
     ELSE End(Signaled(s))
  /\ UNCHANGED <<caught, status, loop, said>>

InHandler(l) == frames # <<>> /\ frames[Len(frames)].at = l

HandlerGoto(l) == frames' = [frames EXCEPT ![Len(frames)].at = l]

HandlerKill ==
  /\ InHandler("kill")
  /\ KillChild
  /\ HandlerGoto("wait")
  /\ UNCHANGED <<pc, caught, status, loop, ending>>

\* Mutants: the handler does not wait; it retries the wait on every error.
HandlerWaitSkipped ==
  /\ InHandler("wait")
  /\ HandlerGoto("say")
  /\ UNCHANGED <<kernel, pc, caught, status, loop, ending>>
HandlerWaitRetries ==
  /\ InHandler("wait")
  /\ news /\ Collect
  /\ HandlerGoto("say")
  /\ UNCHANGED <<pc, caught, status, loop, ending>>

\* waitpid(pid_temp, NULL, 0), not retried; a reaped child is ECHILD.
HandlerWait ==
  /\ InHandler("wait")
  /\ IF life = "reaped" THEN UNCHANGED kernel ELSE news /\ Collect
  /\ HandlerGoto("say")
  /\ UNCHANGED <<pc, caught, status, loop, ending>>

\* Mutant: handler_term names the signal it handles instead of SIGKILL.
HandlerSayOwnSignal ==
  /\ InHandler("say")
  /\ said' = Append(said, [line |-> "killed", sig |-> frames[Len(frames)].sig])
  /\ End(Exited(1))
  /\ UNCHANGED <<caught, status, loop>>

\* The handler's lines and _exit(1).
HandlerSay ==
  /\ InHandler("say")
  /\ said' = said \o (IF frames[Len(frames)].sig = "TERM"
                      THEN <<[line |-> "cut"], [line |-> "killed", sig |-> KILL]>>
                      ELSE <<[line |-> "detached"]>>)
  /\ End(Exited(1))
  /\ UNCHANGED <<caught, status, loop>>

\* SIGKILL on the tracer itself.
TracerCrash ==
  /\ KillsTracer /\ Running
  /\ End(Signaled(KILL))
  /\ UNCHANGED <<caught, status, loop, said>>

(***************************************************************************)
(* The system.                                                             *)
(***************************************************************************)

TracerStep ==
  \/ Refuse \/ Accept \/ Fork \/ ForkFails \/ Install
  \/ Await \/ SeizeChild \/ InterruptChild \/ Settle
  \/ ResumeChild \/ WaitStop \/ ReportSignal \/ ReadRegisters \/ ReportStop
  \/ Finish \/ Announce \/ LeaveMain \/ Fail \/ FailWait \/ ReturnError
  \/ HandlerKill \/ HandlerWait \/ HandlerSay

TraceeStep == TraceeNext /\ UNCHANGED tracer

UserStep == TracerCrash \/ \E s \in UserSends : UserSignal(s)

\* The tracer has ended; the child, if it is left alive, goes on without it.
Over == pc = "done" /\ UNCHANGED vars

Next == TracerStep \/ TraceeStep \/ UserStep \/ Over

Spec == Init /\ [][Next]_vars

(* The scheduler runs the tracer and a child that has somewhere to go: to its
   raise(SIGSTOP), to a stop it owes, to its death.  Nothing obliges the program
   to make or to complete a system call, nor anybody to send a signal. *)
Fairness ==
  /\ WF_vars(TracerStep)
  /\ WF_vars(ChildRaise /\ UNCHANGED tracer)
  /\ WF_vars(TrapStop /\ UNCHANGED tracer)
  /\ WF_vars(Die /\ UNCHANGED tracer)

FairSpec == Spec /\ Fairness

(***************************************************************************)
(* Properties.                                                             *)
(***************************************************************************)

\* The toggle of trace agrees with the kernel: a stop it is about to report as
\* the result of a call is an exit stop, and one it is about to report as a new
\* call is an entry stop, whatever exec stops, group stops and signals came in
\* between.
ToggleInStep ==
  (~early /\ pc \in {"regs", "report"} /\ life = "stopped")
    => in_syscall = (stop = "exit")

\* trace injects the signal of the stop it resumes from: the child resumes from
\* every signal-delivery-stop with that very signal and from any other stop with
\* none.
InjectsWhatItTook ==
  (~early /\ pc = "resume" /\ life = "stopped") => deliver = stopsig

\* Every signal the program has received, or is about to, is one the trace shows,
\* in the order of the trace, and every signal shown is one of them.
Taken == IF deliver # NoSig /\ pc # "wait" THEN Append(acted, deliver) ELSE acted
SignalLines == {k \in DOMAIN log : log[k].ev = "signal"}
SignalsConserved ==
  pc \in TracePcs =>
    \E place \in [DOMAIN Taken -> SignalLines] :
      /\ \A i, j \in DOMAIN Taken : i < j => place[i] < place[j]
      /\ \A k \in SignalLines : \E i \in DOMAIN Taken : place[i] = k
      /\ \A i \in DOMAIN Taken : log[place[i]].sig = Taken[i]

\* The line of a call that is over shows every argument of the row of its entry
\* once, in order, and closes its parenthesis once, even when the program has
\* changed ABI, and so the table, before it returned, or has died.
LastCall == CHOOSE i \in DOMAIN log : /\ log[i].ev = "enter"
                                     /\ \A j \in DOMAIN log :
                                          log[j].ev = "enter" => j <= i
CallLineComplete ==
  /\ \/ pc \in {"resume", "wait"} /\ ~in_syscall
     \/ pc \in {"announce", "leave"}
  /\ \E i \in DOMAIN log : log[i].ev = "enter"
  => LET row == lookup_syscall(log[LastCall])
     IN  /\ line.parens = 1
         /\ IF row = NULL THEN line.args = <<>>
            ELSE [i \in DOMAIN line.args |-> line.args[i].arg]
                   = [i \in DOMAIN row |-> i]

\* Memory is shown as it was when it meant something: inputs while the kernel has
\* not completed the call, output buffers once it has, and both from the address
\* space the call was made in, never from the one an execve has put in its place.
DecodedInTime ==
  /\ ~early
  /\ \/ in_syscall /\ pc \in TracePcs
     \/ pc = "resume" /\ stop = "exit"
  => \A i \in DOMAIN line.args : (line.args[i].mem # NoMem) =>
         /\ line.args[i].mem = prog.from
         /\ (line.args[i].at = "exit") =
              (call.syscall[line.args[i].arg] = "OUTPUT_BYTES")

\* A reader who follows the lines that announce an ABI knows the table every
\* call was decoded with.
ModeAt(k) ==
  LET before == {i \in DOMAIN modes : modes[i].after < k}
  IN  IF before = {} THEN 64
      ELSE modes[CHOOSE i \in before : \A j \in before : j <= i].abi
ModeAnnounced ==
  \A k \in DOMAIN log : log[k].ev = "enter" => ModeAt(k) = log[k].abi

\* The error path of main is taken only when a signal has killed the child under
\* the tracer's feet, never because trace asked something of a child in the wrong
\* state.
FailOnlyIfKilled ==
  (~early /\ pc \in {"fail", "failwait"})
    => (doomed # NoSig \/ fate.kind = "signaled")

\* No SIGKILL goes to a number the kernel may have given to another process, but in
\* three cases, pid_temp and child not being cleared when the child is reaped: the
\* child was taken dead before its first PTRACE_SYSCALL, main has taken its end, or
\* the handler that this one interrupts has.
KillsItsChild ==
  life = "reaped" /\ (At("fail") \/ InHandler("kill")) =>
    \/ ~armed
    \/ pc \in {"finish", "announce", "leave", "return"}
    \/ \E i \in 1..(Len(frames) - 1) : frames[i].at = "say"

\* A tracer that returns from main or _exits from a handler leaves no child
\* behind, however far the setup had got.
NoChildLeftBehind == (pc = "done" /\ outcome.kind = "exited") => ~Alive

\* Once seized the child does not outlive the tracer, even one that is SIGKILLed
\* between any two of its steps: it is dead or a SIGKILL is ending it.
EndsTracer == Running /\ ~Running'
SeizedDiesWithTracer ==
  [][(EndsTracer /\ traced) => (~Alive' \/ doomed' # NoSig)]_vars

\* The program executes nothing before the tracer watches it, unless somebody
\* continued the child that had stopped itself.
NothingEscapes == blind => early

\* A stopped child does not stay stopped: the tracer resumes it, or it is killed.
StopsAreAnswered == (life = "stopped") ~> (life # "stopped")

\* The tracer notices every death of its child and ends.
DeathEndsTracer == (life = "zombie") ~> (pc = "done")

\* A SIGINT, SIGTERM or SIGHUP that is caught ends the tracer and the child,
\* whatever the two were waiting for; only a signal that ends the tracer before its
\* handler is through, and before the child is seized, can leave the child alive.
InterruptEnds ==
  (frames # <<>>) ~> (pc = "done" /\ (Alive => outcome.kind = "signaled"))

\* The child gets traced, or the tracer gives up: setup does not hang.
SetupEnds == (pc = "await") ~> (pc \in TracePcs \cup {"done"})

\* The trace is a synchronous record of the child: what trace prints implements
\* the Recorder, for a child nobody continues before it is seized.
R == INSTANCE Recorder WITH Move <- Event, moves <- hist, lines <- log,
                            over <- (Dead \/ doomed # NoSig)
RecordsTheChild == R!Spec

\* What README.md:23 promises and test_signal_status tests: the tracer hands on how
\* its child ended.  main returns 1 instead when a SIGKILL finds the child in a
\* ptrace-stop that the tracer has already collected.
HandsOnTheEnd ==
  (pc = "done" /\ outcome.kind = "exited" /\ traced) => outcome = fate

\* What feature_inventory.md:48 says of the line "+++ killed by SIG... +++": it
\* reports the signal the child died of.  handler_term prints it for a child that
\* had ended by itself.
KilledLineIsTrue ==
  \A i \in DOMAIN said :
    said[i].line = "killed" => fate = Signaled(said[i].sig)
==============================================================================
