-------------------------------- MODULE Tracee --------------------------------
(***************************************************************************)
(* The traced child as the Linux kernel shows it to ft_strace: its life,   *)
(* its ptrace-stops, the signals sent to it, and the wait status it leaves *)
(* for its parent.  None of this is code of the repository: it is what     *)
(* ft_strace.c relies on when it calls fork, kill, waitpid and ptrace, so  *)
(* every definition here is external except the child's own raise(SIGSTOP).*)
(*                                                                         *)
(* The actions of the child and of its environment are complete steps that *)
(* leave the tracer's variables to the module that EXTENDS this one; the   *)
(* requests the tracer makes (Seize, Interrupt, Resume, Collect, SigKill)  *)
(* are written as effects that the tracer's own actions include.           *)
(***************************************************************************)
EXTENDS Integers, Sequences, FiniteSets

CONSTANTS
  Nr,           \* the system call numbers the program uses
  Kind,         \* Kind[abi][nr]: what the kernel does: "plain", "exec", "exit"
  Signals,      \* the signals, SIGKILL apart, that may be sent to the child
  Fatal,        \* those that end the child once delivered
  Stopping,     \* those that stop it (SIGTSTP, SIGSTOP)
  Continuing,   \* those that continue it (SIGCONT)
  ExitCodes,    \* the codes it may exit with
  EarlyCont,    \* whether somebody may SIGCONT the child before it is seized
  KillsChild,   \* whether somebody may SIGKILL the child
  MaxEvents     \* bound: stops the child makes in one behaviour

Abis == {32, 64}
SYSTRAP == "TRAP|0x80"
NoSig == "none"
KILL == "KILL"
AnySig == Signals \cup {SYSTRAP, NoSig, KILL}

NoNr == -1

ASSUME KindAssumption ==
  /\ Nr \subseteq Nat
  /\ Kind \in [Abis -> [Nr -> {"plain", "exec", "exit"}]]
ASSUME SignalAssumption ==
  /\ Fatal \subseteq Signals
  /\ Stopping \subseteq Signals
  /\ Continuing \subseteq Signals
  /\ Fatal \cap (Stopping \cup Continuing) = {}
  /\ Stopping \cap Continuing = {}
  /\ {SYSTRAP, NoSig, KILL} \cap Signals = {}
  /\ "TRAP" \in Signals
ASSUME BoundAssumption ==
  /\ MaxEvents \in Nat
  /\ ExitCodes \subseteq 0..255
  /\ EarlyCont \in BOOLEAN
  /\ KillsChild \in BOOLEAN

VARIABLES
  life,     \* "none", "newborn", "held", "running", "stopped", "zombie", "reaped"
  where,    \* "user", or "call" between the entry and the exit of a call
  stop,     \* the kind of ptrace-stop it is in, "none" outside one
  stopsig,  \* the signal of a signal-delivery-stop
  trap,     \* a PTRACE_EVENT_STOP is owed (interrupt, group stop or SIGCONT)
  pend,     \* the signals pending
  doomed,   \* SIGKILL, or a fatal signal, is ending it: that signal or "none"
  news,     \* a wait status is available that the parent has not collected
  fate,     \* the status of a dead child
  traced,   \* seized by the tracer
  opts,     \* the ptrace options in force
  armed,    \* resumed by PTRACE_SYSCALL: it stops at system calls
  prog,     \* program: ABI, address space, number and address space of its call
  hist,     \* history: the stops the tracer has to report, in order
  acted,    \* history: the signals the program has received, in order
  early,    \* history: the child was continued before it was seized
  blind     \* history: it ran a program image while nobody traced it

(* Groups of variables that change together. *)
stopping == <<life, stop, stopsig, news>>
seizure == <<traced, opts, armed>>
past == <<hist, acted, early, blind>>
kernel == <<stopping, where, trap, pend, doomed, fate, seizure, prog, past>>

(* Wait statuses: what the W* macros tell of the int that waitpid fills in. *)
Stopped(s, e) == [kind |-> "stopped", sig |-> s, event |-> e, code |-> 0]
Exited(c)     == [kind |-> "exited", sig |-> NoSig, event |-> FALSE, code |-> c]
Signaled(s)   == [kind |-> "signaled", sig |-> s, event |-> FALSE, code |-> 0]
NoStatus      == [kind |-> "none", sig |-> NoSig, event |-> FALSE, code |-> 0]
Status == [kind : {"none", "stopped", "exited", "signaled"},
           sig : AnySig, event : BOOLEAN,
           code : 0..255]

(* The events of the child that a trace has to show. *)
Enter(n, a) == [ev |-> "enter", nr |-> n, abi |-> a]
Leave(r)    == [ev |-> "leave", ret |-> r]
Signal(s)   == [ev |-> "signal", sig |-> s]
Results == {"ok", "err"}
Event == [ev : {"enter"}, nr : Nr \cup {NoNr}, abi : Abis]
           \cup [ev : {"leave"}, ret : Results]
           \cup [ev : {"signal"}, sig : AnySig]

\* The program: the ABI it runs in and its address space; the call it makes or
\* made last, the address space it made it from, and its result register.
Program == [abi : Abis, image : Nat, nr : Nr \cup {NoNr}, from : Nat,
            ret : Results]

Alive == life \notin {"none", "zombie", "reaped"}
Dead == life \in {"zombie", "reaped"}

TraceeTypeOK ==
  /\ life \in {"none", "newborn", "held", "running", "stopped", "zombie", "reaped"}
  /\ where \in {"user", "call"}
  /\ stop \in {"none", "entry", "exit", "exec", "event", "signal"}
  /\ stopsig \in Signals \cup {NoSig}
  /\ trap \in BOOLEAN
  /\ pend \in SUBSET Signals
  /\ doomed \in Signals \cup {NoSig, KILL}
  /\ news \in BOOLEAN
  /\ fate \in Status
  /\ traced \in BOOLEAN
  /\ opts \in SUBSET {"TRACESYSGOOD", "EXITKILL", "TRACEEXEC"}
  /\ armed \in BOOLEAN
  /\ prog \in Program
  /\ hist \in Seq(Event)
  /\ acted \in Seq(AnySig)
  /\ early \in BOOLEAN
  /\ blind \in BOOLEAN

TraceeInit ==
  /\ life = "none" /\ where = "user" /\ stop = "none" /\ stopsig = NoSig
  /\ trap = FALSE /\ pend = {} /\ doomed = NoSig /\ news = FALSE
  /\ fate = NoStatus /\ traced = FALSE /\ opts = {} /\ armed = FALSE
  /\ prog = [abi |-> 64, image |-> 0, nr |-> NoNr, from |-> 0, ret |-> "ok"]
  /\ hist = <<>> /\ acted = <<>> /\ early = FALSE /\ blind = FALSE

(***************************************************************************)
(* Effects shared by the steps below.                                      *)
(***************************************************************************)

\* The child takes a ptrace-stop of kind k; its parent can now wait for it.
StopAt(k, s) ==
  /\ life' = "stopped" /\ stop' = k /\ stopsig' = s /\ news' = TRUE

\* The child becomes a zombie with status f.
EndWith(f) ==
  /\ life' = "zombie" /\ fate' = f /\ news' = TRUE
  /\ stop' = "none" /\ stopsig' = NoSig /\ doomed' = NoSig

\* SIGKILL reaches the child: no stop holds it, and an uncollected stop is void.
SigKill ==
  IF Alive
  THEN /\ life' = "running" /\ doomed' = KILL
       /\ stop' = "none" /\ stopsig' = NoSig /\ news' = FALSE
  ELSE UNCHANGED <<stopping, doomed>>

\* Running code of its own, with nothing about to end it.
Runs == life = "running" /\ doomed = NoSig

(***************************************************************************)
(* The child before it is traced.                                          *)
(***************************************************************************)

\* Mutant: the child does not stop itself.
ChildRaiseMissing ==
  /\ life = "newborn" /\ doomed = NoSig
  /\ life' = "running"
  /\ UNCHANGED <<where, stop, stopsig, trap, pend, doomed, news, fate, seizure,
                 prog, past>>

\* raise(SIGSTOP), the first thing the child does.
ChildRaise ==
  /\ life = "newborn" /\ doomed = NoSig
  /\ life' = "held" /\ news' = TRUE
  /\ UNCHANGED <<where, stop, stopsig, trap, pend, doomed, fate, seizure, prog,
                 past>>

\* Continued too early, it executes the program while nobody watches its calls;
\* if it is seized already the exec is an event stop inside that call.
UnwatchedExec(a) ==
  /\ Runs /\ ~armed /\ ~blind
  /\ blind' = TRUE
  /\ \E n \in Nr :
       /\ Kind[prog.abi][n] = "exec"
       /\ prog' = [prog EXCEPT !.abi = a, !.image = prog.image + 1, !.nr = n]
  /\ IF traced /\ "TRACEEXEC" \in opts
     THEN StopAt("exec", NoSig) /\ where' = "call"
     ELSE UNCHANGED <<stopping, where>>
  /\ UNCHANGED <<trap, pend, doomed, fate, seizure, hist, acted, early>>

UnwatchedExit(c) ==
  /\ Runs /\ ~armed
  /\ EndWith(Exited(c))
  /\ UNCHANGED <<where, trap, pend, seizure, prog, past>>

\* A fatal signal acts at once on a child that is not traced and not stopped.
UntracedSignal(s) ==
  /\ life \in {"newborn", "running"} /\ doomed = NoSig /\ ~traced /\ s \in pend
  /\ s \in Fatal
  /\ pend' = pend \ {s}
  /\ doomed' = s
  /\ UNCHANGED <<stopping, where, trap, fate, seizure, prog, past>>

(***************************************************************************)
(* The child while it is traced: every way into a ptrace-stop.             *)
(***************************************************************************)

EnterCall(n) ==
  /\ Runs /\ armed /\ where = "user"
  /\ Len(hist) < MaxEvents \/ Kind[prog.abi][n] = "exit"
  /\ where' = "call"
  /\ prog' = [prog EXCEPT !.nr = n, !.from = prog.image, !.ret = "err"]
  /\ hist' = Append(hist, Enter(n, prog.abi))
  /\ StopAt("entry", NoSig)
  /\ UNCHANGED <<trap, pend, doomed, fate, seizure, acted, early, blind>>

\* What the call does: execve has replaced the address space, or it has not.
Execed == prog.image # prog.from
Does(k) == ~Execed /\ Kind[prog.abi][prog.nr] = k

\* The call returns; nothing obliges it to (it may block for ever).
LeaveCall(r) ==
  /\ Runs /\ armed /\ where = "call"
  /\ \/ Execed /\ r = "ok"
     \/ Does("plain")
     \/ Does("exec") /\ r = "err"
  /\ where' = "user"
  /\ prog' = [prog EXCEPT !.ret = r]
  /\ hist' = Append(hist, Leave(r))
  /\ StopAt("exit", NoSig)
  /\ UNCHANGED <<trap, pend, doomed, fate, seizure, acted, early, blind>>

\* A successful execve replaces the address space, perhaps by one of the other
\* ABI; with PTRACE_O_TRACEEXEC it stops the child between entry and exit.
ExecImage(a) ==
  /\ Runs /\ armed /\ where = "call" /\ Does("exec")
  /\ prog' = [prog EXCEPT !.abi = a, !.image = prog.image + 1]
  /\ IF "TRACEEXEC" \in opts
     THEN StopAt("exec", NoSig)
     ELSE UNCHANGED stopping
  /\ UNCHANGED <<where, trap, pend, doomed, fate, seizure, past>>

\* exit_group never comes back to an exit stop.
ExitCall(c) ==
  /\ Runs /\ armed /\ where = "call" /\ Does("exit")
  /\ EndWith(Exited(c))
  /\ UNCHANGED <<where, trap, pend, seizure, prog, past>>

\* PTRACE_EVENT_STOP, taken on the way to user mode and before any signal.
TrapStop ==
  /\ Runs /\ traced /\ where = "user" /\ trap
  /\ trap' = FALSE
  /\ StopAt("event", NoSig)
  /\ UNCHANGED <<where, pend, doomed, fate, seizure, prog, past>>

\* Signal-delivery-stop: the signal is dequeued and the tracer decides on it.
SignalStop(s) ==
  /\ Runs /\ traced /\ where = "user" /\ ~trap /\ s \in pend
  /\ pend' = pend \ {s}
  /\ hist' = Append(hist, Signal(s))
  /\ StopAt("signal", s)
  /\ UNCHANGED <<where, trap, doomed, fate, seizure, prog, acted, early, blind>>

\* The end of a child that a signal is ending; it takes no stop on the way.
Die ==
  /\ Alive /\ doomed # NoSig
  /\ EndWith(Signaled(doomed))
  /\ UNCHANGED <<where, trap, pend, seizure, prog, past>>

(***************************************************************************)
(* The environment: whoever sends signals to the child.                    *)
(***************************************************************************)

Flushed(s) == IF s \in Continuing THEN Stopping
              ELSE IF s \in Stopping THEN Continuing ELSE {}

\* SIGCONT flushes pending stop signals and stop signals a pending SIGCONT; a
\* seized child owes an event stop after SIGCONT, a held one just runs on.  A
\* child that is not traced never sees a signal it ignores: before the seizure
\* only a fatal signal and SIGCONT matter.
SendSignal(s) ==
  /\ Alive /\ s \notin pend
  /\ Len(hist) + Cardinality(pend) < MaxEvents
  /\ traced \/ s \in Fatal \/ (s \in Continuing /\ EarlyCont)
  /\ pend' = IF ~traced /\ s \notin Fatal THEN pend
             ELSE {s} \cup (pend \ Flushed(s))
  /\ trap' = (trap \/ (s \in Continuing /\ traced))
  /\ IF s \in Continuing /\ life = "held"
     THEN life' = "running" /\ news' = FALSE /\ early' = TRUE
     ELSE UNCHANGED <<life, news, early>>
  /\ UNCHANGED <<where, stop, stopsig, doomed, fate, seizure, prog, hist, acted,
                 blind>>

KillChild == SigKill /\ UNCHANGED <<where, trap, pend, fate, seizure, prog, past>>

SendKill ==
  /\ KillsChild /\ Alive /\ doomed # KILL
  /\ KillChild

TraceeNext ==
  \/ ChildRaise
  \/ \E s \in Signals : UntracedSignal(s) \/ SignalStop(s) \/ SendSignal(s)
  \/ \E n \in Nr : EnterCall(n)
  \/ \E r \in Results : LeaveCall(r)
  \/ \E a \in Abis : ExecImage(a) \/ UnwatchedExec(a)
  \/ \E c \in ExitCodes : ExitCall(c) \/ UnwatchedExit(c)
  \/ TrapStop \/ Die \/ SendKill

(***************************************************************************)
(* What the tracer's system calls do to the child.                         *)
(***************************************************************************)

ForkChild ==
  /\ life' = "newborn"
  /\ UNCHANGED <<where, stop, stopsig, trap, pend, doomed, news, fate, seizure,
                 prog, past>>

\* waitpid takes the status that is there; taking a death reaps the child.
Reportable ==
  IF Dead THEN fate
  ELSE IF stop = "signal" THEN Stopped(stopsig, FALSE)
  ELSE IF stop \in {"exec", "event"} THEN Stopped("TRAP", TRUE)
  ELSE IF stop \in {"entry", "exit"} /\ "TRACESYSGOOD" \in opts
       THEN Stopped(SYSTRAP, FALSE)
  ELSE Stopped("TRAP", FALSE)

Collect ==
  /\ news' = FALSE
  /\ life' = IF life = "zombie" THEN "reaped" ELSE life
  /\ UNCHANGED <<where, stop, stopsig, trap, pend, doomed, fate, seizure, prog,
                 past>>

\* PTRACE_SEIZE turns the group stop of a held child into an event stop.
Seize(options) ==
  /\ traced' = TRUE /\ opts' = options
  /\ IF life = "held"
     THEN StopAt("event", NoSig)
     ELSE UNCHANGED stopping
  /\ UNCHANGED <<where, trap, pend, doomed, fate, armed, prog, past>>

Interrupt ==
  /\ trap' = TRUE
  /\ UNCHANGED <<stopping, where, pend, doomed, fate, seizure, prog, past>>

\* PTRACE_SYSCALL with signal sig; outside a signal-delivery-stop the signal
\* has no effect that is modelled.
Resume(sig) ==
  LET hit == stop = "signal" /\ sig # NoSig
  IN  /\ life' = "running" /\ stop' = "none" /\ stopsig' = NoSig /\ news' = FALSE
      /\ acted' = IF hit THEN Append(acted, sig) ELSE acted
      /\ doomed' = IF hit /\ sig \in Fatal THEN sig ELSE doomed
      /\ armed' = TRUE
      /\ trap' = (trap \/ (hit /\ sig \in Stopping))
      /\ UNCHANGED <<where, pend, fate, traced, opts, prog, hist, early, blind>>

\* The tracer process is gone: PTRACE_O_EXITKILL kills a seized child, any
\* other child is let go.
TracerGone ==
  /\ IF traced /\ "EXITKILL" \in opts
     THEN SigKill
     ELSE /\ life' = IF life = "stopped" THEN "running" ELSE life
          /\ stop' = "none" /\ stopsig' = NoSig
          /\ UNCHANGED <<doomed, news>>
  /\ traced' = (traced /\ "EXITKILL" \in opts)
  /\ UNCHANGED <<where, trap, pend, fate, opts, armed, prog, past>>
==============================================================================
