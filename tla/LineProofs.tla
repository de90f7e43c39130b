------------------------------ MODULE LineProofs ------------------------------
(***************************************************************************)
(* Theorems about the lines that trace prints, for every program, table,   *)
(* set of signals and bound: each call's line is complete and read at the  *)
(* right moment, the ABI of each call is announced, and no signal is lost  *)
(* or invented.  Four invariants stand behind them: ModeInv (the lines     *)
(* that announce an ABI), CallInv (what call and line say of the last call *)
(* shown), SpaceInv (that this call is the one the child is in, and where  *)
(* its memory was read) and SignalInv (what the tracer is about to inject).*)
(***************************************************************************)
EXTENDS StraceProofs, DataLemmas

\* The last line that announces an ABI is in force, and none is late.
ModeInv ==
  /\ \A i \in DOMAIN modes : modes[i].after <= Len(log)
  /\ compat = IF modes = <<>> THEN 64 ELSE modes[Len(modes)].abi
  /\ ModeAnnounced

\* What is known of the line while the call is open, and once it is closed: it
\* shows the row's arguments up to its first output buffer, or all of them.
Closed == ~in_syscall \/ pc \in {"announce", "leave"}
IsLast(i) ==
  /\ i \in DOMAIN log /\ log[i].ev = "enter"
  /\ \A j \in DOMAIN log : log[j].ev = "enter" => j <= i
Size(row) == IF row = NULL THEN 0 ELSE Len(row)
First(row) == IF row = NULL THEN 0 ELSE EntryArgs(row)
ShowsFirst(k) == Len(line.args) = k /\ \A j \in 1..k : line.args[j].arg = j
LastCallShown(i) ==
  /\ IsLast(i)
  /\ call.nr = log[i].nr /\ call.abi = log[i].abi
  /\ call.syscall = lookup_syscall(call)
  /\ call.next_arg = First(call.syscall)
  /\ Closed => ShowsFirst(Size(call.syscall)) /\ line.parens = 1
  /\ ~Closed => /\ ShowsFirst(First(call.syscall))
                /\ line.parens = IF First(call.syscall) = Size(call.syscall)
                                 THEN 1 ELSE 0
NoCallShown == ~in_syscall /\ \A j \in DOMAIN log : log[j].ev # "enter"
CallInv == pc # "done" => NoCallShown \/ \E i \in DOMAIN log : LastCallShown(i)

-----------------------------------------------------------------------------
(* How many arguments come before the first output buffer. *)

\* EntryArgs counts the arguments before the first output buffer.
LEMMA EntryArgsFirst ==
  ASSUME NEW row \in Seq(ArgTypes)
  PROVE  /\ EntryArgs(row) \in 0..Len(row)
         /\ \A i \in 1..EntryArgs(row) : row[i] # "OUTPUT_BYTES"
         /\ \A i \in DOMAIN row : i > EntryArgs(row)
              => \E j \in 1..i : row[j] = "OUTPUT_BYTES"
<1> DEFINE S == {i \in DOMAIN row : \A j \in 1..i : row[j] # "OUTPUT_BYTES"}
           T == {i \in DOMAIN row : row[i] = "OUTPUT_BYTES"}
<1>1. EntryArgs(row) = Cardinality(S)
  BY DEF EntryArgs
<1>2. \A k \in Nat : Cardinality(1..k) = k
  BY FS_Interval
<1>3. CASE T = {}
  <2>1. S = 1..Len(row)
    BY <1>3
  <2> HIDE DEF S
  <2>2. EntryArgs(row) = Len(row)
    BY <1>1, <1>2, <2>1
  <2>3. \A i \in 1..Len(row) : row[i] # "OUTPUT_BYTES"
    BY <1>3
  <2>4. Len(row) \in 0..Len(row) /\ DOMAIN row = 1..Len(row)
    OBVIOUS
  <2> HIDE DEF T
  <2>5. QED
    BY <2>2, <2>3, <2>4
<1>4. CASE T # {}
  <2>0. T \in SUBSET Nat
    OBVIOUS
  <2>1. PICK m \in T : \A k \in T : m <= k
    <3> HIDE DEF T
    <3>1. QED
      BY <1>4, <2>0, Smallest
  <2>2. S = 1..(m - 1) /\ m - 1 \in Nat
    BY <2>1
  <2> HIDE DEF S
  <2>3. EntryArgs(row) = m - 1
    BY <1>1, <1>2, <2>2
  <2>4. QED
    BY <2>1, <2>3
<1>5. QED
  BY <1>3, <1>4

-----------------------------------------------------------------------------
(* The steps that leave the trace's lines alone. *)

\* Only three steps print about a call or a signal.
LEMMA LineStays ==
  ASSUME [Next]_vars
  PROVE  \/ /\ UNCHANGED <<in_syscall, compat, printed>>
            /\ pc' # "done" => /\ pc # "done"
                               /\ pc' \in {"announce", "leave"}
                                    <=> pc \in {"announce", "leave"}
         \/ ReportSignal \/ ReportStop \/ Finish
<1>1. CASE TraceeStep \/ UNCHANGED vars
  BY <1>1 DEF TraceeStep, vars, tracer, loop
<1>2. CASE UserStep
  BY <1>2 DEF UserStep, TracerCrash, UserSignal, End, loop, Running
<1>3. CASE Refuse \/ Accept \/ Fork \/ ForkFails \/ Install \/ Await \/ SeizeChild
           \/ InterruptChild \/ Settle
  BY <1>3 DEF Refuse, Accept, Fork, ForkFails, Install, Await, SeizeChild,
       InterruptChild, Settle, loop, At, Goto, End
<1>4. CASE WaitStop
  BY <1>4, ClassifyTypes DEF WaitStop, At, Goto
<1>5. CASE ResumeChild \/ ReadRegisters \/ Announce \/ LeaveMain
           \/ Fail \/ FailWait \/ ReturnError
  BY <1>5 DEF ResumeChild, ReadRegisters, Announce, LeaveMain, Fail, FailWait,
       ReturnError, loop, At, Goto, End
<1>6. CASE HandlerKill \/ HandlerWait \/ HandlerSay
  BY <1>6 DEF HandlerKill, HandlerWait, HandlerSay, loop, End
<1>7. QED
  BY <1>1, <1>2, <1>3, <1>4, <1>5, <1>6 DEF Next, TracerStep, Over

-----------------------------------------------------------------------------
(* The lines that announce an ABI. *)

\* What is announced after the k-th line changes nothing for that line.
LEMMA ModeAtStays ==
  ASSUME modes \in Seq(Mode), NEW k \in Nat,
         modes' = modes \/ \E m \in Mode : m.after >= k /\ modes' = Append(modes, m)
  PROVE  ModeAt(k)' = ModeAt(k)
<1> DEFINE B == {i \in DOMAIN modes : modes[i].after < k}
           C == {i \in DOMAIN modes' : modes'[i].after < k}
           top(S) == CHOOSE i \in S : \A j \in S : j <= i
<1>1. C = B
  <2>1. CASE modes' = modes
    BY <2>1
  <2>2. ASSUME NEW m \in Mode, m.after >= k, modes' = Append(modes, m) PROVE C = B
    <3>1. /\ DOMAIN modes' = 1..(Len(modes) + 1) /\ DOMAIN modes = 1..Len(modes)
          /\ \A i \in 1..Len(modes) : modes'[i] = modes[i]
          /\ modes'[Len(modes) + 1] = m
      BY <2>2
    <3>2. m.after \in Nat /\ ~(m.after < k)
      BY <2>2 DEF Mode
    <3>3. QED
      BY <3>1, <3>2
  <2>3. QED
    BY <2>1, <2>2
<1>2. B # {} => top(B) \in B
  <2>1. Len(modes) \in Nat /\ B \in SUBSET (1..Len(modes))
    OBVIOUS
  <2> HIDE DEF B
  <2>2. QED
    BY <2>1, Largest
<1>3. \A i \in B : modes'[i] = modes[i]
  BY <1>1
<1>4. ModeAt(k) = IF B = {} THEN 64 ELSE modes[top(B)].abi
  BY DEF ModeAt
<1>5. ModeAt(k)' = IF C = {} THEN 64 ELSE modes'[top(C)].abi
  BY DEF ModeAt
<1> HIDE DEF B, C, top
<1>6. QED
  BY <1>1, <1>2, <1>3, <1>4, <1>5

\* A call shown now is decoded with the last ABI announced.
LEMMA ModeAtEnd ==
  ASSUME modes' \in Seq(Mode), NEW k \in Nat,
         \A i \in DOMAIN modes' : modes'[i].after < k
  PROVE  ModeAt(k)' = IF modes' = <<>> THEN 64 ELSE modes'[Len(modes')].abi
<1> DEFINE C == {i \in DOMAIN modes' : modes'[i].after < k}
           top(S) == CHOOSE i \in S : \A j \in S : j <= i
           n == Len(modes')
<1>1. C = 1..n /\ n \in Nat /\ (modes' = <<>> <=> n = 0)
  OBVIOUS
<1>2. ModeAt(k)' = IF C = {} THEN 64 ELSE modes'[top(C)].abi
  BY DEF ModeAt
<1>3. n # 0 => top(1..n) = n
  BY <1>1
<1> HIDE DEF C, top, n
<1>4. (1..n = {}) <=> n = 0
  BY <1>1
<1>5. QED
  BY <1>1, <1>2, <1>3, <1>4 DEF n

\* A line that announces an ABI is announced after a number of lines.
LEMMA AfterIsNat ==
  ASSUME NEW ms \in Seq(Mode)
  PROVE  \A i \in DOMAIN ms : ms[i].after \in Nat
<1>1. \A i \in DOMAIN ms : ms[i] \in Mode
  OBVIOUS
<1>2. \A m \in Mode : m.after \in Nat
  BY DEF Mode
<1>3. QED
  BY <1>1, <1>2

\* Whatever is printed about a call or a signal, ModeInv stays true.
LEMMA ModeNext ==
  ASSUME StraceTypeOK, StraceTypeOK', ModeInv, [Next]_vars
  PROVE  ModeInv'
<1>1. /\ log \in Seq(Event) /\ modes \in Seq(Mode)
      /\ log' \in Seq(Event) /\ modes' \in Seq(Mode)
  BY DEF StraceTypeOK, TracerTypeOK
<1>2. CASE UNCHANGED <<log, modes, compat>>
  <2>1. \A k \in DOMAIN log : ModeAt(k)' = ModeAt(k)
    BY <1>1, <1>2, ModeAtStays
  <2>2. QED
    BY <1>2, <2>1 DEF ModeInv, ModeAnnounced
<1>3. CASE ReportSignal
  <2>1. UNCHANGED <<modes, compat>>
    BY <1>3 DEF ReportSignal
  <2>2. CASE log' = log
    BY <1>2, <2>1, <2>2
  <2>3. CASE log' = Append(log, Signal(status.sig))
    <3>1. /\ Len(log') = Len(log) + 1
          /\ \A k \in 1..Len(log) : log'[k] = log[k]
          /\ log'[Len(log) + 1].ev = "signal"
      BY <1>1, <2>3 DEF Signal
    <3>2. ASSUME NEW k \in DOMAIN log', log'[k].ev = "enter"
          PROVE  ModeAt(k)' = log'[k].abi
      <4>1. k \in DOMAIN log /\ log[k] = log'[k]
        BY <1>1, <3>1, <3>2
      <4>2. ModeAt(k)' = ModeAt(k)
        BY <1>1, <2>1, <4>1, ModeAtStays
      <4>3. QED
        BY <3>2, <4>1, <4>2 DEF ModeInv, ModeAnnounced
    <3>3. \A i \in DOMAIN modes' : modes'[i].after <= Len(log')
      <4>1. \A i \in DOMAIN modes : modes[i].after \in Nat
        BY <1>1, AfterIsNat
      <4>2. QED
        BY <1>1, <2>1, <3>1, <4>1 DEF ModeInv
    <3>4. QED
      BY <2>1, <3>2, <3>3 DEF ModeInv, ModeAnnounced
  <2>4. QED
    BY <1>3, <2>2, <2>3 DEF ReportSignal
<1>4. CASE ReportStop
  <2> DEFINE new == IF in_syscall THEN Leave(regs.ret) ELSE Enter(regs.nr, regs.abi)
             n == IF in_syscall THEN Len(log) + 1 ELSE Len(log)
             m == [after |-> n, abi |-> regs.abi]
  <2>1. /\ log' = Append(log, new) /\ compat' = regs.abi
        /\ modes' = IF compat # regs.abi THEN Append(modes, m) ELSE modes
    BY <1>4 DEF ReportStop, AnnounceMode
  <2>2. m \in Mode /\ n \in Nat /\ m.after = n /\ m.abi = regs.abi
    BY <1>1 DEF Mode, StraceTypeOK, TracerTypeOK
  <2>3. /\ Len(log') = Len(log) + 1 /\ log'[Len(log) + 1] = new
        /\ \A k \in 1..Len(log) : log'[k] = log[k]
    BY <1>1, <2>1
  <2>4. /\ n <= Len(log) + 1 /\ Len(log) <= n
        /\ new.ev = "enter" => n = Len(log) /\ new.abi = regs.abi
    BY <1>1 DEF Enter, Leave
  <2> HIDE DEF new, m, n
  <2>5. /\ \A i \in DOMAIN modes' : modes'[i].after <= (IF n > Len(log) THEN n ELSE Len(log))
        /\ compat' = IF modes' = <<>> THEN 64 ELSE modes'[Len(modes')].abi
    <3>1. \A i \in DOMAIN modes : modes[i].after \in Nat /\ modes[i].after <= Len(log)
      BY <1>1, AfterIsNat DEF ModeInv
    <3>2. CASE compat = regs.abi
      BY <1>1, <2>1, <2>2, <2>4, <3>1, <3>2 DEF ModeInv
    <3>3. CASE compat # regs.abi
      BY <1>1, <2>1, <2>2, <2>4, <3>1, <3>3
    <3>4. QED
      BY <3>2, <3>3
  <2>6. ASSUME NEW k \in DOMAIN log', log'[k].ev = "enter"
        PROVE  ModeAt(k)' = log'[k].abi
    <3>1. CASE k <= Len(log)
      <4>1. k \in DOMAIN log /\ log[k] = log'[k] /\ m.after >= k
        BY <1>1, <2>2, <2>3, <2>4, <3>1
      <4>2. ModeAt(k)' = ModeAt(k)
        BY <1>1, <2>1, <2>2, <4>1, ModeAtStays
      <4>3. QED
        BY <2>6, <4>1, <4>2 DEF ModeInv, ModeAnnounced
    <3>2. CASE k = Len(log) + 1
      <4>1. n = Len(log) /\ log'[k].abi = regs.abi
        BY <2>3, <2>4, <2>6, <3>2
      <4>2. \A i \in DOMAIN modes' : modes'[i].after \in Nat
        BY <1>1, AfterIsNat
      <4>3. \A i \in DOMAIN modes' : modes'[i].after < k
        BY <1>1, <2>5, <3>2, <4>1, <4>2
      <4>4. ModeAt(k)' = IF modes' = <<>> THEN 64 ELSE modes'[Len(modes')].abi
        BY <1>1, <3>2, <4>3, ModeAtEnd
      <4>5. QED
        BY <2>1, <2>5, <4>1, <4>4
    <3>3. QED
      BY <1>1, <2>3, <3>1, <3>2
  <2>7. \A i \in DOMAIN modes' : modes'[i].after <= Len(log')
    <3>1. \A i \in DOMAIN modes' : modes'[i].after \in Nat
      BY <1>1, AfterIsNat
    <3>2. QED
      BY <1>1, <2>2, <2>3, <2>4, <2>5, <3>1
  <2>8. QED
    BY <2>5, <2>6, <2>7 DEF ModeInv, ModeAnnounced
<1>5. Finish => UNCHANGED <<log, modes, compat>>
  BY DEF Finish
<1>6. QED
  BY <1>2, <1>3, <1>4, <1>5, LineStays DEF printed

\* A reader who follows the lines that announce an ABI knows the table each call
\* was decoded with (trace, ft_strace.c:262-274).
THEOREM ModeCorrect == Spec => []ModeAnnounced
<1>1. Init => ModeInv
  BY DEF Init, ModeInv, ModeAnnounced
<1>2. StraceTypeOK /\ StraceTypeOK' /\ ModeInv /\ [Next]_vars => ModeInv'
  BY ModeNext
<1>3. ModeInv => ModeAnnounced
  BY DEF ModeInv
<1>4. QED
  BY <1>1, <1>2, <1>3, TypeCorrect, PTL DEF Spec

-----------------------------------------------------------------------------
(* A child that runs no code of its own. *)

\* A seized child that is stopped, dying or dead makes no move of its own, and it
\* does not enter another stop.
Parked == life \notin {"none", "newborn", "held"} /\ ~Runs
ParkedStep ==
  /\ Parked' /\ UNCHANGED <<where, prog, acted>>
  /\ life' = "stopped" => life = "stopped" /\ UNCHANGED <<stop, stopsig>>

\* The kernel's steps leave a parked child where it is.
LEMMA ParkedStays ==
  ASSUME KernelInv, Parked, TraceeNext
  PROVE  ParkedStep
<1> USE DEF Parked, Runs, KernelInv
<1>1. ~Runs /\ life # "newborn"
  OBVIOUS
<1>2. ASSUME NEW s \in Signals, SendSignal(s) PROVE ParkedStep
  BY <1>2 DEF SendSignal, ParkedStep
<1>3. CASE Die
  BY <1>3 DEF Die, EndWith, ParkedStep, past
<1>4. CASE SendKill
  BY <1>4 DEF SendKill, KillChild, SigKill, ParkedStep, past, KILL, NoSig
<1>5. QED
  <2> HIDE DEF Runs, Parked, KernelInv
  <2>1. ASSUME NEW s \in Signals PROVE ~UntracedSignal(s) /\ ~SignalStop(s)
    BY <1>1 DEF UntracedSignal, SignalStop, Parked, Runs
  <2>2. \A n \in Nr : ~EnterCall(n)
    BY <1>1 DEF EnterCall
  <2>3. \A r \in Results : ~LeaveCall(r)
    BY <1>1 DEF LeaveCall
  <2>4. \A a \in Abis : ~ExecImage(a) /\ ~UnwatchedExec(a)
    BY <1>1 DEF ExecImage, UnwatchedExec
  <2>5. \A c \in ExitCodes : ~ExitCall(c) /\ ~UnwatchedExit(c)
    BY <1>1 DEF ExitCall, UnwatchedExit
  <2>6. ~ChildRaise /\ ~TrapStop
    BY <1>1 DEF ChildRaise, TrapStop
  <2>7. QED
    BY <1>2, <1>3, <1>4, <2>1, <2>2, <2>3, <2>4, <2>5, <2>6 DEF TraceeNext

\* Neither a SIGKILL nor a wait makes it run.
LEMMA ParkedEffects ==
  ASSUME KernelInv, Parked, KillChild \/ Collect \/ UNCHANGED kernel
  PROVE  ParkedStep
<1>1. CASE KillChild
  BY <1>1 DEF KillChild, SigKill, ParkedStep, Parked, Runs, stopping, past, KILL, NoSig
<1>2. CASE Collect
  BY <1>2 DEF Collect, ParkedStep, Parked, Runs, past
<1>3. CASE UNCHANGED kernel
  BY <1>3 DEF kernel, stopping, past, ParkedStep, Parked, Runs
<1>4. QED
  BY <1>1, <1>2, <1>3

-----------------------------------------------------------------------------
(* The signals. *)

\* From the stop that shows a signal to the resume that injects it the child is
\* parked, and if it is still stopped it is in that very stop.
SignalInv ==
  /\ pc \in SetupPcs \cup {"siginfo", "regs", "report", "finish"} => deliver = NoSig
  /\ pc = "siginfo" =>
       Parked /\ (life = "stopped" => stop = "signal" /\ status.sig = stopsig)
  /\ pc = "resume" /\ deliver # NoSig =>
       Parked /\ (life = "stopped" => stop = "signal" /\ deliver = stopsig)

\* The signals s are those the lines l show, in their order.
Shows(l, s) ==
  \E place \in [DOMAIN s -> {k \in DOMAIN l : l[k].ev = "signal"}] :
    /\ \A i, j \in DOMAIN s : i < j => place[i] < place[j]
    /\ \A k \in {m \in DOMAIN l : l[m].ev = "signal"} : \E i \in DOMAIN s : place[i] = k
    /\ \A i \in DOMAIN s : l[place[i]].sig = s[i]

\* Another line that shows no signal leaves the signals shown as they are.
LEMMA ShowsNothing ==
  ASSUME NEW l \in Seq(Event), NEW s \in Seq(AnySig), Shows(l, s),
         NEW e, e.ev # "signal"
  PROVE  Shows(Append(l, e), s)
<1> DEFINE m == Append(l, e)
           L == {k \in DOMAIN l : l[k].ev = "signal"}
           M == {k \in DOMAIN m : m[k].ev = "signal"}
<1>1. /\ DOMAIN m = 1..(Len(l) + 1) /\ m[Len(l) + 1] = e /\ DOMAIN l = 1..Len(l)
      /\ \A k \in 1..Len(l) : m[k] = l[k]
  OBVIOUS
<1> HIDE DEF m
<1>2. L = M /\ \A k \in L : m[k] = l[k]
  BY <1>1
<1>3. PICK place \in [DOMAIN s -> L] :
        /\ \A i, j \in DOMAIN s : i < j => place[i] < place[j]
        /\ \A k \in L : \E i \in DOMAIN s : place[i] = k
        /\ \A i \in DOMAIN s : l[place[i]].sig = s[i]
  BY DEF Shows
<1> HIDE DEF L, M
<1>4. \A i \in DOMAIN s : m[place[i]].sig = s[i]
  BY <1>2, <1>3
<1>5. Shows(m, s)
  BY <1>2, <1>3, <1>4 DEF Shows, M
<1>6. QED
  BY <1>5 DEF m

\* Another line that shows a signal shows one signal more.
LEMMA ShowsAnother ==
  ASSUME NEW l \in Seq(Event), NEW s \in Seq(AnySig), Shows(l, s), NEW sig
  PROVE  Shows(Append(l, Signal(sig)), Append(s, sig))
<1> DEFINE m == Append(l, Signal(sig))
           t == Append(s, sig)
           n == Len(l) + 1
           L == {k \in DOMAIN l : l[k].ev = "signal"}
           M == {k \in DOMAIN m : m[k].ev = "signal"}
<1>1. /\ DOMAIN m = 1..n /\ m[n] = Signal(sig) /\ DOMAIN l = 1..(n - 1)
      /\ \A k \in 1..(n - 1) : m[k] = l[k]
      /\ n \in Nat \ {0}
  OBVIOUS
<1>2. /\ DOMAIN s = 1..Len(s) /\ DOMAIN t = 1..(Len(s) + 1) /\ Len(s) \in Nat
      /\ t[Len(s) + 1] = sig /\ \A i \in DOMAIN s : t[i] = s[i]
  OBVIOUS
<1> HIDE DEF m, t, n
<1>3. /\ L \subseteq 1..(n - 1) /\ M = L \cup {n} /\ \A k \in L : m[k] = l[k]
      /\ m[n].sig = sig
  <2>1. m[n].ev = "signal" /\ m[n].sig = sig
    BY <1>1 DEF Signal
  <2>2. L \subseteq 1..(n - 1) /\ \A k \in 1..(n - 1) : k \in L <=> m[k].ev = "signal"
    BY <1>1
  <2>3. \A k \in DOMAIN m : k \in 1..(n - 1) \/ k = n
    BY <1>1
  <2>4. 1..(n - 1) \subseteq DOMAIN m /\ n \in DOMAIN m
    BY <1>1
  <2>5. M = L \cup {n}
    <3> HIDE DEF L
    <3>1. QED
      BY <2>1, <2>2, <2>3, <2>4
  <2>6. QED
    BY <1>1, <2>1, <2>2, <2>5
<1>4. PICK place \in [DOMAIN s -> L] :
        /\ \A i, j \in DOMAIN s : i < j => place[i] < place[j]
        /\ \A k \in L : \E i \in DOMAIN s : place[i] = k
        /\ \A i \in DOMAIN s : l[place[i]].sig = s[i]
  BY DEF Shows
<1> HIDE DEF L, M
<1> DEFINE longer == [i \in DOMAIN t |-> IF i \in DOMAIN s THEN place[i] ELSE n]
<1>5. /\ \A i \in DOMAIN s : longer[i] = place[i] /\ place[i] \in L
      /\ longer[Len(s) + 1] = n
  BY <1>2
<1>6. longer \in [DOMAIN t -> M]
  BY <1>3
<1> HIDE DEF longer
<1>7. \A i, j \in DOMAIN t : i < j => longer[i] < longer[j]
  <2>1. ASSUME NEW i \in DOMAIN t, NEW j \in DOMAIN t, i < j PROVE longer[i] < longer[j]
    <3>1. i \in DOMAIN s /\ (j \in DOMAIN s \/ j = Len(s) + 1)
      BY <1>2, <2>1
    <3>2. longer[i] \in 1..(n - 1) /\ longer[i] = place[i]
      BY <1>3, <1>5, <3>1
    <3>3. CASE j \in DOMAIN s
      BY <1>4, <1>5, <2>1, <3>1, <3>2, <3>3
    <3>4. CASE j = Len(s) + 1
      BY <1>1, <1>5, <3>2, <3>4
    <3>5. QED
      BY <3>1, <3>3, <3>4
  <2>2. QED
    BY <2>1
<1>8. \A k \in M : \E i \in DOMAIN t : longer[i] = k
  <2>1. Len(s) + 1 \in DOMAIN t /\ DOMAIN s \subseteq DOMAIN t
    BY <1>2
  <2>2. QED
    BY <1>3, <1>4, <1>5, <2>1
<1>9. \A i \in DOMAIN t : m[longer[i]].sig = t[i]
  <2>1. \A i \in DOMAIN s : m[longer[i]].sig = t[i]
    BY <1>2, <1>3, <1>4, <1>5
  <2>2. m[longer[Len(s) + 1]].sig = t[Len(s) + 1]
    BY <1>2, <1>3, <1>5
  <2>3. QED
    BY <1>2, <2>1, <2>2
<1>10. Shows(m, t)
  BY <1>6, <1>7, <1>8, <1>9 DEF Shows, M
<1>11. QED
  BY <1>10 DEF m, t

\* The signal to inject is that of the stop at hand.
LEMMA SignalNext ==
  ASSUME StraceTypeOK, KernelInv, PhaseInv, SignalInv, [Next]_vars
  PROVE  SignalInv'
<1>2. ASSUME UNCHANGED <<pc, status, deliver>>, Parked => ParkedStep PROVE SignalInv'
  BY <1>2 DEF SignalInv, ParkedStep
<1>3. CASE TraceeStep \/ UNCHANGED vars
  <2>1. UNCHANGED <<pc, status, deliver>>
    BY <1>3 DEF TraceeStep, vars, tracer, loop
  <2>2. Parked => ParkedStep
    BY <1>3, ParkedStays, ParkedEffects DEF TraceeStep, vars
  <2>3. QED
    BY <1>2, <2>1, <2>2
<1>5. CASE UserStep
  <2>1. CASE pc' = "done"
    BY <1>5, <2>1 DEF UserStep, TracerCrash, UserSignal, SignalInv, SetupPcs
  <2>2. CASE UNCHANGED <<kernel, pc, status, loop>>
    <3>1. UNCHANGED <<pc, status, deliver>> /\ (Parked => ParkedStep)
      BY <2>2, ParkedEffects DEF loop
    <3>2. QED
      BY <1>2, <3>1
  <2>3. QED
    BY <1>5, <2>1, <2>2 DEF UserStep, TracerCrash, UserSignal, End
<1>6. CASE HandlerKill \/ HandlerWait
  <2>1. UNCHANGED <<pc, status, deliver>> /\ (Parked => ParkedStep)
    BY <1>6, ParkedEffects DEF HandlerKill, HandlerWait, loop
  <2>2. QED
    BY <1>2, <2>1
<1>7. CASE Refuse \/ ForkFails \/ LeaveMain \/ ReturnError \/ HandlerSay
  <2>1. pc' = "done"
    BY <1>7 DEF Refuse, ForkFails, LeaveMain, ReturnError, HandlerSay, End
  <2>2. QED
    BY <2>1 DEF SignalInv, SetupPcs
<1>8. CASE Accept \/ Fork \/ Install \/ Await \/ SeizeChild \/ InterruptChild \/ Settle
  <2>1. deliver' = deliver /\ pc \in SetupPcs
    BY <1>8 DEF Accept, Fork, Install, Await, SeizeChild, InterruptChild, Settle, At,
         loop, SetupPcs
  <2>2. pc' # "siginfo"
    BY <1>8 DEF Accept, Fork, Install, Await, SeizeChild, InterruptChild, Settle, Goto
  <2>3. QED
    BY <2>1, <2>2 DEF SignalInv
<1>9. CASE ResumeChild
  <2>1. pc' \in {"wait", "fail"}
    BY <1>9 DEF ResumeChild, Goto
  <2>2. QED
    BY <2>1 DEF SignalInv, SetupPcs
<1>10. CASE WaitStop
  <2>1. /\ deliver' = NoSig /\ pc' = Classify(status') /\ news /\ Collect
        /\ status' = Reportable
    BY <1>10 DEF WaitStop, Goto, WaitChild
  <2>2. CASE pc' # "siginfo"
    BY <2>1, <2>2 DEF SignalInv
  <2>3. CASE pc' = "siginfo"
    <3>1. Reportable.kind = "stopped" /\ ~Reportable.event /\ Reportable.sig # SYSTRAP
      BY <2>1, <2>3 DEF Classify
    <3>2. ~Dead
      BY <3>1 DEF KernelInv, Reportable
    <3>3. life = "stopped"
      BY <1>10, <2>1, <3>2 DEF KernelInv, PhaseInv, Dead, WaitStop, At
    <3>4. stop = "signal" /\ Reportable.sig = stopsig
      <4>1. stop \in {"entry", "exit", "exec", "event", "signal"} /\ "TRACESYSGOOD" \in opts
        BY <3>3 DEF KernelInv, StraceTypeOK, TraceeTypeOK, Options
      <4>2. QED
        BY <3>1, <3>2, <4>1 DEF Reportable, Stopped, SYSTRAP
    <3>5. /\ life' = "stopped" /\ UNCHANGED <<stop, stopsig>>
      BY <2>1, <3>3 DEF Collect
    <3>6. QED
      BY <2>1, <2>3, <3>4, <3>5 DEF SignalInv, Parked, Runs, SetupPcs
  <2>4. QED
    BY <2>2, <2>3
<1>11. CASE ReportSignal
  <2>1. CASE pc' = "fail"
    BY <2>1 DEF SignalInv, SetupPcs
  <2>2. CASE Answers /\ deliver' = status.sig /\ pc' = "resume" /\ UNCHANGED kernel
    <3>1. ParkedStep /\ stop = "signal" /\ status.sig = stopsig
      BY <1>11, <2>2, ParkedEffects DEF SignalInv, ReportSignal, At, Answers
    <3>2. QED
      BY <2>2, <3>1 DEF SignalInv, ParkedStep, SetupPcs
  <2>3. QED
    BY <1>11, <2>1, <2>2 DEF ReportSignal, Goto
<1>12. CASE ReadRegisters \/ ReportStop
  <2>1. deliver = NoSig /\ deliver' = deliver
    BY <1>12 DEF ReadRegisters, ReportStop, At, SignalInv
  <2>2. pc' \in {"report", "resume", "fail"}
    BY <1>12 DEF ReadRegisters, ReportStop, Goto
  <2>3. QED
    BY <2>1, <2>2 DEF SignalInv, SetupPcs
<1>13. CASE Finish \/ Announce \/ Fail \/ FailWait
  <2>1. pc' \in {"announce", "leave", "failwait", "return"}
    BY <1>13 DEF Finish, Announce, Fail, FailWait, Goto
  <2>2. QED
    BY <2>1 DEF SignalInv, SetupPcs
<1>14. QED
  BY <1>3, <1>5, <1>6, <1>7, <1>8, <1>9, <1>10, <1>11, <1>12, <1>13
     DEF Next, TracerStep, Over

\* The signals received, and the one about to be injected, are those shown.
ConservedInv ==
  /\ pc \in SetupPcs => acted = <<>> /\ log = <<>>
  /\ pc \in TracePcs => Shows(log, Taken)

\* Only a resume that injects adds to the signals received.
LEMMA ActedStays ==
  ASSUME [Next]_vars
  PROVE  acted' = acted \/ ResumeChild
<1>1. CASE TraceeStep
  <2>1. ASSUME NEW s \in Signals, UntracedSignal(s) \/ SignalStop(s) \/ SendSignal(s)
        PROVE  acted' = acted
    BY <2>1 DEF UntracedSignal, SignalStop, SendSignal, past
  <2>2. ASSUME NEW n \in Nr, EnterCall(n) PROVE acted' = acted
    BY <2>2 DEF EnterCall
  <2>3. ASSUME NEW r \in Results, LeaveCall(r) PROVE acted' = acted
    BY <2>3 DEF LeaveCall
  <2>4. ASSUME NEW a \in Abis, ExecImage(a) \/ UnwatchedExec(a) PROVE acted' = acted
    BY <2>4, ZenonT(30) DEF ExecImage, UnwatchedExec, past
  <2>5. ASSUME NEW c \in ExitCodes, ExitCall(c) \/ UnwatchedExit(c) PROVE acted' = acted
    BY <2>5 DEF ExitCall, UnwatchedExit, past
  <2>6. CASE ChildRaise \/ TrapStop \/ Die \/ SendKill
    BY <2>6 DEF ChildRaise, TrapStop, Die, SendKill, KillChild, past
  <2>7. QED
    BY <1>1, <2>1, <2>2, <2>3, <2>4, <2>5, <2>6 DEF TraceeStep, TraceeNext
<1>2. ASSUME UNCHANGED kernel \/ ForkChild \/ KillChild \/ Collect \/ Seize(Options)
               \/ Interrupt \/ TracerGone
      PROVE  acted' = acted
  BY <1>2 DEF kernel, past, ForkChild, KillChild, Collect, Seize, Interrupt, TracerGone
<1>3. CASE TracerStep /\ ~ResumeChild
  BY <1>2, <1>3 DEF TracerStep, Refuse, Accept, Fork, ForkFails, Install, Await,
       SeizeChild, InterruptChild, Settle, WaitStop, ReportSignal, ReadRegisters,
       ReportStop, Finish, Announce, LeaveMain, Fail, FailWait, ReturnError,
       HandlerKill, HandlerWait, HandlerSay, WaitChild, End
<1>4. CASE UserStep \/ UNCHANGED vars
  BY <1>2, <1>4 DEF UserStep, TracerCrash, UserSignal, End, vars
<1>5. QED
  BY <1>1, <1>3, <1>4 DEF Next, Over

\* The signal lines keep up with the signals the child has taken, step by step.
LEMMA ConservedNext ==
  ASSUME StraceTypeOK, KernelInv, SignalInv, ConservedInv, [Next]_vars
  PROVE  ConservedInv'
<1>1. log \in Seq(Event) /\ acted \in Seq(AnySig) /\ deliver \in AnySig
  BY DEF StraceTypeOK, TracerTypeOK, TraceeTypeOK
<1>2. Taken \in Seq(AnySig)
  BY <1>1 DEF Taken
<1>3. ASSUME UNCHANGED <<log, acted, deliver>>, pc' \in SetupPcs => pc \in SetupPcs,
             pc' \in TracePcs => pc \in TracePcs /\ (pc' = pc \/ deliver = NoSig)
      PROVE  ConservedInv'
  <2>1. pc' \in TracePcs => Taken' = Taken
    BY <1>3 DEF Taken
  <2>2. QED
    BY <1>3, <2>1 DEF ConservedInv
<1>4. CASE TraceeStep \/ UserStep \/ UNCHANGED vars
  <2>1. acted' = acted
    BY <1>4, ActedStays DEF ResumeChild, TraceeStep, UserStep, TracerCrash, UserSignal,
         tracer, vars, At, Goto, End, kernel, past, TracerGone
  <2>2. UNCHANGED <<log, deliver>> /\ pc' \in {pc, "done"}
    BY <1>4 DEF TraceeStep, UserStep, TracerCrash, UserSignal, tracer, vars, loop,
         printed, End
  <2>3. QED
    BY <1>3, <2>1, <2>2 DEF SetupPcs, TracePcs
<1>5. CASE Refuse \/ ForkFails \/ LeaveMain \/ ReturnError \/ HandlerSay
           \/ Announce \/ Fail \/ FailWait \/ Finish
  <2>1. pc' \in {"done", "leave", "failwait", "return", "announce"}
    BY <1>5 DEF Refuse, ForkFails, LeaveMain, ReturnError, HandlerSay, End,
         Announce, Fail, FailWait, Finish, Goto
  <2>2. QED
    BY <2>1 DEF ConservedInv, SetupPcs, TracePcs
<1>6. CASE HandlerKill \/ HandlerWait
  <2>1. UNCHANGED <<log, acted, deliver, pc>>
    BY <1>6 DEF HandlerKill, HandlerWait, KillChild, Collect, loop, printed, kernel, past
  <2>2. QED
    BY <1>3, <2>1
<1>7. CASE Accept \/ Fork \/ Install \/ Await \/ SeizeChild \/ InterruptChild
  <2>1. UNCHANGED <<log, acted, deliver>> /\ pc' \in SetupPcs \cup {"fail"} /\ pc \in SetupPcs
    BY <1>7 DEF Accept, Fork, Install, Await, SeizeChild, InterruptChild, At, Goto,
         loop, printed, SetupPcs, ForkChild, WaitChild, Collect, Seize, Interrupt,
         kernel, past
  <2>2. QED
    BY <1>3, <2>1 DEF SetupPcs, TracePcs
<1>8. CASE Settle
  <2>1. UNCHANGED <<log, acted, deliver>> /\ pc' = "resume" /\ pc = "settle"
    BY <1>8 DEF Settle, At, Goto, loop, printed, WaitChild, Collect, past
  <2>2. log = <<>> /\ Taken' = <<>>
    BY <2>1 DEF ConservedInv, SignalInv, SetupPcs, Taken
  <2>3. Shows(<<>>, <<>>)
    <3> DEFINE none == [i \in {} |-> 0]
    <3>1. DOMAIN <<>> = {} /\ {k \in {} : <<>>[k].ev = "signal"} = {}
      OBVIOUS
    <3>2. none \in [{} -> {}]
      OBVIOUS
    <3> HIDE DEF none
    <3>3. QED
      BY <3>1, <3>2 DEF Shows
  <2>4. QED
    BY <2>1, <2>2, <2>3 DEF ConservedInv, SetupPcs
<1>9. CASE ResumeChild
  <2>1. UNCHANGED <<log, deliver>> /\ pc = "resume" /\ pc' \in {"wait", "fail"}
    BY <1>9 DEF ResumeChild, At, Goto, loop, printed
  <2>2. pc' = "wait" => acted' = Taken
    BY <1>9, <2>1 DEF ResumeChild, Goto, Answers, Resume, Taken, SignalInv
  <2>3. QED
    BY <2>1, <2>2 DEF ConservedInv, Taken, SetupPcs, TracePcs
<1>10. CASE WaitStop
  <2>1. UNCHANGED <<log, acted>> /\ pc = "wait" /\ deliver' = NoSig
    BY <1>10 DEF WaitStop, At, printed, WaitChild, Collect, past
  <2>2. pc' \in TracePcs
    BY <1>10, ClassifyTypes DEF WaitStop, Goto, TracePcs
  <2>3. QED
    BY <2>1, <2>2 DEF ConservedInv, Taken, TracePcs, SetupPcs
<1>11. CASE ReportSignal
  <2>1. acted' = acted /\ pc = "siginfo" /\ deliver = NoSig
    BY <1>11 DEF ReportSignal, At, kernel, past, SignalInv
  <2>2. CASE pc' = "fail"
    BY <2>2 DEF ConservedInv, SetupPcs, TracePcs
  <2>3. CASE /\ Answers /\ deliver' = status.sig /\ pc' = "resume"
             /\ log' = Append(log, Signal(status.sig))
    <3>1. status.sig # NoSig
      BY <2>1, <2>3, SignalAssumption DEF SignalInv, Answers, KernelInv
    <3>2. Taken = acted /\ Taken' = Append(acted, status.sig)
      BY <2>1, <2>3, <3>1 DEF Taken
    <3>3. Shows(log', Taken')
      BY <1>1, <2>1, <2>3, <3>2, ShowsAnother DEF ConservedInv, TracePcs
    <3>4. QED
      BY <2>3, <3>3 DEF ConservedInv, SetupPcs
  <2>4. QED
    BY <1>11, <2>2, <2>3 DEF ReportSignal, Goto
<1>12. CASE ReadRegisters
  <2>1. UNCHANGED <<log, acted, deliver>> /\ pc = "regs" /\ deliver = NoSig
    BY <1>12 DEF ReadRegisters, At, kernel, past, printed, SignalInv
  <2>2. pc' \in {"report", "fail"}
    BY <1>12 DEF ReadRegisters, Goto
  <2>3. QED
    BY <1>3, <2>1, <2>2 DEF SetupPcs, TracePcs
<1>13. CASE ReportStop
  <2>1. UNCHANGED <<acted, deliver>> /\ pc = "report" /\ pc' = "resume" /\ deliver = NoSig
    BY <1>13 DEF ReportStop, At, Goto, kernel, past, SignalInv
  <2>2. PICK e : log' = Append(log, e) /\ e.ev # "signal"
    <3>1. /\ Leave(regs.ret).ev # "signal"
          /\ Enter(regs.nr, regs.abi).ev # "signal"
      BY DEF Leave, Enter
    <3>2. \/ log' = Append(log, Leave(regs.ret))
          \/ log' = Append(log, Enter(regs.nr, regs.abi))
      BY <1>13 DEF ReportStop
    <3>3. QED
      BY <3>1, <3>2
  <2>3. Taken' = Taken
    BY <2>1 DEF Taken
  <2>4. Shows(log', Taken)
    BY <1>1, <1>2, <2>1, <2>2, ShowsNothing DEF ConservedInv, TracePcs
  <2>5. QED
    BY <2>1, <2>3, <2>4 DEF ConservedInv, SetupPcs
<1>14. QED
  BY <1>4, <1>5, <1>6, <1>7, <1>8, <1>9, <1>10, <1>11, <1>12, <1>13
     DEF Next, TracerStep, Over

\* No signal is lost, invented, doubled or reordered between the stop that shows
\* it and the resume that injects it (trace, ft_strace.c:218-249), whoever continued
\* or killed the child meanwhile.
THEOREM SignalsCorrect == Spec => []SignalsConserved
<1>1. Init => SignalInv /\ ConservedInv
  BY DEF Init, TraceeInit, SignalInv, ConservedInv, SetupPcs, TracePcs
<1>2. StraceTypeOK /\ Inv /\ SignalInv /\ ConservedInv /\ [Next]_vars
        => SignalInv' /\ ConservedInv'
  BY SignalNext, ConservedNext DEF Inv
<1>3. ConservedInv => SignalsConserved
  BY DEF ConservedInv, SignalsConserved, Shows, SignalLines
<1>4. QED
  BY <1>1, <1>2, <1>3, Invariant, TypeCorrect, PTL DEF Spec

-----------------------------------------------------------------------------
(* The line of a call. *)

\* finish_args completes the line of the open call.
LEMMA FinishShows ==
  ASSUME StraceTypeOK, NEW result, NEW readable, finish_args(result, readable),
         call.next_arg = First(call.syscall), ShowsFirst(First(call.syscall)),
         line.parens = IF First(call.syscall) = Size(call.syscall) THEN 1 ELSE 0
  PROVE  /\ Len(line'.args) = Size(call.syscall)
         /\ \A j \in 1..Size(call.syscall) : line'.args[j].arg = j
         /\ line'.parens = 1
<1> DEFINE row == call.syscall
           n == call.next_arg
<1>1. row \in {NULL} \cup Seq(ArgTypes) /\ n \in Nat /\ line.args \in Seq(Shown)
  BY DEF StraceTypeOK, TracerTypeOK, CallLine
<1>2. CASE row = NULL \/ n = Len(row)
  <2>1. line' = line
    BY <1>2, finish_args(result, readable) DEF finish_args
  <2>2. n = Size(row)
    BY <1>2 DEF First, Size
  <2>3. QED
    BY <2>1, <2>2 DEF ShowsFirst
<1>3. CASE row # NULL /\ n # Len(row)
  <2> DEFINE k == Len(row) - n
             rest == [i \in 1..k |-> PrintArg(row, n + i, result, readable)]
  <2>1. row \in Seq(ArgTypes) /\ n = EntryArgs(row) /\ Size(row) = Len(row)
    BY <1>1, <1>3 DEF First, Size
  <2>2. n <= Len(row) /\ k \in Nat
    BY <1>1, <2>1, EntryArgsFirst
  <2>3. line' = [args |-> line.args \o rest, parens |-> line.parens + 1]
    BY <1>3, finish_args(result, readable) DEF finish_args
  <2>4. \A i \in 1..k : PrintArg(row, n + i, result, readable).arg = n + i
    BY DEF PrintArg
  <2>5. Len(line.args) = n /\ \A j \in 1..n : line.args[j].arg = j
    BY DEF ShowsFirst
  <2>6. line.parens = 0
    BY <1>3, <2>1 DEF First
  <2> HIDE DEF row, n, rest
  <2>7. line'.args = line.args \o rest /\ line'.parens = line.parens + 1
    BY <2>3
  <2> USE DEF rest
  <2>8. /\ Len(rest) = k /\ \A i \in 1..k : rest[i].arg = n + i
        /\ rest \in Seq(Shown)
    <3>1. \A i \in 1..k : PrintArg(row, n + i, result, readable) \in Shown
      BY <1>1, <2>2, PrintArgType DEF StraceTypeOK, TraceeTypeOK
    <3>2. QED
      BY <2>2, <2>4, <3>1
  <2> HIDE DEF rest
  <2>9. Len(line'.args) = Len(row)
    BY <1>1, <2>2, <2>7, <2>5, <2>8
  <2>10. ASSUME NEW j \in 1..Len(row) PROVE line'.args[j].arg = j
    <3>1. CASE j <= n
      BY <1>1, <2>7, <2>5, <2>8, <3>1
    <3>2. CASE j > n
      <4>1. j - n \in 1..k /\ rest[j - n].arg = n + (j - n) /\ n + (j - n) = j
        BY <1>1, <2>2, <2>8, <3>2
      <4>2. (line.args \o rest)[j] = rest[j - n]
        BY <1>1, <2>2, <2>5, <2>8, <3>2, <4>1
      <4>3. QED
        BY <2>7, <4>1, <4>2
    <3>3. QED
      BY <1>1, <3>1, <3>2
  <2>11. QED
    BY <2>1, <2>7, <2>6, <2>9, <2>10 DEF row
<1>4. QED
  BY <1>2, <1>3

\* print_entry shows the first arguments of the row.
LEMMA EntryShows ==
  ASSUME StraceTypeOK, NEW readable, print_entry(regs, readable)
  PROVE  /\ call'.nr = regs.nr /\ call'.abi = regs.abi
         /\ call'.syscall = lookup_syscall(regs)
         /\ call'.next_arg = First(call'.syscall)
         /\ ShowsFirst(First(call.syscall))'
         /\ line'.parens = IF First(call'.syscall) = Size(call'.syscall) THEN 1 ELSE 0
<1> DEFINE row == lookup_syscall(regs)
           n == IF row = NULL THEN 0 ELSE EntryArgs(row)
           cells == [i \in 1..n |-> PrintArg(row, i, "ok", readable)]
<1>1. /\ call' = [nr |-> regs.nr, abi |-> regs.abi, next_arg |-> n, syscall |-> row]
      /\ line' = [args |-> cells,
                  parens |-> IF row = NULL \/ n = Len(row) THEN 1 ELSE 0]
  BY DEF print_entry
<1>2. row \in {NULL} \cup Seq(ArgTypes)
  BY RowType DEF StraceTypeOK, TracerTypeOK
<1>3. n \in Nat
  BY <1>2, EntryArgsType
<1>4. \A i \in 1..n : cells[i].arg = i
  BY DEF PrintArg
<1> HIDE DEF row
<1>5. Len(cells) = n
  BY <1>3
<1>6. n = First(row) /\ (row = NULL \/ n = Len(row) <=> First(row) = Size(row))
  BY DEF First, Size
<1> HIDE DEF n, cells
<1>7. QED
  BY <1>1, <1>4, <1>5, <1>6 DEF ShowsFirst, row

\* A line more leaves the last call shown where it is, or is the last call shown.
LEMMA LastStays ==
  ASSUME log \in Seq(Event), NEW e, log' = Append(log, e)
  PROVE  /\ e.ev # "enter" => \A i \in DOMAIN log : IsLast(i) => IsLast(i)' /\ log'[i] = log[i]
         /\ e.ev # "enter" /\ (\A j \in DOMAIN log : log[j].ev # "enter")
              => \A j \in DOMAIN log' : log'[j].ev # "enter"
         /\ e.ev = "enter" =>
              \A n : n = Len(log) + 1 => IsLast(n)' /\ n \in DOMAIN log' /\ log'[n] = e
<1>1. /\ DOMAIN log' = 1..(Len(log) + 1) /\ log'[Len(log) + 1] = e
      /\ DOMAIN log = 1..Len(log) /\ Len(log) \in Nat
      /\ \A i \in 1..Len(log) : log'[i] = log[i]
  OBVIOUS
<1>2. \A i \in DOMAIN log' : i \in DOMAIN log \/ i = Len(log) + 1
  BY <1>1
<1>3. \A i \in DOMAIN log : i \in DOMAIN log' /\ i # Len(log) + 1
  BY <1>1
<1>4. ASSUME e.ev # "enter", NEW i \in DOMAIN log, IsLast(i)
      PROVE  IsLast(i)' /\ log'[i] = log[i]
  BY <1>1, <1>2, <1>3, <1>4 DEF IsLast
<1>5. ASSUME e.ev # "enter", \A j \in DOMAIN log : log[j].ev # "enter", NEW j \in DOMAIN log'
      PROVE  log'[j].ev # "enter"
  BY <1>1, <1>2, <1>5
<1>6. ASSUME e.ev = "enter", NEW n, n = Len(log) + 1
      PROVE  IsLast(n)' /\ n \in DOMAIN log' /\ log'[n] = e
  BY <1>1, <1>6 DEF IsLast
<1>7. QED
  BY <1>4, <1>5, <1>6

\* The same call, looked up again, has the same row.
LEMMA SameRow ==
  ASSUME NEW r, NEW q, r.nr = q.nr, r.abi = q.abi
  PROVE  lookup_syscall(r) = lookup_syscall(q)
BY DEF lookup_syscall

\* Every call's line is opened by print_entry and closed by finish_args.
LEMMA CallNext ==
  ASSUME StraceTypeOK, StraceTypeOK', CallInv, [Next]_vars
  PROVE  CallInv'
<1>1. log \in Seq(Event) /\ log' \in Seq(Event)
  BY DEF StraceTypeOK, TracerTypeOK
<1>2. ASSUME NEW i \in DOMAIN log, LastCallShown(i), IsLast(i)', log'[i] = log[i],
             UNCHANGED <<call, line>>, Closed' = Closed
      PROVE  LastCallShown(i)'
  BY <1>2 DEF LastCallShown, IsLast, lookup_syscall, ShowsFirst, First, Size
<1>3. CASE /\ UNCHANGED <<in_syscall, compat, printed>>
           /\ pc' # "done" => /\ pc # "done"
                              /\ pc' \in {"announce", "leave"}
                                   <=> pc \in {"announce", "leave"}
  <2>1. ASSUME pc' # "done", NEW i \in DOMAIN log, LastCallShown(i)
        PROVE  LastCallShown(i)'
    <3>1. IsLast(i)' /\ log'[i] = log[i]
      BY <1>3, <2>1 DEF LastCallShown, IsLast, printed
    <3>2. UNCHANGED <<call, line>> /\ Closed' = Closed
      BY <1>3, <2>1 DEF Closed, printed
    <3>3. QED
      BY <1>2, <2>1, <3>1, <3>2
  <2>2. NoCallShown => NoCallShown'
    BY <1>3 DEF NoCallShown, printed
  <2>3. log' = log
    BY <1>3 DEF printed
  <2>4. QED
    BY <1>3, <2>1, <2>2, <2>3 DEF CallInv
<1>4. CASE ReportSignal
  <2>1. UNCHANGED <<call, line, in_syscall>> /\ Closed' = Closed /\ pc = "siginfo"
    BY <1>4 DEF ReportSignal, Closed, At, Goto
  <2>2. CASE log' = log
    <3>1. NoCallShown => NoCallShown'
      BY <2>1, <2>2 DEF NoCallShown
    <3>2. \A i \in DOMAIN log : LastCallShown(i) => IsLast(i)'
      BY <2>2 DEF LastCallShown, IsLast
    <3>3. QED
      BY <1>2, <2>1, <2>2, <3>1, <3>2 DEF CallInv
  <2>3. CASE log' = Append(log, Signal(status.sig))
    <3>1. Signal(status.sig).ev # "enter"
      BY DEF Signal
    <3>2. \A i \in DOMAIN log : LastCallShown(i) => LastCallShown(i)'
      BY <1>1, <1>2, <2>1, <2>3, <3>1, LastStays DEF LastCallShown
    <3>3. NoCallShown => NoCallShown'
      BY <1>1, <2>1, <2>3, <3>1, LastStays DEF NoCallShown
    <3>4. DOMAIN log \subseteq DOMAIN log'
      BY <1>1, <2>3
    <3>5. QED
      BY <2>1, <3>2, <3>3, <3>4 DEF CallInv
  <2>4. QED
    BY <1>4, <2>2, <2>3 DEF ReportSignal
<1>5. ASSUME NEW i \in DOMAIN log, LastCallShown(i), IsLast(i)', log'[i] = log[i],
             call' = call, Closed', ~Closed, NEW result, NEW readable,
             finish_args(result, readable)
      PROVE  LastCallShown(i)'
  <2>1. /\ Len(line'.args) = Size(call.syscall)
        /\ \A j \in 1..Size(call.syscall) : line'.args[j].arg = j
        /\ line'.parens = 1
    BY <1>5, FinishShows DEF LastCallShown
  <2>2. QED
    BY <1>5, <2>1 DEF LastCallShown, IsLast, lookup_syscall, ShowsFirst, First, Size
<1>6. CASE ReportStop /\ in_syscall
  <2>1. /\ pc = "report" /\ pc' = "resume" /\ ~in_syscall' /\ call' = call
        /\ log' = Append(log, Leave(regs.ret))
    BY <1>6 DEF ReportStop, At, Goto
  <2>2. PICK readable : finish_args(regs.ret, readable)
    BY <1>6 DEF ReportStop
  <2>3. Leave(regs.ret).ev # "enter" /\ Closed' /\ ~Closed
    BY <1>6, <2>1 DEF Leave, Closed
  <2>4. PICK i \in DOMAIN log : LastCallShown(i)
    BY <1>6, <2>1 DEF CallInv, NoCallShown
  <2>5. IsLast(i)' /\ log'[i] = log[i] /\ i \in DOMAIN log'
    BY <1>1, <2>1, <2>3, <2>4, LastStays DEF LastCallShown, IsLast
  <2>6. LastCallShown(i)'
    BY <1>5, <2>1, <2>2, <2>3, <2>4, <2>5
  <2>7. QED
    BY <2>5, <2>6 DEF CallInv
<1>7. CASE ReportStop /\ ~in_syscall
  <2>0. PICK e, i : e = Enter(regs.nr, regs.abi) /\ i = Len(log) + 1
    OBVIOUS
  <2>1. pc = "report" /\ pc' = "resume" /\ in_syscall' /\ log' = Append(log, e)
    BY <1>7, <2>0 DEF ReportStop, At, Goto
  <2>2. PICK readable : print_entry(regs, readable)
    BY <1>7 DEF ReportStop
  <2>3. e.ev = "enter" /\ e.nr = regs.nr /\ e.abi = regs.abi /\ ~Closed'
    BY <2>0, <2>1 DEF Enter, Closed
  <2>4. IsLast(i)' /\ log'[i] = e /\ i \in DOMAIN log'
    BY <1>1, <2>0, <2>1, <2>3, LastStays
  <2>5. /\ call'.nr = regs.nr /\ call'.abi = regs.abi
        /\ call'.syscall = lookup_syscall(regs)
        /\ call'.next_arg = First(call'.syscall)
        /\ ShowsFirst(First(call.syscall))'
        /\ line'.parens = IF First(call'.syscall) = Size(call'.syscall) THEN 1 ELSE 0
    BY <2>2, EntryShows
  <2>6. lookup_syscall(call') = lookup_syscall(regs)
    BY <2>5, SameRow
  <2>7. LastCallShown(i)'
    BY <2>3, <2>4, <2>5, <2>6 DEF LastCallShown
  <2>8. QED
    BY <2>4, <2>7 DEF CallInv
<1>8. CASE Finish
  <2>1. /\ pc = "finish" /\ pc' = "announce" /\ UNCHANGED <<call, log, in_syscall>>
    BY <1>8 DEF Finish, At, Goto
  <2>2. CASE ~in_syscall
    <3>1. line' = line /\ Closed' = Closed
      BY <1>8, <2>1, <2>2 DEF Finish, Closed
    <3>2. NoCallShown => NoCallShown'
      BY <2>1 DEF NoCallShown
    <3>3. \A i \in DOMAIN log : LastCallShown(i) => IsLast(i)'
      BY <2>1 DEF LastCallShown, IsLast
    <3>4. QED
      BY <1>2, <2>1, <3>1, <3>2, <3>3 DEF CallInv
  <2>3. CASE in_syscall
    <3>1. finish_args("err", FALSE) /\ Closed' /\ ~Closed
      BY <1>8, <2>1, <2>3 DEF Finish, Closed
    <3>2. PICK i \in DOMAIN log : LastCallShown(i)
      BY <2>1, <2>3 DEF CallInv, NoCallShown
    <3>3. IsLast(i)' /\ log'[i] = log[i] /\ i \in DOMAIN log'
      BY <2>1, <3>2 DEF LastCallShown, IsLast
    <3>4. LastCallShown(i)'
      BY <1>5, <2>1, <3>1, <3>2, <3>3
    <3>5. QED
      BY <3>3, <3>4 DEF CallInv
  <2>4. QED
    BY <2>2, <2>3
<1>9. QED
  BY <1>3, <1>4, <1>6, <1>7, <1>8, LineStays

\* The call shown last is the one the log ends with.
LEMMA LastCallIs ==
  ASSUME log \in Seq(Event), NEW i \in DOMAIN log, IsLast(i)
  PROVE  LastCall = i
<1>1. \A k \in DOMAIN log :
        (log[k].ev = "enter" /\ \A j \in DOMAIN log : log[j].ev = "enter" => j <= k)
          => k = i
  BY DEF IsLast
<1>2. QED
  BY <1>1 DEF LastCall, IsLast

\* A call that is over shows each argument of its row once, in order, and closes its
\* parenthesis once, even if the program changed ABI or died in it (print_entry,
\* finish_args and trace, ft_strace.c:155-215, 250-300).
THEOREM LineCorrect == Spec => []CallLineComplete
<1>1. Init => CallInv
  BY DEF Init, CallInv, NoCallShown
<1>2. StraceTypeOK /\ StraceTypeOK' /\ CallInv /\ [Next]_vars => CallInv'
  BY CallNext
<1>3. StraceTypeOK /\ CallInv => CallLineComplete
  <2> SUFFICES ASSUME StraceTypeOK, CallInv,
                      \/ pc \in {"resume", "wait"} /\ ~in_syscall
                      \/ pc \in {"announce", "leave"},
                      \E k \in DOMAIN log : log[k].ev = "enter"
               PROVE  LET row == lookup_syscall(log[LastCall])
                      IN  /\ line.parens = 1
                          /\ IF row = NULL THEN line.args = <<>>
                             ELSE [j \in DOMAIN line.args |-> line.args[j].arg]
                                    = [j \in DOMAIN row |-> j]
    BY DEF CallLineComplete
  <2>1. /\ log \in Seq(Event) /\ line.args \in Seq(Shown)
        /\ call.syscall \in {NULL} \cup Seq(ArgTypes)
    BY DEF StraceTypeOK, TracerTypeOK, CallLine
  <2>2. Closed /\ pc # "done"
    BY DEF Closed
  <2>3. PICK i \in DOMAIN log : LastCallShown(i)
    BY <2>2 DEF CallInv, NoCallShown
  <2>4. LastCall = i
    BY <2>1, <2>3, LastCallIs DEF LastCallShown
  <2>5. lookup_syscall(log[LastCall]) = call.syscall
    BY <2>3, <2>4, SameRow DEF LastCallShown
  <2>6. ShowsFirst(Size(call.syscall)) /\ line.parens = 1
    BY <2>2, <2>3 DEF LastCallShown
  <2>7. CASE call.syscall = NULL
    BY <2>1, <2>5, <2>6, <2>7 DEF ShowsFirst, Size
  <2>8. CASE call.syscall # NULL
    <3>1. DOMAIN line.args = DOMAIN call.syscall
      BY <2>1, <2>6, <2>8 DEF ShowsFirst, Size
    <3>2. \A j \in DOMAIN line.args : line.args[j].arg = j
      BY <2>1, <2>6 DEF ShowsFirst
    <3>3. QED
      BY <2>5, <2>6, <2>8, <3>1, <3>2
  <2>9. QED
    BY <2>7, <2>8
<1>4. QED
  BY <1>1, <1>2, <1>3, TypeCorrect, PTL DEF Spec

-----------------------------------------------------------------------------
(* Where and when the arguments are read. *)

\* The call that is open is the one the child is in, and what its line shows was
\* read before the kernel did anything; at an exit stop that has been reported the
\* output buffers have been added, read from the same address space.
EntryCell(c) ==
  c.mem # NoMem => /\ c.mem = prog.from /\ c.at = "entry"
                   /\ call.syscall[c.arg] # "OUTPUT_BYTES"
TimelyCell(c) ==
  c.mem # NoMem => /\ c.mem = prog.from
                   /\ (c.at = "exit") = (call.syscall[c.arg] = "OUTPUT_BYTES")
OpenCall ==
  /\ call.nr \in Nr /\ prog.nr = call.nr
  /\ IF Execed THEN Kind[call.abi][call.nr] = "exec" ELSE prog.abi = call.abi
SpaceInv ==
  /\ stop = "entry" => ~Execed /\ prog.nr \in Nr
  /\ pc = "report" =>
       /\ in_syscall = (where = "user")
       /\ ~in_syscall => /\ ~Execed /\ prog.nr \in Nr
                         /\ regs.nr = prog.nr /\ regs.abi = prog.abi
  /\ in_syscall /\ pc \in TracePcs =>
       OpenCall /\ \A i \in DOMAIN line.args : EntryCell(line.args[i])
  /\ pc = "resume" /\ stop = "exit" =>
       \A i \in DOMAIN line.args : TimelyCell(line.args[i])

\* The tracer's system calls change neither the program nor where it is.
LEMMA EffectsSpace ==
  ASSUME Effects
  PROVE  UNCHANGED <<prog, where>> /\ (stop' \in {"entry", "exit"} => stop' = stop)
<1>1. CASE UNCHANGED kernel \/ ForkChild \/ Collect \/ Interrupt
  BY <1>1 DEF kernel, stopping, past, ForkChild, Collect, Interrupt
<1>2. CASE KillChild
  BY <1>2 DEF KillChild, SigKill, stopping, past
<1>3. CASE Seize(Options)
  BY <1>3 DEF Seize, StopAt, stopping, past
<1>4. ASSUME NEW sig \in AnySig, Resume(sig)
      PROVE  UNCHANGED <<prog, where>> /\ (stop' \in {"entry", "exit"} => stop' = stop)
  BY <1>4 DEF Resume
<1>5. CASE TracerGone
  BY <1>5 DEF TracerGone, SigKill, stopping, past
<1>6. QED
  BY <1>1, <1>2, <1>3, <1>4, <1>5 DEF Effects

\* A step that changes neither the program, nor the line, nor where trace is keeps
\* SpaceInv.
LEMMA SpaceStays ==
  ASSUME SpaceInv, UNCHANGED <<prog, where, pc, in_syscall, regs, call, line>>,
         stop' \in {"entry", "exit"} => stop' = stop
  PROVE  SpaceInv'
BY DEF SpaceInv, Execed, OpenCall, EntryCell, TimelyCell

\* The child cannot leave the call that is open.
LEMMA SpaceChild ==
  ASSUME StraceTypeOK, KernelInv, PhaseInv, LoopInv, SpaceInv, TraceeNext,
         UNCHANGED tracer, ~early'
  PROVE  SpaceInv'
<1>1. UNCHANGED <<pc, in_syscall, regs, call, line>>
  BY DEF tracer, loop, printed
<1>2. prog \in Program
  BY DEF StraceTypeOK, TraceeTypeOK
<1>3. CASE ~Runs
  <2>1. CASE Parked
    <3>1. ParkedStep /\ KernelInv'
      BY <2>1, ParkedStays, TraceeKernel DEF StraceTypeOK
    <3>2. stop' \in {"entry", "exit"} => stop' = stop
      BY <3>1 DEF ParkedStep, KernelInv
    <3>3. QED
      BY <1>1, <3>1, <3>2, SpaceStays DEF ParkedStep
  <2>2. CASE life \in {"none", "newborn", "held"}
    <3>1. stop' \notin {"entry", "exit"} /\ pc \notin TracePcs
      <4>1. pc \notin TracePcs
        BY <2>2 DEF PhaseInv, TracePcs
      <4>2. ~Runs
        BY <1>3
      <4>3. stop = "none"
        BY <2>2 DEF KernelInv
      <4>4. ASSUME NEW s \in Signals PROVE UntracedSignal(s) \/ SendSignal(s) => stop' = stop
        BY DEF UntracedSignal, SendSignal, stopping
      <4>5. ChildRaise \/ Die \/ SendKill => stop' \in {stop, "none"}
        BY DEF ChildRaise, Die, EndWith, SendKill, KillChild, SigKill, stopping
      <4>6. QED
        BY <4>1, <4>2, <4>3, <4>4, <4>5 DEF TraceeNext, SignalStop, EnterCall, LeaveCall,
             ExecImage, UnwatchedExec, ExitCall, UnwatchedExit, TrapStop
    <3>2. QED
      BY <1>1, <3>1 DEF SpaceInv, TracePcs
  <2>3. QED
    BY <1>3, <2>1, <2>2 DEF Parked
<1>4. CASE Runs
  <2>1. pc = "wait" /\ armed /\ in_syscall = (where = "call") /\ stop = "none"
    BY <1>4 DEF LoopInv, PlaceInv, StepInv, KernelInv, Runs
  <2>2. ASSUME UNCHANGED prog, stop' \notin {"entry"} PROVE SpaceInv'
    BY <1>1, <2>1, <2>2 DEF SpaceInv, Execed, OpenCall, EntryCell, TimelyCell
  <2>3. ASSUME NEW n \in Nr, EnterCall(n) PROVE SpaceInv'
    <3>1. prog' = [prog EXCEPT !.nr = n, !.from = prog.image, !.ret = "err"]
          /\ where = "user"
      BY <2>3 DEF EnterCall
    <3>2. prog'.nr = n /\ prog'.image = prog'.from
      BY <1>2, <3>1 DEF Program
    <3>3. QED
      BY <1>1, <2>1, <3>1, <3>2 DEF SpaceInv, Execed
  <2>4. ASSUME NEW r \in Results, LeaveCall(r) PROVE SpaceInv'
    <3>1. prog' = [prog EXCEPT !.ret = r] /\ stop' = "exit"
      BY <2>4 DEF LeaveCall, StopAt
    <3>2. /\ prog'.nr = prog.nr /\ prog'.abi = prog.abi /\ prog'.image = prog.image
          /\ prog'.from = prog.from
      BY <1>2, <3>1 DEF Program
    <3>3. QED
      BY <1>1, <2>1, <3>1, <3>2 DEF SpaceInv, Execed, OpenCall, EntryCell
  <2>5. ASSUME NEW a \in Abis, ExecImage(a) PROVE SpaceInv'
    <3>1. /\ prog' = [prog EXCEPT !.abi = a, !.image = prog.image + 1]
          /\ Does("exec") /\ stop' # "entry" /\ where = "call"
      BY <2>1, <2>5 DEF ExecImage, StopAt, stopping
    <3>2. prog'.nr = prog.nr /\ prog'.image = prog.image + 1 /\ prog'.from = prog.from
      BY <1>2, <3>1 DEF Program
    <3>3. /\ ~Execed /\ Kind[prog.abi][prog.nr] = "exec"
      BY <3>1 DEF Does
    <3>4. Execed'
      BY <1>2, <3>2, <3>3 DEF Execed, Program
    <3>5. OpenCall /\ \A i \in DOMAIN line.args : EntryCell(line.args[i])
      BY <2>1, <3>1 DEF SpaceInv, TracePcs
    <3>6. OpenCall'
      BY <1>1, <3>2, <3>3, <3>4, <3>5 DEF OpenCall
    <3>7. \A i \in DOMAIN line'.args : EntryCell(line.args[i])'
      BY <1>1, <3>2, <3>5 DEF EntryCell
    <3>8. QED
      BY <1>1, <2>1, <3>1, <3>6, <3>7 DEF SpaceInv
  <2>6. ASSUME NEW a \in Abis, UnwatchedExec(a) PROVE FALSE
    BY <2>1, <2>6 DEF UnwatchedExec
  <2>7. ASSUME NEW c \in ExitCodes, ExitCall(c) \/ UnwatchedExit(c) PROVE SpaceInv'
    BY <2>2, <2>7 DEF ExitCall, UnwatchedExit, EndWith, past
  <2>8. CASE TrapStop \/ Die \/ SendKill
    <3>1. prog' = prog /\ stop' # "entry"
      BY <2>1, <2>8 DEF TrapStop, StopAt, Die, EndWith, SendKill, KillChild, SigKill,
           stopping, past
    <3>2. QED
      BY <2>2, <3>1
  <2>9. ASSUME NEW s \in Signals, UntracedSignal(s) \/ SignalStop(s) \/ SendSignal(s)
        PROVE  SpaceInv'
    <3>1. prog' = prog /\ stop' # "entry"
      BY <2>1, <2>9 DEF UntracedSignal, SignalStop, SendSignal, StopAt, stopping, past
    <3>2. QED
      BY <2>2, <3>1
  <2>10. ~ChildRaise
    BY <1>4 DEF ChildRaise, Runs
  <2>11. QED
    BY <2>3, <2>4, <2>5, <2>6, <2>7, <2>8, <2>9, <2>10 DEF TraceeNext
<1>5. QED
  BY <1>3, <1>4

\* print_entry reads the arguments of the call the child has just entered.
LEMMA EntryCells ==
  ASSUME StraceTypeOK, where = "call", ~Execed, NEW readable, print_entry(regs, readable)
  PROVE  \A i \in DOMAIN line'.args :
           LET c == line'.args[i]
           IN  c.mem # NoMem => /\ c.mem = prog.from /\ c.at = "entry"
                                /\ call'.syscall[c.arg] # "OUTPUT_BYTES"
<1> DEFINE row == lookup_syscall(regs)
           n == IF row = NULL THEN 0 ELSE EntryArgs(row)
           cells == [i \in 1..n |-> PrintArg(row, i, "ok", readable)]
<1>1. line'.args = cells /\ call'.syscall = row
  BY DEF print_entry
<1>2. row = NULL \/ row \in Seq(ArgTypes)
  BY RowType DEF StraceTypeOK, TracerTypeOK
<1>3. \A i \in 1..n : row[i] # "OUTPUT_BYTES"
  BY <1>2, EntryArgsFirst
<1>4. \A i \in 1..n : /\ cells[i].arg = i /\ cells[i].at = "entry"
                      /\ cells[i].mem # NoMem => cells[i].mem = prog.image
  BY DEF PrintArg
<1>5. prog.image = prog.from /\ DOMAIN cells = 1..n
  BY DEF Execed
<1> HIDE DEF row, n, cells
<1>6. QED
  BY <1>1, <1>3, <1>4, <1>5

\* finish_args reads the arguments from the first output buffer on, and those that
\* show memory are output buffers of a call that has not replaced the memory.
LEMMA FinishCells ==
  ASSUME StraceTypeOK, where = "user", OpenCall, call.next_arg = First(call.syscall),
         call.syscall = lookup_syscall(call),
         \A i \in DOMAIN line.args : EntryCell(line.args[i]),
         NEW result, NEW readable, finish_args(result, readable)
  PROVE  \A i \in DOMAIN line'.args : TimelyCell(line'.args[i])
<1> DEFINE row == call.syscall
           n == call.next_arg
<1>1. /\ row \in {NULL} \cup Seq(ArgTypes) /\ n \in Nat /\ line.args \in Seq(Shown)
      /\ call.abi \in Abis
  BY DEF StraceTypeOK, TracerTypeOK, CallLine
<1>2. \A i \in DOMAIN line.args : TimelyCell(line.args[i])
  BY DEF EntryCell, TimelyCell
<1>3. CASE row = NULL \/ n = Len(row)
  BY <1>2, <1>3, finish_args(result, readable) DEF finish_args
<1>4. CASE row # NULL /\ n # Len(row)
  <2> DEFINE k == Len(row) - n
             rest == [i \in 1..k |-> PrintArg(row, n + i, result, readable)]
  <2>1. row \in Seq(ArgTypes) /\ n = EntryArgs(row)
    BY <1>1, <1>4 DEF First
  <2>2. n <= Len(row) /\ k \in Nat /\ \A i \in 1..k : n + i \in DOMAIN row /\ n + i > n
    BY <1>1, <2>1, EntryArgsFirst
  <2>3. call.nr \in DOMAIN Table[call.abi] /\ row = Table[call.abi][call.nr]
    BY <1>4 DEF lookup_syscall
  <2>4. \A i \in 1..k : \E j \in 1..(n + i) : row[j] = "OUTPUT_BYTES"
    BY <2>1, <2>2, EntryArgsFirst
  <2>5. \A i \in 1..k : row[n + i] \in MemoryTypes => row[n + i] = "OUTPUT_BYTES"
    <3>1. ASSUME NEW i \in 1..k, row[n + i] \in MemoryTypes
          PROVE  row[n + i] = "OUTPUT_BYTES"
      <4>1. PICK j \in 1..(n + i) : row[j] = "OUTPUT_BYTES"
        BY <2>4
      <4>2. j \in DOMAIN row /\ n + i \in DOMAIN row /\ (j < n + i \/ j = n + i)
        BY <1>1, <2>1, <2>2
      <4>3. ~(j < n + i)
        BY <1>1, <2>3, <3>1, <4>1, <4>2, TableAssumption
      <4>4. QED
        BY <4>1, <4>2, <4>3
    <3>2. QED
      BY <3>1
  <2>6. \A i \in 1..k : prog.image = prog.from
    <3>1. ASSUME NEW i \in 1..k, Execed PROVE FALSE
      <4>1. Kind[call.abi][call.nr] = "exec" /\ call.nr \in Nr
        BY <3>1 DEF OpenCall
      <4>2. \A j \in DOMAIN row : row[j] # "OUTPUT_BYTES"
        BY <1>1, <2>3, <4>1, ExecAssumption
      <4>3. PICK j \in 1..(n + i) : row[j] = "OUTPUT_BYTES"
        BY <2>4, <3>1
      <4>4. j \in DOMAIN row
        BY <1>1, <2>1, <2>2, <3>1
      <4>5. QED
        BY <4>2, <4>3, <4>4
    <3>2. QED
      BY <3>1 DEF Execed
  <2>7. line' = [args |-> line.args \o rest, parens |-> line.parens + 1]
    BY <1>4, finish_args(result, readable) DEF finish_args
  <2>8. \A i \in 1..k : /\ rest[i].arg = n + i /\ rest[i].at = "exit"
                        /\ rest[i].mem # NoMem => /\ rest[i].mem = prog.image
                                                  /\ row[n + i] \in MemoryTypes
    BY DEF PrintArg
  <2>9. \A i \in 1..k : TimelyCell(rest[i])
    BY <2>5, <2>6, <2>8 DEF TimelyCell
  <2>10. rest \in Seq(Shown) /\ Len(rest) = k
    <3>1. \A i \in 1..k : PrintArg(row, n + i, result, readable) \in Shown
      BY <1>1, <2>2, PrintArgType DEF StraceTypeOK, TraceeTypeOK
    <3>2. QED
      BY <2>2, <3>1
  <2> HIDE DEF rest, k, n, row
  <2>11. line'.args = line.args \o rest
    BY <2>7
  <2>12. ASSUME NEW i \in DOMAIN line'.args PROVE TimelyCell(line'.args[i])
    <3>1. CASE i \in DOMAIN line.args
      <4>1. line'.args[i] = line.args[i]
        BY <1>1, <2>10, <2>11, <3>1
      <4>2. QED
        BY <1>2, <3>1, <4>1
    <3>2. CASE i \notin DOMAIN line.args
      <4>1. i - Len(line.args) \in 1..k /\ line'.args[i] = rest[i - Len(line.args)]
        BY <1>1, <2>2, <2>10, <2>11, <2>12, <3>2
      <4>2. QED
        BY <2>9, <4>1
    <3>3. QED
      BY <3>1, <3>2
  <2>13. QED
    BY <2>12
<1>5. QED
  BY <1>3, <1>4

\* Neither do the steps of the tracer lose track of the open call.
LEMMA SpaceTracer ==
  ASSUME StraceTypeOK, KernelInv, PhaseInv, LoopInv, CallInv, SpaceInv,
         TracerStep \/ UserStep
  PROVE  SpaceInv'
<1>1. UNCHANGED <<prog, where>> /\ (stop' \in {"entry", "exit"} => stop' = stop)
  BY TracerEffects, EffectsSpace
<1>2. stop' = "entry" => ~Execed' /\ prog'.nr \in Nr
  BY <1>1 DEF SpaceInv, Execed
<1>3. ASSUME pc' \notin TracePcs PROVE SpaceInv'
  BY <1>2, <1>3 DEF SpaceInv, TracePcs
<1>4. ASSUME UNCHANGED <<in_syscall, call, line>>, pc \in TracePcs \/ ~in_syscall
      PROVE  in_syscall' /\ pc' \in TracePcs =>
               OpenCall' /\ \A i \in DOMAIN line'.args : EntryCell(line.args[i])'
  BY <1>1, <1>4 DEF SpaceInv, OpenCall, EntryCell, Execed
<1>5. CASE UserStep
  <2>1. pc' = "done" \/ UNCHANGED pc
    BY <1>5 DEF UserStep, TracerCrash, UserSignal, End
  <2>2. UNCHANGED <<in_syscall, regs, call, line>>
    BY <1>5 DEF UserStep, TracerCrash, UserSignal, loop, printed
  <2>3. QED
    BY <1>1, <1>3, <2>1, <2>2, SpaceStays DEF TracePcs
<1>6. CASE HandlerKill \/ HandlerWait
  BY <1>1, <1>6, SpaceStays DEF HandlerKill, HandlerWait, loop, printed
<1>7. CASE Refuse \/ Accept \/ Fork \/ ForkFails \/ Install \/ Await \/ SeizeChild
           \/ InterruptChild \/ Finish \/ Announce \/ LeaveMain \/ Fail \/ FailWait
           \/ ReturnError \/ HandlerSay
  <2>1. pc' \notin TracePcs
    BY <1>7 DEF Refuse, Accept, Fork, ForkFails, Install, Await, SeizeChild,
         InterruptChild, Finish, Announce, LeaveMain, Fail, FailWait, ReturnError,
         HandlerSay, End, Goto, TracePcs
  <2>2. QED
    BY <1>3, <2>1
<1>8. CASE Settle
  <2>1. pc' = "resume" /\ ~in_syscall' /\ pc = "settle"
    BY <1>8 DEF Settle, At, Goto, loop, LoopInv, StepInv, SetupPcs
  <2>2. stop' # "exit"
    BY <1>1, <2>1 DEF LoopInv, PlaceInv, KernelInv
  <2>3. QED
    BY <1>2, <2>1, <2>2 DEF SpaceInv
<1>9. CASE ResumeChild
  <2>1. UNCHANGED <<in_syscall, call, line>> /\ pc = "resume" /\ pc' \in {"wait", "fail"}
    BY <1>9 DEF ResumeChild, At, Goto, loop, printed
  <2>2. QED
    BY <1>2, <1>4, <2>1 DEF SpaceInv, TracePcs
<1>10. CASE WaitStop
  <2>1. UNCHANGED <<in_syscall, call, line>> /\ pc = "wait" /\ pc' = Classify(Reportable)
    BY <1>10 DEF WaitStop, WaitChild, At, Goto, printed
  <2>2. pc' # "report"
    BY <2>1, ClassifyTypes
  <2>3. pc' = "resume" => stop' # "exit"
    <3>1. ASSUME stop = "exit" PROVE Classify(Reportable) = "regs"
      <4>1. life = "stopped" /\ "TRACESYSGOOD" \in opts
        BY <3>1 DEF KernelInv, Options
      <4>2. Reportable = Stopped(SYSTRAP, FALSE)
        BY <3>1, <4>1 DEF Reportable, Dead
      <4>3. QED
        BY <4>2 DEF Classify, Stopped, SYSTRAP
    <3>2. QED
      BY <1>1, <2>1, <3>1
  <2>4. QED
    BY <1>2, <1>4, <2>1, <2>2, <2>3 DEF SpaceInv, TracePcs
<1>11. CASE ReportSignal
  <2>1. UNCHANGED <<in_syscall, call, line>> /\ pc = "siginfo" /\ pc' \in {"resume", "fail"}
    BY <1>11 DEF ReportSignal, At, Goto
  <2>2. stop' # "exit"
    BY <1>1, <2>1 DEF LoopInv, PlaceInv, KernelInv
  <2>3. QED
    BY <1>2, <1>4, <2>1, <2>2 DEF SpaceInv, TracePcs
<1>12. CASE ReadRegisters
  <2>1. UNCHANGED <<in_syscall, call, line>> /\ pc = "regs"
    BY <1>12 DEF ReadRegisters, At, printed
  <2>2. CASE pc' = "fail"
    BY <1>3, <2>2 DEF TracePcs
  <2>3. CASE /\ Answers /\ regs' = [nr |-> prog.nr, abi |-> prog.abi, ret |-> prog.ret]
             /\ pc' = "report"
    <3>1. /\ stop \in {"entry", "exit"} /\ in_syscall = (stop = "exit")
      BY <2>1, <2>3 DEF Answers, LoopInv, PlaceInv, StepInv
    <3>2. in_syscall = (where = "user") /\ (~in_syscall => stop = "entry")
      BY <3>1 DEF KernelInv
    <3>3. ~in_syscall => ~Execed' /\ prog.nr \in Nr
      BY <1>1, <3>2 DEF SpaceInv, Execed
    <3>4. regs'.nr = prog.nr /\ regs'.abi = prog.abi
      BY <2>3
    <3>5. QED
      BY <1>1, <1>2, <1>4, <2>1, <2>3, <3>2, <3>3, <3>4 DEF SpaceInv, TracePcs
  <2>4. QED
    BY <1>12, <2>2, <2>3 DEF ReadRegisters, Goto
<1>13. CASE ReportStop /\ in_syscall
  <2>1. pc = "report" /\ pc' = "resume" /\ ~in_syscall' /\ call' = call
    BY <1>13 DEF ReportStop, At, Goto
  <2>2. PICK readable : finish_args(regs.ret, readable)
    BY <1>13 DEF ReportStop
  <2>3. where = "user" /\ OpenCall /\ \A i \in DOMAIN line.args : EntryCell(line.args[i])
    BY <1>13, <2>1 DEF SpaceInv, TracePcs
  <2>4. call.next_arg = First(call.syscall) /\ call.syscall = lookup_syscall(call)
    BY <1>13, <2>1 DEF CallInv, NoCallShown, LastCallShown
  <2>5. \A i \in DOMAIN line'.args : TimelyCell(line'.args[i])
    BY <2>2, <2>3, <2>4, FinishCells
  <2>6. \A i \in DOMAIN line'.args : TimelyCell(line.args[i])'
    BY <1>1, <2>1, <2>5 DEF TimelyCell
  <2>7. QED
    BY <1>2, <2>1, <2>6 DEF SpaceInv
<1>14. CASE ReportStop /\ ~in_syscall
  <2>1. pc = "report" /\ pc' = "resume" /\ in_syscall'
    BY <1>14 DEF ReportStop, At, Goto
  <2>2. PICK readable : print_entry(regs, readable)
    BY <1>14 DEF ReportStop
  <2>3. /\ where = "call" /\ ~Execed /\ prog.nr \in Nr
        /\ regs.nr = prog.nr /\ regs.abi = prog.abi
    BY <1>14, <2>1 DEF SpaceInv, StraceTypeOK, TraceeTypeOK
  <2>4. call'.nr = regs.nr /\ call'.abi = regs.abi
    BY <2>2, EntryShows
  <2>5. OpenCall'
    BY <1>1, <2>3, <2>4 DEF OpenCall, Execed
  <2>6. \A i \in DOMAIN line'.args : EntryCell(line.args[i])'
    BY <1>1, <2>2, <2>3, EntryCells DEF EntryCell
  <2>7. stop' # "exit"
    BY <1>1, <2>3 DEF KernelInv
  <2>8. QED
    BY <1>2, <2>1, <2>5, <2>6, <2>7 DEF SpaceInv
<1>15. QED
  BY <1>5, <1>6, <1>7, <1>8, <1>9, <1>10, <1>11, <1>12, <1>13, <1>14
     DEF TracerStep

\* Inputs are shown as they were before the kernel did anything and output buffers as
\* they are after the call, both from the address space the call was made in
\* (print_entry, finish_args, ft_strace.c:155-215), if nobody continues the child
\* before it is seized.
THEOREM DecodeCorrect == Spec => []DecodedInTime
<1>1. Init => CallInv /\ (early \/ SpaceInv)
  BY DEF Init, TraceeInit, CallInv, NoCallShown, SpaceInv, TracePcs
<1>2. StraceTypeOK /\ StraceTypeOK' /\ Inv /\ CallInv /\ (early \/ SpaceInv) /\ [Next]_vars
        => CallInv' /\ (early \/ SpaceInv)'
  <2> SUFFICES ASSUME StraceTypeOK, StraceTypeOK', Inv, CallInv, early \/ SpaceInv,
                      [Next]_vars
               PROVE  (early \/ SpaceInv)'
    BY CallNext
  <2>1. CASE early
    BY <2>1, EarlyStays DEF vars, kernel, past
  <2>2. CASE ~early
    <3>1. KernelInv /\ PhaseInv /\ LoopInv /\ SpaceInv
      BY <2>2 DEF Inv
    <3>2. CASE TracerStep \/ UserStep
      BY <3>1, <3>2, SpaceTracer
    <3>3. CASE TraceeStep
      BY <3>1, <3>3, SpaceChild DEF TraceeStep
    <3>4. CASE UNCHANGED vars
      BY <3>1, <3>4, SpaceStays DEF vars, kernel, stopping, past, tracer, loop, printed
    <3>5. QED
      BY <3>2, <3>3, <3>4 DEF Next, Over
  <2>3. QED
    BY <2>1, <2>2
<1>3. Inv /\ (early \/ SpaceInv) => DecodedInTime
  BY DEF DecodedInTime, SpaceInv, EntryCell, TimelyCell
<1>4. QED
  BY <1>1, <1>2, <1>3, Invariant, TypeCorrect, PTL DEF Spec

=============================================================================
