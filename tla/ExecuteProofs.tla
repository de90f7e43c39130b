---------------------------- MODULE ExecuteProofs ----------------------------
(***************************************************************************)
(* Theorems about Execute, for any number of descendants, any pipe and any *)
(* output.  The invariant says where every byte is, that a pipe whose end  *)
(* was seen has no writer and gets none, how far the command is at each    *)
(* step of the runner, and that only a timeout dooms anybody.              *)
(***************************************************************************)
EXTENDS Execute, TLAPS

\* Every byte written is still in its pipe or captured; a pipe that is not open any
\* more is empty, and nobody is left to pass it on by a fork.
PipeInv ==
  /\ \A f \in Pipes : captured[f] + pipe[f] = written[f]
  /\ \A f \in Pipes \ open : pipe[f] = 0 /\ \A p \in Processes : f \notin holds[p]

\* Where the command is while the runner is at one of its steps.
PlaceInv ==
  /\ pc = "spawn" => open = Pipes /\ \A p \in Processes : state[p] = "none"
  /\ pc \in {"communicate", "kill", "collect"} => state[Leader] \in {"running", "ended"}
  /\ pc = "returned" /\ ~spawn_error => open = {} /\ state[Leader] = "reaped"
  /\ pc # "returned" => state[Leader] # "reaped"
  /\ group[Leader] = "own"

\* Only a timeout dooms anybody; it dooms the whole group.
DoomInv ==
  /\ pc \in {"spawn", "communicate"} => ~timed_out
  /\ pc = "kill" => timed_out
  /\ ~timed_out => doomed = {}
  /\ timed_out /\ pc \in {"collect", "returned"} =>
       \A p \in Processes : Runs(p) => group[p] = "other"
  /\ end = "killed" => timed_out
  /\ state[Leader] \in {"none", "running"} <=> end = "none"
  /\ pc = "returned" /\ ~spawn_error => returncode = end

IInv == TypeOK /\ PipeInv /\ PlaceInv /\ DoomInv

\* The runner starts in the invariant.
LEMMA InvInit == Init => IInv
<1> SUFFICES ASSUME Init PROVE IInv
  OBVIOUS
<1>1. TypeOK
  <2>1. 0 \in 0..PipeSize /\ 0 \in 0..MaxWritten
    BY ExecuteAssumption
  <2>2. /\ pipe \in [Pipes -> 0..PipeSize] /\ written \in [Pipes -> 0..MaxWritten]
        /\ captured \in [Pipes -> 0..MaxWritten]
    BY <2>1 DEF Init
  <2>3. /\ state \in [Processes -> {"none", "running", "ended", "reaped"}]
        /\ group \in [Processes -> {"own", "other"}] /\ holds \in [Processes -> SUBSET Pipes]
    BY DEF Init
  <2>4. QED
    BY <2>2, <2>3 DEF Init, TypeOK
<1>2. PipeInv /\ PlaceInv
  BY DEF Init, PipeInv, PlaceInv, Processes
<1>3. DoomInv
  BY DEF Init, DoomInv, Processes
<1>4. QED
  BY <1>1, <1>2, <1>3 DEF IInv

\* What the command and its descendants do keeps the invariant.
LEMMA ProcessStep ==
  ASSUME IInv, NEW p \in Processes,
         \/ Leave(p) \/ Exit(p) \/ Die(p)
         \/ \E q \in Processes : Fork(p, q)
         \/ \E f \in Pipes : Close(p, f) \/ Write(p, f)
  PROVE  IInv'
<1> USE ExecuteAssumption DEF IInv, result
<1>1. CASE Leave(p)
  <2>1. TypeOK'
    BY <1>1 DEF Leave, TypeOK
  <2>2. PipeInv' /\ PlaceInv'
    BY <1>1 DEF Leave, TypeOK, PipeInv, PlaceInv
  <2>3. DoomInv'
    BY <1>1 DEF Leave, TypeOK, DoomInv, Runs
  <2>4. QED
    BY <2>1, <2>2, <2>3
<1>2. ASSUME NEW how \in {"own", "killed"}, End(p, how),
             how = "killed" => p \in doomed
      PROVE  IInv'
  <2>1. TypeOK'
    BY <1>2 DEF End, TypeOK
  <2>2. PipeInv'
    BY <1>2 DEF End, TypeOK, PipeInv
  <2>3. PlaceInv'
    BY <1>2 DEF End, TypeOK, PlaceInv, Processes
  <2>4. DoomInv'
    <3>1. UNCHANGED <<pc, group, doomed, timed_out, returncode, spawn_error>>
      BY <1>2 DEF End
    <3>2. \A q \in Processes : Runs(q)' => Runs(q)
      BY <1>2 DEF End, TypeOK, Runs
    <3>3. end' = "killed" => timed_out
      BY <1>2 DEF End, DoomInv
    <3>4. state[Leader]' \in {"none", "running"} <=> end' = "none"
      <4>1. CASE p = Leader
        BY <1>2, <4>1 DEF End, TypeOK
      <4>2. CASE p # Leader
        BY <1>2, <4>2 DEF End, TypeOK, DoomInv
      <4>3. QED
        BY <4>1, <4>2
    <3>5. pc = "returned" /\ ~spawn_error => end' = end
      BY <1>2 DEF End, PlaceInv
    <3>6. QED
      BY <3>1, <3>2, <3>3, <3>4, <3>5 DEF DoomInv
  <2>5. QED
    BY <2>1, <2>2, <2>3, <2>4
<1>3. CASE Exit(p) \/ Die(p)
  BY <1>2, <1>3 DEF Exit, Die
<1>4. ASSUME NEW q \in Processes, Fork(p, q) PROVE IInv'
  <2>1. TypeOK'
    BY <1>4 DEF Fork, TypeOK
  <2>2. PipeInv'
    BY <1>4 DEF Fork, TypeOK, PipeInv
  <2>3. PlaceInv'
    BY <1>4 DEF Fork, TypeOK, PlaceInv, Runs, Processes
  <2>4. DoomInv'
    BY <1>4 DEF Fork, TypeOK, DoomInv, Runs, Processes
  <2>5. QED
    BY <2>1, <2>2, <2>3, <2>4
<1>5. ASSUME NEW f \in Pipes, Close(p, f) PROVE IInv'
  BY <1>5 DEF Close, TypeOK, PipeInv, PlaceInv, DoomInv, Runs
<1>6. ASSUME NEW f \in Pipes, Write(p, f) PROVE IInv'
  <2>1. TypeOK'
    BY <1>6 DEF Write, processes, TypeOK
  <2>2. PipeInv'
    BY <1>6 DEF Write, processes, TypeOK, PipeInv
  <2>3. PlaceInv' /\ DoomInv'
    BY <1>6 DEF Write, processes, PlaceInv, DoomInv, Runs
  <2>4. QED
    BY <2>1, <2>2, <2>3
<1>7. QED
  BY <1>1, <1>3, <1>4, <1>5, <1>6

\* So does every step of the runner.
LEMMA RunnerStep ==
  ASSUME IInv, Runner \/ Timeout \/ Interrupt
  PROVE  IInv'
<1> USE ExecuteAssumption DEF IInv, result, processes
<1>1. CASE Popen
  <2>1. TypeOK'
    BY <1>1 DEF Popen, TypeOK, Processes
  <2>2. PipeInv' /\ PlaceInv'
    BY <1>1 DEF Popen, TypeOK, PipeInv, PlaceInv, Processes
  <2>3. DoomInv'
    BY <1>1 DEF Popen, TypeOK, PlaceInv, DoomInv, Processes
  <2>4. QED
    BY <2>1, <2>2, <2>3
<1>2. CASE PopenFails
  BY <1>2 DEF PopenFails, TypeOK, PipeInv, PlaceInv, DoomInv, Processes, Runs
<1>3. CASE Reap
  <2>1. TypeOK' /\ PipeInv'
    BY <1>3 DEF Reap, TypeOK, PipeInv
  <2>2. PlaceInv'
    BY <1>3 DEF Reap, Communicating, TypeOK, PlaceInv, Processes
  <2>3. DoomInv'
    BY <1>3 DEF Reap, Communicating, TypeOK, PlaceInv, DoomInv, Processes, Runs
  <2>4. QED
    BY <2>1, <2>2, <2>3
<1>4. CASE KillGroup
  <2>1. TypeOK' /\ PipeInv' /\ PlaceInv'
    BY <1>4 DEF KillGroup, TypeOK, PipeInv, PlaceInv
  <2>2. DoomInv'
    BY <1>4 DEF KillGroup, TypeOK, DoomInv, Runs
  <2>3. QED
    BY <2>1, <2>2
<1>5. ASSUME NEW f \in Pipes, Read(f) PROVE IInv'
  <2>1. captured[f] + pipe[f] = written[f] /\ TypeOK /\ f \in open
    BY <1>5 DEF Read, PipeInv
  <2>2. TypeOK'
    BY <1>5, <2>1 DEF Read, TypeOK
  <2>3. PipeInv'
    BY <1>5, <2>1 DEF Read, TypeOK, PipeInv
  <2>4. PlaceInv' /\ DoomInv'
    BY <1>5 DEF Read, PlaceInv, DoomInv, Runs
  <2>5. QED
    BY <2>2, <2>3, <2>4
<1>6. ASSUME NEW f \in Pipes, EndOfFile(f) PROVE IInv'
  BY <1>6 DEF EndOfFile, Communicating, TypeOK, PipeInv, PlaceInv, DoomInv, Runs
<1>7. CASE Timeout
  BY <1>7 DEF Timeout, TypeOK, PipeInv, PlaceInv, DoomInv, Runs
<1>8. CASE Interrupt
  BY <1>8 DEF Interrupt, TypeOK, PipeInv, PlaceInv, DoomInv, Runs
<1>9. QED
  BY <1>1, <1>2, <1>3, <1>4, <1>5, <1>6, <1>7, <1>8 DEF Runner

\* The inductive invariant, which contains type correctness.
THEOREM ExecuteInvariant == Spec => []IInv
<1>1. ASSUME IInv, [Next]_vars PROVE IInv'
  <2>1. CASE UNCHANGED vars
    BY <1>1, <2>1 DEF vars, processes, result, IInv, TypeOK, PipeInv, PlaceInv, DoomInv, Runs
  <2>2. CASE Next
    BY <1>1, <2>1, <2>2, ProcessStep, RunnerStep DEF Next, Rest
  <2>3. QED
    BY <1>1, <2>1, <2>2
<1>2. QED
  BY <1>1, InvInit, PTL DEF Spec

\* Type correctness, with the invariant that bounds what is captured.
THEOREM ExecuteTypeCorrect == Spec => []TypeOK
<1>1. IInv => TypeOK
  BY DEF IInv
<1>2. QED
  BY <1>1, ExecuteInvariant, PTL

\* All that is ever written is captured (run_baseline.py:149-156).
THEOREM OutputCorrect == Spec => []OutputWhole
<1>1. IInv => OutputWhole
  BY DEF IInv, TypeOK, PipeInv, PlaceInv, OutputWhole
<1>2. QED
  BY <1>1, ExecuteInvariant, PTL

\* A status the runner caused is never recorded without timed_out (run_baseline.py:151).
THEOREM OwnStatusCorrect == Spec => []OwnStatus
<1>1. IInv => OwnStatus
  BY DEF IInv, TypeOK, PlaceInv, DoomInv, OwnStatus
<1>2. QED
  BY <1>1, ExecuteInvariant, PTL

\* Nobody in the group outlives a timeout (run_baseline.py:146, 153).
THEOREM GroupCorrect == Spec => []GroupDies
<1>1. IInv => GroupDies
  BY DEF IInv, DoomInv, GroupDies
<1>2. QED
  BY <1>1, ExecuteInvariant, PTL
==============================================================================
