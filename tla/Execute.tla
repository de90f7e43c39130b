------------------------------- MODULE Execute -------------------------------
(***************************************************************************)
(* execute_process (run_baseline.py:122-199): one command is run in a      *)
(* session of its own, both its pipes are read to their end, and a timeout *)
(* kills its process group.  What Audit takes in one step, Execute, is     *)
(* here with the processes the command starts: they hold the pipes too,    *)
(* outlive it, and leave its group.                                        *)
(***************************************************************************)
EXTENDS Integers

CONSTANTS
  Leader,      \* the command
  Descendants, \* the processes it may start, directly or not
  PipeSize,    \* what a pipe holds before its writers wait
  MaxWritten   \* bound: what is written to one pipe

ASSUME ExecuteAssumption ==
  /\ Leader \notin Descendants
  /\ PipeSize \in Nat \ {0} /\ MaxWritten \in Nat

Processes == {Leader} \cup Descendants
Pipes == {"stdout", "stderr"}

VARIABLES
  state,      \* state[p]: "none", "running", "ended", and "reaped" for the command
  group,      \* group[p]: "own", the command's, or "other"
  holds,      \* holds[p]: the pipes p may write to
  doomed,     \* the processes a SIGKILL is on its way to
  end,        \* how the command ended: "own" way, or "killed" by the runner
  pipe,       \* pipe[f]: what is in it
  written,    \* written[f]: all that was ever written (for the properties)
  pc,         \* where execute_process is
  open,       \* the pipes communicate() has not seen the end of
  captured,   \* captured[f]: what it has read
  timed_out, returncode, spawn_error

processes == <<state, group, holds, doomed, end>>
result == <<timed_out, returncode, spawn_error>>
vars == <<processes, pipe, written, pc, open, captured, result>>

Init ==
  /\ state = [p \in Processes |-> "none"] /\ group = [p \in Processes |-> "own"]
  /\ holds = [p \in Processes |-> {}] /\ doomed = {} /\ end = "none"
  /\ pipe = [f \in Pipes |-> 0] /\ written = [f \in Pipes |-> 0]
  /\ pc = "spawn" /\ open = Pipes /\ captured = [f \in Pipes |-> 0]
  /\ timed_out = FALSE /\ returncode = "none" /\ spawn_error = FALSE

(***************************************************************************)
(* The command and its descendants.                                        *)
(***************************************************************************)

Runs(p) == state[p] = "running" /\ p \notin doomed

\* A fork waits for a signal to the group or is hit by it: the new process is never missed.
Fork(p, q) ==
  /\ Runs(p) /\ state[q] = "none" /\ q # Leader
  /\ state' = [state EXCEPT ![q] = "running"]
  /\ group' = [group EXCEPT ![q] = group[p]]
  /\ holds' = [holds EXCEPT ![q] = holds[p]]
  /\ UNCHANGED <<doomed, end, pipe, written, pc, open, captured, result>>

\* setsid or setpgid: the leader of a session cannot leave its group.
Leave(p) ==
  /\ Runs(p) /\ p # Leader /\ group[p] = "own"
  /\ group' = [group EXCEPT ![p] = "other"]
  /\ UNCHANGED <<state, holds, doomed, end, pipe, written, pc, open, captured, result>>

Close(p, f) ==
  /\ Runs(p) /\ f \in holds[p]
  /\ holds' = [holds EXCEPT ![p] = @ \ {f}]
  /\ UNCHANGED <<state, group, doomed, end, pipe, written, pc, open, captured, result>>

Write(p, f) ==
  /\ Runs(p) /\ f \in holds[p]
  /\ pipe[f] < PipeSize /\ written[f] < MaxWritten /\ pc # "interrupted"
  /\ pipe' = [pipe EXCEPT ![f] = @ + 1]
  /\ written' = [written EXCEPT ![f] = @ + 1]
  /\ UNCHANGED <<processes, pc, open, captured, result>>

End(p, how) ==
  /\ state[p] = "running"
  /\ state' = [state EXCEPT ![p] = "ended"]
  /\ holds' = [holds EXCEPT ![p] = {}]
  /\ end' = IF p = Leader THEN how ELSE end
  /\ UNCHANGED <<group, doomed, pipe, written, pc, open, captured, result>>

Exit(p) == p \notin doomed /\ End(p, "own")
Die(p) == p \in doomed /\ End(p, "killed")

(***************************************************************************)
(* execute_process.                                                        *)
(***************************************************************************)

\* Popen returns once the command has been executed: it is the leader of its session.
Popen ==
  /\ pc = "spawn"
  /\ state' = [state EXCEPT ![Leader] = "running"]
  /\ holds' = [holds EXCEPT ![Leader] = Pipes]
  /\ pc' = "communicate"
  /\ UNCHANGED <<group, doomed, end, pipe, written, open, captured, result>>

PopenFails ==
  /\ pc = "spawn"
  /\ spawn_error' = TRUE /\ pc' = "returned"
  /\ UNCHANGED <<processes, pipe, written, open, captured, timed_out, returncode>>

Communicating == pc \in {"communicate", "collect"}

\* Mutant: what has been read is read once more.
ReadTwice(f) ==
  /\ Communicating /\ f \in open /\ pipe[f] > 0
  /\ captured' = [captured EXCEPT ![f] = @ + pipe[f]]
  /\ UNCHANGED <<processes, pipe, written, pc, open, result>>

\* communicate() reads whichever pipe has something ...
Read(f) ==
  /\ Communicating /\ f \in open /\ pipe[f] > 0
  /\ captured' = [captured EXCEPT ![f] = @ + pipe[f]]
  /\ pipe' = [pipe EXCEPT ![f] = 0]
  /\ UNCHANGED <<processes, written, pc, open, result>>

\* Mutant: a pipe is done with when the command has ended.
ReadUntilExit(f) ==
  /\ Communicating /\ f \in open /\ pipe[f] = 0
  /\ state[Leader] = "ended" \/ \A p \in Processes : f \notin holds[p]
  /\ open' = open \ {f}
  /\ UNCHANGED <<processes, pipe, written, pc, captured, result>>

\* ... until nobody is left who could write to it,
EndOfFile(f) ==
  /\ Communicating /\ f \in open /\ pipe[f] = 0
  /\ \A p \in Processes : f \notin holds[p]
  /\ open' = open \ {f}
  /\ UNCHANGED <<processes, pipe, written, pc, captured, result>>

\* and reaps the command after both, its status becoming the returncode.
Reap ==
  /\ Communicating /\ open = {} /\ state[Leader] = "ended"
  /\ state' = [state EXCEPT ![Leader] = "reaped"]
  /\ returncode' = end /\ pc' = "returned"
  /\ UNCHANGED <<group, holds, doomed, end, pipe, written, open, captured, timed_out, spawn_error>>

\* Mutant: the flag is set nowhere.
TimeoutUnsaid ==
  /\ pc = "communicate"
  /\ open = {} => state[Leader] = "running"
  /\ pc' = "kill"
  /\ UNCHANGED <<processes, pipe, written, open, captured, result>>

\* TimeoutExpired: while the pipes are read at any time, even if all has ended by then;
\* afterwards wait() looks at the command once more before it gives up.
Timeout ==
  /\ pc = "communicate"
  /\ open = {} => state[Leader] = "running"
  /\ timed_out' = TRUE /\ pc' = "kill"
  /\ UNCHANGED <<processes, pipe, written, open, captured, returncode, spawn_error>>

\* Mutant: process.kill().
KillCommand ==
  /\ pc = "kill"
  /\ doomed' = doomed \cup {p \in {Leader} : state[p] = "running"}
  /\ pc' = "collect"
  /\ UNCHANGED <<state, group, holds, end, pipe, written, open, captured, result>>

\* os.killpg(process.pid, SIGKILL); a group that is gone is not an error.
KillGroup ==
  /\ pc = "kill"
  /\ doomed' = doomed \cup {p \in Processes : state[p] = "running" /\ group[p] = "own"}
  /\ pc' = "collect"
  /\ UNCHANGED <<state, group, holds, end, pipe, written, open, captured, result>>

\* Ctrl-C at the runner does not reach the session of the command.
Interrupt ==
  /\ pc \in {"communicate", "kill", "collect"}
  /\ pc' = "interrupted"
  /\ UNCHANGED <<processes, pipe, written, open, captured, result>>

Over == pc \in {"returned", "interrupted"}
Rest == Over /\ UNCHANGED vars

Runner ==
  \/ Popen \/ PopenFails \/ Reap \/ KillGroup
  \/ \E f \in Pipes : Read(f) \/ EndOfFile(f)

Next ==
  \/ \E p \in Processes :
       \/ Leave(p) \/ Exit(p) \/ Die(p)
       \/ \E q \in Processes : Fork(p, q)
       \/ \E f \in Pipes : Close(p, f) \/ Write(p, f)
  \/ Runner \/ Timeout \/ Interrupt \/ Rest

\* The runner goes on, a timeout expires, a killed process dies.  Nothing is asked of
\* the command: it need not end, close or write anything.
Spec ==
  /\ Init /\ [][Next]_vars
  /\ WF_vars(Runner) /\ WF_vars(Timeout)
  /\ \A p \in Processes : WF_vars(Die(p))

(***************************************************************************)
(* Properties.                                                             *)
(***************************************************************************)

TypeOK ==
  /\ state \in [Processes -> {"none", "running", "ended", "reaped"}]
  /\ group \in [Processes -> {"own", "other"}] /\ holds \in [Processes -> SUBSET Pipes]
  /\ doomed \subseteq Processes /\ end \in {"none", "own", "killed"}
  /\ pipe \in [Pipes -> 0..PipeSize] /\ written \in [Pipes -> 0..MaxWritten]
  /\ pc \in {"spawn", "communicate", "kill", "collect", "returned", "interrupted"}
  /\ open \subseteq Pipes /\ captured \in [Pipes -> 0..MaxWritten]
  /\ timed_out \in BOOLEAN /\ returncode \in {"none", "own", "killed"}
  /\ spawn_error \in BOOLEAN

\* The stdout and stderr that are recorded are all that the command and its descendants
\* have ever written or will write, timeout or not: also what comes between the timeout
\* and the kill, and what a descendant writes after the command has ended.
OutputWhole ==
  pc = "returned" /\ ~spawn_error =>
    \A f \in Pipes :
      captured[f] = written[f] /\ \A p \in Processes : f \notin holds[p]

\* A recorded status is one the runner brought about only if timed_out says so: a
\* result without timed_out is the command's own, however close the timeout was.
OwnStatus == pc = "returned" /\ ~timed_out /\ ~spawn_error => returncode = "own"

\* Nothing the command started in its group goes on after a timeout: a process that
\* was forked while the group was being killed is not missed.
GroupDies ==
  timed_out /\ pc \in {"collect", "returned"} =>
    \A p \in Processes : Runs(p) => group[p] = "other"

\* A capture ends, whatever the command does, unless a process that has left its group
\* holds a pipe: the second communicate() has no timeout.
CaptureEnds ==
  <>[](Over \/ \E p \in Processes : group[p] = "other" /\ holds[p] # {})
==============================================================================
