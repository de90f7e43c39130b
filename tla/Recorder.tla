------------------------------- MODULE Recorder -------------------------------
(***************************************************************************)
(* What ft_strace promises: a synchronous record of a program.  The program *)
(* makes no new move before its last one is written down, and what is       *)
(* written is exactly what happened, in order.  The program may be killed   *)
(* at any moment; its last move may then stay unrecorded.                   *)
(***************************************************************************)
EXTENDS Sequences, Naturals

CONSTANT Move

VARIABLES
  moves,   \* what the program has done
  lines,   \* what the record shows
  over     \* nothing more will happen to the program

vars == <<moves, lines, over>>

TypeOK == moves \in Seq(Move) /\ lines \in Seq(Move) /\ over \in BOOLEAN

Init == moves = <<>> /\ lines = <<>> /\ over = FALSE

\* The program moves, having been recorded up to now.
Happen(m) ==
  /\ ~over /\ lines = moves
  /\ moves' = Append(moves, m)
  /\ UNCHANGED <<lines, over>>

\* The one move that is missing is written down.
Record ==
  /\ Len(lines) < Len(moves)
  /\ lines' = Append(lines, moves[Len(lines) + 1])
  /\ UNCHANGED <<moves, over>>

Finish == ~over /\ over' = TRUE /\ UNCHANGED <<moves, lines>>

Next == (\E m \in Move : Happen(m)) \/ Record \/ Finish

Spec == Init /\ [][Next]_vars
==============================================================================
