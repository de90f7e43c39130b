------------------------------- MODULE MCStrace -------------------------------
(***************************************************************************)
(* The small program the runs of Strace trace, with the tables ft_strace   *)
(* looks its calls up in.                                                  *)
(***************************************************************************)
EXTENDS Strace, Tables

(* Number  x86-64                        i386
     1     write(int, input, int)        exit(int)
    11     munmap(int, int)              execve(string, vector, int)
    17     pread64(int, output, int, int)  no row
    59     execve(string, vector, int)   oldolduname(int)
   so that decoding a call with the other ABI's table always shows. *)
MCNr == {1, 11, 17, 59}
MCKind ==
  [a \in Abis |-> [n \in MCNr |-> IF <<a, n>> \in {<<64, 59>>, <<32, 11>>} THEN "exec"
                                  ELSE IF <<a, n>> = <<32, 1>> THEN "exit"
                                  ELSE "plain"]]

(* A program of one ABI that only reads and exits, and one that executes another
   program and exits. *)
PlainNr == {0, 60}
PlainKind == [a \in Abis |-> [n \in PlainNr |-> IF n = 0 THEN "plain" ELSE "exit"]]
StartNr == {59, 60}
StartKind == [a \in Abis |-> [n \in StartNr |-> IF n = 59 THEN "exec" ELSE "exit"]]
==============================================================================
