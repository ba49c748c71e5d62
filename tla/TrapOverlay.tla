---------------------------- MODULE TrapOverlay ----------------------------
(***************************************************************************)
(* What breakpoints.h promises, without the hash map, the entries and the  *)
(* word-sized ptrace accesses that implement it: a set of armed addresses  *)
(* laid over the bytes of the program.  The tracee sees the trap           *)
(* instruction at an armed address and the program's own byte everywhere   *)
(* else.                                                                   *)
(*                                                                         *)
(* The promise has an edge, and the edge is part of the specification.     *)
(* A byte is `forfeit' when someone other than the breakpoint operations   *)
(* stored to it while a trap covered it, when a store to it raced with the *)
(* read and the write of one breakpoint operation, or when execve replaced *)
(* the memory under a trap.  About a forfeit byte nothing is promised.     *)
(***************************************************************************)

CONSTANTS Addr,      \* the addresses of the tracee's memory
          Byte,      \* the values of one byte
          INT3,      \* the byte of the trap instruction
          Window(_)  \* the addresses of the word that starts at an address

VARIABLES view,      \* the bytes the tracee executes and the user reads
          program,   \* the bytes last stored by the program or the user
          armed,     \* the addresses under a trap
          forfeit    \* the addresses about which nothing is promised

vars == <<view, program, armed, forfeit>>

\* The byte the tracee is promised to see at a.
Promised(a) == IF a \in armed THEN INT3 ELSE program[a]

Coherent == \A a \in Addr \ forfeit : view[a] = Promised(a)

Init == /\ view = program
        /\ program \in [Addr -> Byte]
        /\ armed = {}
        /\ forfeit = {}

\* Arm a trap.  Stores that raced into the same word may be lost with it.
Arm(a) == /\ a \notin armed
          /\ armed' = armed \union {a}
          /\ \E lost \in SUBSET Window(a) : forfeit' = forfeit \union lost
          /\ UNCHANGED program

\* Remove a trap, with the same reservation.
Disarm(a) == /\ a \in armed
             /\ armed' = armed \ {a}
             /\ \E lost \in SUBSET Window(a) : forfeit' = forfeit \union lost
             /\ UNCHANGED program

\* The program or the user stores to the bytes S: those under a trap are
\* forfeit, the others are as good as new.
Store(S) == /\ \E new \in [S -> Byte] :
                 program' = [a \in Addr |-> IF a \in S THEN new[a] ELSE program[a]]
            /\ forfeit' = (forfeit \ S) \union (S \intersect armed)
            /\ UNCHANGED armed

\* The tracee replaces its whole image.
Replace == /\ program' \in [Addr -> Byte]
           /\ forfeit' = armed
           /\ UNCHANGED armed

\* Every step leaves the view as promised.
Next == /\ \/ \E a \in Addr : Arm(a) \/ Disarm(a)
           \/ \E S \in SUBSET Addr : Store(S)
           \/ Replace
        /\ view' \in [Addr -> Byte]
        /\ Coherent'

Spec == Init /\ [][Next]_vars

=============================================================================
