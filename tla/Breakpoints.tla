---------------------------- MODULE Breakpoints ----------------------------
(***************************************************************************)
(* breakpoints.c over the word accesses of ptrace.c: the table of          *)
(* breakpoints, and the traps it plants in the memory of the tracee.       *)
(*                                                                         *)
(* ptrace reads and writes whole words, so that planting or removing a     *)
(* one-byte trap is a read of the word (PTRACE_PEEKDATA), a change of its  *)
(* low byte, and a write of the word (PTRACE_POKEDATA).  The two system    *)
(* calls are two steps here.  PTRACE_TRACEME stops and traces the main     *)
(* thread only: another thread can store to the word between the two, and  *)
(* SIGKILL can end the process between them.                               *)
(*                                                                         *)
(* program and forfeit are history variables.  They record what the        *)
(* program and the user last stored, and the bytes whose contents the      *)
(* debugger cannot answer for; no step reads them to decide anything.      *)
(***************************************************************************)
EXTENDS Integers

CONSTANTS MemSize,   \* the number of addresses of the modelled memory
          WordSize,  \* the bytes of a ptrace word (8 on x86-64)
          Byte,      \* the values of a byte
          INT3,      \* the trap instruction, 0xcc
          ZeroByte,  \* orig_data of an entry nobody has set yet
          Readable,  \* the addresses PTRACE_PEEKDATA can read
          Writable   \* the addresses PTRACE_POKEDATA can write

Addr == 0 .. (MemSize - 1)

ASSUME SizesAssumption ==
  /\ MemSize \in Nat \ {0}
  /\ WordSize \in Nat \ {0}

ASSUME BytesAssumption ==
  /\ INT3 \in Byte
  /\ ZeroByte \in Byte

\* What can be written can be read, and both lie in memory.
ASSUME MappingAssumption ==
  /\ Readable \subseteq Addr
  /\ Writable \subseteq Readable

VARIABLES mem,      \* the bytes of the tracee
          alive,    \* the tracee has not died
          entries,  \* the keys of the hash map
          table,    \* its values: is_enabled and orig_data
          op,       \* the operation between its read and its write
          res,      \* the SprayResult of the last operation
          program,  \* history: the bytes last stored by program or user
          forfeit   \* history: bytes with no promise left

vars == <<mem, alive, entries, table, op, res, program, forfeit>>

Word == [0 .. (WordSize - 1) -> Byte]
Window(a) == a .. (a + WordSize - 1)

Idle == [kind |-> "idle"]
Operation == [kind : {"enable", "disable"}, addr : Addr, word : Word, raced : SUBSET Addr]
Entry == [is_enabled : BOOLEAN, orig_data : Byte]

-----------------------------------------------------------------------------
(* ptrace.c *)

CanPeek(a) == alive /\ Window(a) \subseteq Readable
CanPoke(a) == alive /\ Window(a) \subseteq Writable

\* Mutants of ReadWord: one byte too many, and the word of the next address.
ReadWordNext(a) == [i \in 0 .. (WordSize - 1) |-> mem[(a + i + 1) % MemSize]]
ReadWordLong(a) == [i \in 0 .. WordSize |-> IF a + i \in Addr THEN mem[a + i] ELSE ZeroByte]

ReadWord(a) == [i \in 0 .. (WordSize - 1) |-> mem[a + i]]
Poked(a, w) == [b \in Addr |-> IF b \in Window(a) THEN w[b - a] ELSE mem[b]]

\* Mutants of WithLowByte: the mask that keeps the other bytes is lost, and
\* the trap goes to the wrong end of the word.
OnlyLowByte(w, byte) == [i \in DOMAIN w |-> IF i = 0 THEN byte ELSE ZeroByte]
WithHighByte(w, byte) == [w EXCEPT ![WordSize - 1] = byte]

\* x86 is little endian: the low byte of a word is at its address.
WithLowByte(w, byte) == [w EXCEPT ![0] = byte]

-----------------------------------------------------------------------------
(* breakpoints.c *)

\* lookup_breakpoint: does an enabled breakpoint exist at a?
Lookup(a) == a \in entries /\ table[a].is_enabled

Armed == {a \in Addr : Lookup(a)}

Init == /\ mem \in [Addr -> Byte]
        /\ alive = TRUE
        /\ entries = {}
        /\ table = [a \in Addr |-> [is_enabled |-> FALSE, orig_data |-> ZeroByte]]
        /\ op = Idle
        /\ res = "SP_OK"
        /\ program = mem
        /\ forfeit = {}

Return(r) == op' = Idle /\ res' = r

\* hashmap_set of a fresh, disabled entry if there is none.
CreateEntry(a) ==
  /\ entries' = entries \union {a}
  /\ table' = IF a \in entries THEN table
              ELSE [table EXCEPT ![a] = [is_enabled |-> FALSE, orig_data |-> ZeroByte]]

\* Mutant of EnableRead: an enabled breakpoint is enabled again, and saves the
\* trap as the original byte.
EnableReadAgain(a) ==
  /\ op = Idle
  /\ CreateEntry(a)
  /\ \/ ~CanPeek(a) /\ Return("SP_ERR")
     \/ /\ CanPeek(a)
        /\ op' = [kind |-> "enable", addr |-> a, word |-> ReadWord(a), raced |-> {}]
        /\ UNCHANGED res
  /\ UNCHANGED <<mem, alive, program, forfeit>>

\* enable_breakpoint up to its read: create the entry if there is none, and
\* read the word unless the breakpoint is enabled already.
EnableRead(a) ==
  /\ op = Idle
  /\ CreateEntry(a)
  /\ \/ Lookup(a) /\ Return("SP_OK")
     \/ ~Lookup(a) /\ ~CanPeek(a) /\ Return("SP_ERR")
     \/ /\ ~Lookup(a) /\ CanPeek(a)
        /\ op' = [kind |-> "enable", addr |-> a, word |-> ReadWord(a), raced |-> {}]
        /\ UNCHANGED res
  /\ UNCHANGED <<mem, alive, program, forfeit>>

\* The rest of it: write the trap, and update the entry only if that worked.
EnableWrite ==
  /\ op.kind = "enable"
  /\ \/ /\ CanPoke(op.addr)
        /\ mem' = Poked(op.addr, WithLowByte(op.word, INT3))
        /\ table' = [table EXCEPT ![op.addr] =
                       [is_enabled |-> TRUE, orig_data |-> op.word[0]]]
        /\ forfeit' = forfeit \union op.raced
        /\ Return("SP_OK")
     \/ /\ ~CanPoke(op.addr)
        /\ Return("SP_ERR")
        /\ UNCHANGED <<mem, table, forfeit>>
  /\ UNCHANGED <<alive, entries, program>>

\* disable_breakpoint up to its read: nothing to do without an enabled entry.
DisableRead(a) ==
  /\ op = Idle
  /\ \/ ~Lookup(a) /\ Return("SP_OK")
     \/ Lookup(a) /\ ~CanPeek(a) /\ Return("SP_ERR")
     \/ /\ Lookup(a) /\ CanPeek(a)
        /\ op' = [kind |-> "disable", addr |-> a, word |-> ReadWord(a), raced |-> {}]
        /\ UNCHANGED res
  /\ UNCHANGED <<mem, alive, entries, table, program, forfeit>>

\* Mutant of DisableWrite: the entry is marked disabled before the write, and
\* stays so when the write fails.
DisableWriteEarly ==
  /\ op.kind = "disable"
  /\ table' = [table EXCEPT ![op.addr].is_enabled = FALSE]
  /\ \/ /\ CanPoke(op.addr)
        /\ mem' = Poked(op.addr, WithLowByte(op.word, table[op.addr].orig_data))
        /\ forfeit' = forfeit \union op.raced
        /\ Return("SP_OK")
     \/ /\ ~CanPoke(op.addr)
        /\ Return("SP_ERR")
        /\ UNCHANGED <<mem, forfeit>>
  /\ UNCHANGED <<alive, entries, program>>

\* The rest of it: write the saved byte back, then mark the entry disabled.
DisableWrite ==
  /\ op.kind = "disable"
  /\ \/ /\ CanPoke(op.addr)
        /\ mem' = Poked(op.addr, WithLowByte(op.word, table[op.addr].orig_data))
        /\ table' = [table EXCEPT ![op.addr].is_enabled = FALSE]
        /\ forfeit' = forfeit \union op.raced
        /\ Return("SP_OK")
     \/ /\ ~CanPoke(op.addr)
        /\ Return("SP_ERR")
        /\ UNCHANGED <<mem, table, forfeit>>
  /\ UNCHANGED <<alive, entries, program>>

-----------------------------------------------------------------------------
(* Who else stores to the memory of the tracee *)

\* Someone stores the bytes new to the addresses S.
Stored(S, new) ==
  /\ mem' = [b \in Addr |-> IF b \in S THEN new[b] ELSE mem[b]]
  /\ program' = [b \in Addr |-> IF b \in S THEN new[b] ELSE program[b]]
  /\ forfeit' = (forfeit \ S) \union (S \intersect Armed)

\* exec_set_memory: the `set <address> <value>' command writes a whole word
\* and never looks at the table.
SetMemory(a, w) ==
  /\ op = Idle
  /\ \/ /\ CanPoke(a)
        /\ Stored(Window(a), [b \in Window(a) |-> w[b - a]])
        /\ res' = "SP_OK"
     \/ /\ ~CanPoke(a)
        /\ res' = "SP_ERR"
        /\ UNCHANGED <<mem, program, forfeit>>
  /\ UNCHANGED <<alive, entries, table, op>>

\* The tracee stores a byte: its main thread between two operations, another
\* thread at any time.
TraceeStore(a, byte) ==
  /\ alive
  /\ a \in Writable
  /\ Stored({a}, [b \in {a} |-> byte])
  /\ op' = IF op = Idle THEN op
           ELSE [op EXCEPT !.raced = @ \union ({a} \intersect Window(op.addr))]
  /\ UNCHANGED <<alive, entries, table, res>>

\* The tracee calls execve: a new image, and a table that was made for the old.
TraceeExec(image) ==
  /\ alive
  /\ op = Idle
  /\ mem' = image
  /\ program' = image
  /\ forfeit' = Armed
  /\ UNCHANGED <<alive, entries, table, op, res>>

TraceeDies ==
  /\ alive
  /\ alive' = FALSE
  /\ UNCHANGED <<mem, entries, table, op, res, program, forfeit>>

Next == \/ \E a \in Addr : EnableRead(a) \/ DisableRead(a)
        \/ EnableWrite
        \/ DisableWrite
        \/ \E a \in Addr, w \in Word : SetMemory(a, w)
        \/ \E a \in Addr, byte \in Byte : TraceeStore(a, byte)
        \/ \E image \in [Addr -> Byte] : TraceeExec(image)
        \/ TraceeDies

Spec == Init /\ [][Next]_vars

-----------------------------------------------------------------------------
(* Properties *)

\* Every variable has its type.
TypeOK ==
  /\ mem \in [Addr -> Byte]
  /\ alive \in BOOLEAN
  /\ entries \in SUBSET Addr
  /\ table \in [Addr -> Entry]
  /\ op \in {Idle} \union Operation
  /\ res \in {"SP_OK", "SP_ERR"}
  /\ program \in [Addr -> Byte]
  /\ forfeit \in SUBSET Addr

\* The tracee sees a trap at each armed address and its own byte elsewhere,
\* and the byte saved for the restore is the program's: whatever the order of
\* enables, disables, failures, stores and the death of the tracee, outside
\* the forfeit bytes (enable_breakpoint and disable_breakpoint).
TrapsCoherent ==
  \A a \in Addr \ forfeit :
    /\ mem[a] = IF a \in Armed THEN INT3 ELSE program[a]
    /\ a \in Armed => table[a].orig_data = program[a]

\* Between its read and its write an operation holds the word as it still is
\* in memory, except for the bytes that raced with it, and the entry is in the
\* state its check found it in.  Re-enabling an enabled breakpoint, or reading
\* another word than the one written, breaks this (enable_breakpoint and
\* disable_breakpoint).
ReadStaysFresh ==
  op # Idle =>
    /\ Window(op.addr) \subseteq Addr
    /\ op.raced \subseteq Window(op.addr)
    /\ \A b \in Window(op.addr) \ op.raced : mem[b] = op.word[b - op.addr]
    /\ op.addr \in entries
    /\ Lookup(op.addr) <=> op.kind = "disable"

\* A breakpoint operation changes no byte but the one at its address, though
\* it writes the whole word, except for bytes that raced with it
\* (pt_write_memory in enable_breakpoint and disable_breakpoint).
NeighboursKept ==
  [][(EnableWrite \/ DisableWrite) =>
       \A b \in Addr : mem'[b] # mem[b] => b \in {op.addr} \union op.raced]_vars

\* An operation that returns SP_ERR leaves the tracee's memory untouched, and
\* lookup_breakpoint answers as it did before the call (the error contracts of
\* enable_breakpoint and disable_breakpoint in breakpoints.h).
ErrorChangesNothing ==
  [][(op # Idle /\ op' = Idle /\ res' = "SP_ERR") => UNCHANGED mem /\ Armed' = Armed]_vars

\* The table and the memory together implement a plain set of traps laid over
\* the program.
Overlay == INSTANCE TrapOverlay WITH view <- mem, armed <- Armed
RefinesOverlay == Overlay!Spec

\* breakpoints.h on enable_breakpoint: the child receives SIGTRAP once the
\* instruction at the address is reached.  So a breakpoint that
\* lookup_breakpoint reports is a trap in memory.
LookupMeansTrap == alive => \A a \in Addr : Lookup(a) => mem[a] = INT3

=============================================================================
