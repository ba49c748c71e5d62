------------------------------- MODULE Tracee -------------------------------
(***************************************************************************)
(* The process under the debugger, as the kernel and the processor run it  *)
(* and as ptrace.c and waitpid let spray see it.  Nothing of this is code  *)
(* of the repository but the four wrappers of ptrace.c at the end; it is   *)
(* the environment the debugger's code is written against.                 *)
(*                                                                         *)
(* A program is a record:                                                  *)
(*   code    the instructions, by address; `mid' is the second byte of an  *)
(*           instruction of two bytes                                      *)
(*   start   the address the process starts at                             *)
(*   loops   how often its conditional jumps and calls are taken           *)
(* and the debug information of LineTable (units, symbols, subprograms)    *)
(* with the address it is loaded at (load).  Address 0 is never mapped.    *)
(*                                                                         *)
(* armed is the memory's half of the breakpoints: the addresses whose byte *)
(* is the trap.  That it is the table's half as well is what Breakpoints   *)
(* shows.                                                                  *)
(***************************************************************************)
EXTENDS Integers, Sequences, SequencesExt

CONSTANTS Programs,   \* the programs that may be debugged
          MaxWinch,   \* SIGWINCHs sent to the process, at most
          MaxOther,   \* other signals sent to it, at most
          MayBeKilled \* whether SIGKILL may be sent to it

\* The instructions the processor knows here.
Ops == {"plain", "mid", "exit", "int3", "syscall", "prologue", "call", "callif",
        "jump", "loop", "ret"}

ASSUME ProgramsAssumption ==
  \A p \in Programs : \A a \in DOMAIN p.code : a \in Nat \ {0} /\ p.code[a].op \in Ops

VARIABLES prog,     \* the program
          cpu,      \* its registers and stack: pc, rets, fp, taken
          mode,     \* stopped, cont, step, gone (a zombie), reaped
          event,    \* what waitpid will report next
          pending,  \* the signals waiting to be delivered
          sent,     \* how many signals were sent so far
          armed,    \* the addresses that hold a trap
          flow      \* history: where the program itself would be

traceeVars == <<prog, cpu, mode, event, pending, sent, armed, flow>>

NullAddr == 0
Mapped == DOMAIN prog.code
Alive == mode \in {"stopped", "cont", "step"}
Running == mode \in {"cont", "step"}

TraceeInit ==
  /\ prog \in Programs
  /\ cpu = [pc |-> prog.start, rets |-> <<>>, fp |-> 0, taken |-> 0]
  /\ mode = "stopped"
  /\ event = "none"
  /\ pending = {}
  /\ sent = [winch |-> 0, other |-> 0]
  /\ armed = {}
  /\ flow = prog.start

\* The registers after the instruction at the program counter has run.
\* fp counts the frame the frame pointer refers to: a call pushes a return
\* address and leaves it alone, the prologue links the new frame.
Executed ==
  LET instr == prog.code[cpu.pc]
      next == [cpu EXCEPT !.pc = @ + 1]
      called == [cpu EXCEPT !.pc = instr.to, !.rets = Append(@, cpu.pc + 1)]
      take(c) == [c EXCEPT !.taken = @ + 1]
  IN  CASE instr.op \in {"plain", "mid", "exit", "int3"} -> next
        [] instr.op = "syscall" -> [cpu EXCEPT !.pc = @ + 2]
        [] instr.op = "prologue" -> [next EXCEPT !.fp = Len(cpu.rets)]
        [] instr.op = "call" -> called
        [] instr.op = "jump" -> [cpu EXCEPT !.pc = instr.to]
        [] instr.op = "callif" -> IF cpu.taken < prog.loops THEN take(called) ELSE next
        [] instr.op = "loop" -> IF cpu.taken < prog.loops THEN take([cpu EXCEPT !.pc = instr.to])
                                ELSE next
        [] instr.op = "ret" -> [cpu EXCEPT !.pc = Last(cpu.rets), !.rets = Front(@),
                                           !.fp = Len(cpu.rets) - 1]

\* A pending signal stops the traced process before its next instruction.
SignalStop ==
  /\ Running
  /\ \E s \in pending :
       /\ pending' = pending \ {s}
       /\ event' = s
  /\ mode' = "stopped"
  /\ UNCHANGED <<prog, cpu, sent, armed, flow>>

\* The processor executes a trap: SIGTRAP with SI_KERNEL, one byte further.
TrapStop ==
  /\ Running
  /\ pending = {}
  /\ cpu.pc \in armed
  /\ cpu' = [cpu EXCEPT !.pc = @ + 1]
  /\ event' = "trap"
  /\ mode' = "stopped"
  /\ UNCHANGED <<prog, pending, sent, armed, flow>>

\* The processor executes an instruction of the program, whose outermost
\* function does not return.  A single step ends in SIGTRAP with TRAP_TRACE,
\* that of a system call in SIGTRAP with TRAP_BRKPT, and the program's own int3
\* in SIGTRAP with SI_KERNEL.
Execute ==
  /\ Running
  /\ pending = {}
  /\ cpu.pc \in Mapped \ armed
  /\ prog.code[cpu.pc].op = "ret" => cpu.rets # <<>>
  /\ cpu' = Executed
  /\ flow' = Executed.pc
  /\ LET op == prog.code[cpu.pc].op
         stop(e) == event' = e /\ mode' = "stopped"
     IN  \/ op = "exit" /\ event' = "exited" /\ mode' = "gone"
         \/ op = "int3" /\ stop("trap")
         \/ op = "syscall" /\ mode = "step" /\ stop("syscall_step")
         \/ op \notin {"exit", "int3", "syscall"} /\ mode = "step" /\ stop("step")
         \/ op \notin {"exit", "int3"} /\ mode = "cont" /\ UNCHANGED <<event, mode>>
  /\ UNCHANGED <<prog, pending, sent, armed>>

\* Someone sends a signal to the process.
Signal(s) ==
  /\ Alive
  /\ s \notin pending
  /\ sent[s] < (IF s = "winch" THEN MaxWinch ELSE MaxOther)
  /\ sent' = [sent EXCEPT ![s] = @ + 1]
  /\ pending' = pending \union {s}
  /\ UNCHANGED <<prog, cpu, mode, event, armed, flow>>

\* SIGKILL cannot be held back by a stop.
Kill ==
  /\ MayBeKilled
  /\ Alive
  /\ mode' = "gone"
  /\ event' = "killed"
  /\ UNCHANGED <<prog, cpu, pending, sent, armed, flow>>

-----------------------------------------------------------------------------
(* ptrace.c *)

\* get_pc: 0 when the registers of the process cannot be read.
GetPc == IF Alive THEN cpu.pc ELSE NullAddr

\* The word behind the frame pointer, the return address of its frame; 0 when
\* it cannot be read.
ReturnAddress == IF cpu.fp > 0 THEN cpu.rets[cpu.fp] ELSE NullAddr

\* pt_continue_execution and pt_single_step: ESRCH when the process is dead.
PtContinue == mode' = IF Alive THEN "cont" ELSE mode
PtSingleStep == mode' = IF Alive THEN "step" ELSE mode

=============================================================================
