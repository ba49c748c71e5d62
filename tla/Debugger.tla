------------------------------ MODULE Debugger ------------------------------
(***************************************************************************)
(* debugger.c: the commands that run the tracee, and the read-eval-print   *)
(* loop that issues them.                                                  *)
(*                                                                         *)
(* The debugger is one thread that blocks in waitpid deep inside nested    *)
(* calls: continue_execution calls single_step_breakpoint, which calls     *)
(* wait_for_signal, which on SIGWINCH calls continue_execution again.  ctl *)
(* is that call stack, innermost first: what is left to do in each         *)
(* function when the call above it returns ret.  The code between two      *)
(* returns of waitpid, or between a return and the next call, is one step. *)
(* The process runs, and signals and SIGKILL arrive, between these steps.  *)
(*                                                                         *)
(* user and last are history variables.                                    *)
(***************************************************************************)
EXTENDS Tracee, LineTable

CONSTANTS Locations,  \* what the user names to break and delete
          StepLimit   \* SINGLE_STEP_SEARCH_LIMIT of magic.h

ASSUME StepLimitAssumption == StepLimit \in Nat \ {0}

VARIABLES phase,  \* setup, repl, finished (spray has ended), aborted (assert)
          ctl,    \* the call stack, below it the loop
          ret,    \* what the innermost call returned, or none
          user,   \* history: the breakpoints the user set and did not delete
          last    \* history: the last command and what happened during it

debuggerVars == <<phase, ctl, ret, user, last>>
vars == <<traceeVars, debuggerVars>>

\* Activation records.
Wait == [fn |-> "wait_for_signal"]
Winch == [fn |-> "wait_for_signal_winch"]
Continue == [fn |-> "continue_execution"]
StepBreakpoint(a) == [fn |-> "single_step_breakpoint", addr |-> a]
StepInstruction == [fn |-> "single_step_instruction"]
StepLine(l, n) == [fn |-> "single_step_line", line |-> l, steps |-> n]
ExecContinue == [fn |-> "exec_continue"]
RunTo(dels) == [fn |-> "step_over_run", dels |-> dels]
CleanUp(dels) == [fn |-> "step_over_done", dels |-> dels]
RunMain(dels) == [fn |-> "run_debugger_run", dels |-> dels]
MainReached(dels) == [fn |-> "run_debugger_done", dels |-> dels]

AtPrompt == phase = "repl" /\ ctl = <<>>

-----------------------------------------------------------------------------
(* breakpoints.c as Breakpoints proves it, and addresses *)

\* Mutant of Enabled: a failed write is taken for a success.
EnabledAnywhere(A, S) == IF Alive THEN A \union S ELSE A

\* enable_breakpoint and disable_breakpoint on the set A of enabled
\* breakpoints; both fail, and change nothing, on a dead or unmapped target.
Enabled(A, S) == IF Alive THEN A \union (S \intersect Mapped) ELSE A
Disabled(A, S) == IF Alive THEN A \ S ELSE A

\* get_dbg_pc and dbg_to_real
DbgPc == GetPc - prog.load
ToReal(a) == a + prog.load

\* callback__set_dwarf_line_breakpoint subtracts the load address.
RowToReal(a) == a - prog.load

\* addr_position of the program counter, tabulated for the places where it can be.
DbgPcs(p) == {0 - p.load} \union UNION {{a - p.load, a + 1 - p.load} : a \in DOMAIN p.code}
Positions ==
  [p \in Programs |-> [pc \in DbgPcs(p) |-> Position(p.units, p.symbols, pc)]]
CurrentPosition ==
  IF DbgPc \in DOMAIN Positions[prog] THEN Positions[prog][DbgPc]
  ELSE Position(prog.units, prog.symbols, DbgPc)

-----------------------------------------------------------------------------
(* Calls: each takes the set A of enabled breakpoints and the rest k of the *)
(* call stack, and decides armed, mode, ctl and ret                         *)

\* single_step_breakpoint on an enabled breakpoint, up to waitpid.
CallStepBreakpoint(A, k) ==
  /\ armed' = Disabled(A, {GetPc})
  /\ PtSingleStep
  /\ ctl' = <<Wait, StepBreakpoint(GetPc)>> \o k
  /\ ret' = "none"

\* The end of continue_execution.
CallPtContinue(A, k) ==
  /\ armed' = A
  /\ PtContinue
  /\ ctl' = k
  /\ ret' = IF Alive THEN "SP_OK" ELSE "SP_ERR"

\* Mutant of CallContinue: the breakpoint at the program counter stays armed.
CallContinueStuck(A, k) == CallPtContinue(A, k)

\* continue_execution
CallContinue(A, k) ==
  \/ GetPc \in A /\ CallStepBreakpoint(A, <<Continue>> \o k)
  \/ GetPc \notin A /\ CallPtContinue(A, k)

\* single_step_instruction
CallStepInstruction(A, k) ==
  \/ GetPc \in A /\ CallStepBreakpoint(A, <<StepInstruction>> \o k)
  \/ /\ GetPc \notin A
     /\ armed' = A
     /\ PtSingleStep
     /\ ctl' = <<Wait>> \o k
     /\ ret' = "none"

-----------------------------------------------------------------------------
(* wait_for_signal *)

Return(r) == ret' = r /\ ctl' = Tail(ctl)

Waiting == ctl # <<>> /\ Head(ctl) = Wait

\* The process exited or was killed.
WaitDeath ==
  /\ Waiting
  /\ event \in {"exited", "killed"}
  /\ mode' = "reaped"
  /\ event' = "none"
  /\ Return("SP_ERR")
  /\ UNCHANGED <<prog, cpu, pending, sent, armed, flow, phase, user, last>>

\* Mutant of RewoundPc: the program counter stays behind the trap.
UnmovedPc == cpu.pc

\* handle_sigtrap: SI_KERNEL and TRAP_BRKPT are taken for a breakpoint.
RewoundPc == IF event \in {"trap", "syscall_step"} THEN cpu.pc - 1 ELSE cpu.pc

WaitSigtrap ==
  /\ Waiting
  /\ event \in {"trap", "step", "syscall_step"}
  /\ cpu' = [cpu EXCEPT !.pc = RewoundPc]
  /\ event' = "none"
  /\ Return("SP_OK")
  /\ last' = [last EXCEPT !.odd =
                @ \/ event = "syscall_step" \/ (event = "trap" /\ cpu.pc - 1 \notin armed)]
  /\ UNCHANGED <<prog, mode, pending, sent, armed, flow, phase, user>>

\* Any other signal is reported; the next PTRACE_CONT will not deliver it.
WaitOther ==
  /\ Waiting
  /\ event = "other"
  /\ event' = "none"
  /\ Return("SP_OK")
  /\ last' = [last EXCEPT !.signalled = TRUE]
  /\ UNCHANGED <<prog, cpu, mode, pending, sent, armed, flow, phase, user>>

\* SIGWINCH: continue at once, whoever waits, and wait again.
WaitWinch ==
  /\ Waiting
  /\ event = "winch"
  /\ event' = "none"
  /\ CallContinue(armed, <<Winch>> \o Tail(ctl))
  /\ last' = [last EXCEPT !.winched = TRUE]
  /\ UNCHANGED <<prog, cpu, pending, sent, flow, phase, user>>

\* SIGKILL between waitpid and PTRACE_GETSIGINFO, or between that and the
\* accesses of handle_sigtrap: they fail unseen, and SP_OK is returned.
WaitKilled ==
  /\ Waiting
  /\ MayBeKilled
  /\ event \in {"trap", "step", "syscall_step", "other"}
  /\ mode' = "gone"
  /\ event' = "killed"
  /\ Return("SP_OK")
  /\ UNCHANGED <<prog, cpu, pending, sent, armed, flow, phase, user, last>>

\* There is no process to wait for: waitpid fails, and wait_status is read
\* uninitialised.
WaitNobody ==
  /\ Waiting
  /\ mode = "reaped"
  /\ \E r \in {"SP_OK", "SP_ERR"} : Return(r)
  /\ UNCHANGED <<traceeVars, phase, user, last>>

WaitForSignal ==
  WaitDeath \/ WaitSigtrap \/ WaitOther \/ WaitWinch \/ WaitKilled \/ WaitNobody

-----------------------------------------------------------------------------
(* What each function does when the call above it returns *)

Returned(fn) == ctl # <<>> /\ ret # "none" /\ Head(ctl).fn = fn

\* The part of the state that no return touches.
Untouched == <<prog, cpu, event, pending, sent, flow, user, last>>

\* wait_for_signal again, then the rest k.
WaitThen(k) == ctl' = <<Wait>> \o k /\ ret' = "none" /\ UNCHANGED <<armed, mode>>

\* Mutant of WinchReturns: nobody waits for the next signal.
WinchReturnsAtOnce ==
  /\ Returned("wait_for_signal_winch")
  /\ Return("SP_OK")
  /\ UNCHANGED <<Untouched, armed, mode, phase>>

WinchReturns ==
  /\ Returned("wait_for_signal_winch")
  /\ WaitThen(Tail(ctl))
  /\ UNCHANGED <<Untouched, phase>>

\* Mutant of StepBreakpointReturns: the breakpoint is not enabled again.
StepBreakpointForgets ==
  /\ Returned("single_step_breakpoint")
  /\ Return(ret)
  /\ UNCHANGED <<Untouched, armed, mode, phase>>

\* single_step_breakpoint enables the breakpoint again, whatever happened.
StepBreakpointReturns ==
  /\ Returned("single_step_breakpoint")
  /\ armed' = Enabled(armed, {Head(ctl).addr})
  /\ Return(ret)
  /\ UNCHANGED <<Untouched, mode, phase>>

\* continue_execution ignores what single_step_breakpoint returned.
ContinueReturns ==
  /\ Returned("continue_execution")
  /\ CallPtContinue(armed, Tail(ctl))
  /\ UNCHANGED <<Untouched, phase>>

\* single_step_instruction, too.
StepInstructionReturns ==
  /\ Returned("single_step_instruction")
  /\ Return("SP_OK")
  /\ UNCHANGED <<Untouched, armed, mode, phase>>

ExecContinueReturns ==
  /\ Returned("exec_continue")
  /\ \/ ret = "SP_OK" /\ WaitThen(Tail(ctl))
     \/ ret = "SP_ERR" /\ Return(ret) /\ UNCHANGED <<armed, mode>>
  /\ UNCHANGED <<Untouched, phase>>

\* Mutant of StepLineReturns: n_instruction_steps is not incremented.
StepLineUncounted ==
  /\ Returned("single_step_line")
  /\ \/ /\ ret = "SP_ERR" \/ ~CurrentPosition.ok
        /\ Return("SP_ERR")
        /\ UNCHANGED <<armed, mode>>
     \/ /\ ret = "SP_OK" /\ CurrentPosition.ok
        /\ IF CurrentPosition.exact /\ CurrentPosition.ln # Head(ctl).line
           THEN Return("SP_OK") /\ UNCHANGED <<armed, mode>>
           ELSE CallStepInstruction(armed, ctl)
  /\ UNCHANGED <<Untouched, phase>>

\* The loop of single_step_line, after one more instruction.
StepLineReturns ==
  /\ Returned("single_step_line")
  /\ LET pos == CurrentPosition
         line == Head(ctl).line
         steps == Head(ctl).steps + 1
         there == pos.exact /\ pos.ln # line
     IN  \/ /\ ret = "SP_ERR" \/ ~pos.ok \/ steps >= StepLimit
            /\ Return("SP_ERR")
            /\ UNCHANGED <<armed, mode>>
         \/ /\ ret = "SP_OK" /\ pos.ok /\ steps < StepLimit /\ there
            /\ Return("SP_OK")
            /\ UNCHANGED <<armed, mode>>
         \/ /\ ret = "SP_OK" /\ pos.ok /\ steps < StepLimit /\ ~there
            /\ CallStepInstruction(armed, <<StepLine(line, steps)>> \o Tail(ctl))
  /\ UNCHANGED <<Untouched, phase>>

\* step_over and step_out ignore what continue_execution returned.
RunToReturns ==
  /\ Returned("step_over_run")
  /\ WaitThen(<<CleanUp(Head(ctl).dels)>> \o Tail(ctl))
  /\ UNCHANGED <<Untouched, phase>>

\* They disable what they enabled.
CleanUpReturns ==
  /\ Returned("step_over_done")
  /\ armed' = Disabled(armed, Head(ctl).dels)
  /\ Return(ret)
  /\ UNCHANGED <<Untouched, mode, phase>>

\* run_debugger returns, and spray ends, when the process dies before main.
RunMainReturns ==
  /\ Returned("run_debugger_run")
  /\ \/ /\ ret = "SP_OK"
        /\ WaitThen(<<MainReached(Head(ctl).dels)>>)
        /\ UNCHANGED phase
     \/ /\ ret = "SP_ERR"
        /\ Return(ret)
        /\ phase' = "finished"
        /\ UNCHANGED <<armed, mode>>
  /\ UNCHANGED Untouched

MainReachedReturns ==
  /\ Returned("run_debugger_done")
  /\ Return(ret)
  /\ \/ /\ ret = "SP_OK"
        /\ armed' = Disabled(armed, Head(ctl).dels)
        /\ phase' = "repl"
     \/ /\ ret = "SP_ERR"
        /\ phase' = "finished"
        /\ UNCHANGED armed
  /\ UNCHANGED <<Untouched, mode>>

CallReturns ==
  \/ WinchReturns \/ StepBreakpointReturns \/ ContinueReturns
  \/ StepInstructionReturns \/ ExecContinueReturns \/ StepLineReturns
  \/ RunToReturns \/ CleanUpReturns \/ RunMainReturns \/ MainReachedReturns

-----------------------------------------------------------------------------
(* The start: run_debugger up to its loop *)

RunDebugger ==
  /\ phase = "setup"
  /\ ctl = <<>>
  /\ LET main == SymbolFromName(prog.symbols, "main")
         start == FunctionStart(prog.units, prog.symbols, "main")
     IN  \/ /\ main = NotFound
            /\ phase' = "finished"
            /\ UNCHANGED <<armed, mode, ctl, ret>>
         \/ /\ main # NotFound /\ start = NotFound
            /\ phase' = "repl"
            /\ UNCHANGED <<armed, mode, ctl, ret>>
         \/ /\ main # NotFound /\ start # NotFound
            /\ CallContinue(Enabled(armed, {ToReal(start)}), <<RunMain({ToReal(start)})>>)
            /\ UNCHANGED phase
  /\ UNCHANGED Untouched

-----------------------------------------------------------------------------
(* The commands, and the history of what they were told *)

\* The row a compiler means by the address: the last one not behind it.
RowOf(u, addr) == SelectLastInSeq(u.rows, LAMBDA r : r.addr <= addr)
LineOf(addr) ==
  LET u == UnitOfPc(prog.units, addr)
      i == RowOf(prog.units[u], addr)
  IN  IF u = NotFound \/ i = NotFound THEN NotFound ELSE prog.units[u].rows[i].ln

\* A command starts; told are the addresses where it may stop, apart from the
\* breakpoints of the user.
Issued(cmd, told) ==
  last' = [cmd |-> cmd, told |-> told, depth |-> Len(cpu.rets),
           func |-> SymbolFromAddr(prog.symbols, DbgPc), line |-> LineOf(DbgPc),
           exact |-> CurrentPosition.exact, steps |-> 0,
           signalled |-> FALSE, winched |-> FALSE, odd |-> last.odd]

\* The variables no command changes at once.
Unissued == <<prog, cpu, event, pending, sent, flow>>

\* A command that fails before it does anything.
Refuse == ret' = "SP_ERR" /\ UNCHANGED <<armed, mode, ctl>>

\* parse_break_location: [function], [file, line] or [address], to the address
\* in the file; NotFound is SP_ERR.  What depends on the program only is
\* tabulated.
FileAddrs ==
  [p \in Programs, loc \in Locations |->
    CASE "function" \in DOMAIN loc -> FunctionStart(p.units, p.symbols, loc.function)
      [] "address" \in DOMAIN loc -> loc.address
      [] "line" \in DOMAIN loc -> AddrAt(p.units, loc.file, loc.line)]

FileAddr(loc) == FileAddrs[prog, loc]

\* The set of the address the user named, empty when there is none.
Named(loc) == {ToReal(a) : a \in {FileAddr(loc)} \ {NotFound}}

\* exec_break and exec_delete
Break(loc) ==
  /\ AtPrompt
  /\ armed' = Enabled(armed, Named(loc))
  /\ user' = user \union (Named(loc) \intersect armed')
  /\ UNCHANGED <<Unissued, mode, phase, ctl, ret, last>>

Delete(loc) ==
  /\ AtPrompt
  /\ armed' = Disabled(armed, Named(loc))
  /\ user' = user \ (Named(loc) \ armed')
  /\ UNCHANGED <<Unissued, mode, phase, ctl, ret, last>>

\* exec_continue
ContinueCommand ==
  /\ AtPrompt
  /\ Issued("continue", {})
  /\ CallContinue(armed, <<ExecContinue>>)
  /\ UNCHANGED <<Unissued, phase, user>>

\* exec_inst
InstCommand ==
  /\ AtPrompt
  /\ Issued("inst", {})
  /\ CallStepInstruction(armed, <<>>)
  /\ UNCHANGED <<Unissued, phase, user>>

\* exec_leave, and the assertion of set_return_address_breakpoint that the
\* registers of the process can be read.
LeaveCommand ==
  /\ AtPrompt
  /\ Issued("leave", {ReturnAddress})
  /\ \/ /\ ~Alive
        /\ phase' = "aborted"
        /\ UNCHANGED <<armed, mode, ctl, ret>>
     \/ /\ Alive
        /\ CallContinue(Enabled(armed, {ReturnAddress}), <<RunTo({ReturnAddress} \ armed)>>)
        /\ UNCHANGED phase
  /\ UNCHANGED <<Unissued, user>>

\* exec_step
StepCommand ==
  /\ AtPrompt
  /\ Issued("step", {})
  /\ \/ ~CurrentPosition.ok /\ Refuse
     \/ /\ CurrentPosition.ok
        /\ CallStepInstruction(armed, <<StepLine(CurrentPosition.ln, 0)>>)
  /\ UNCHANGED <<Unissued, phase, user>>

\* callback__set_dwarf_line_breakpoint on every line of the function at the
\* program counter, the current line left out.
StepOverLines ==
  LET lines == LinesAround(prog.units, prog.symbols, prog.subprograms, DbgPc)
  IN  {RowToReal(r.addr) : r \in {x \in lines : x.ln # CurrentPosition.ln}}

\* Mutant of StepOverDels: what was enabled before is deleted, too.
StepOverDelsAll(lines) == lines \union {ReturnAddress}

\* The breakpoints step_over has to delete again.
StepOverDels(lines) ==
  (lines \ armed) \union ({ReturnAddress} \ Enabled(armed, lines))

\* exec_next
NextCommand ==
  /\ AtPrompt
  /\ \/ /\ ~CurrentPosition.ok
        /\ Issued("next", {})
        /\ Refuse
     \/ /\ CurrentPosition.ok
        /\ LET told == StepOverLines \union {ReturnAddress}
           IN  /\ Issued("next", told)
               /\ CallContinue(Enabled(armed, told), <<RunTo(StepOverDels(StepOverLines))>>)
  /\ UNCHANGED <<Unissued, phase, user>>

\* The end of the input: spray exits, whatever is still enabled.
Quit ==
  /\ AtPrompt
  /\ phase' = "finished"
  /\ UNCHANGED <<traceeVars, ctl, ret, user, last>>

Command ==
  \/ \E loc \in Locations : Break(loc) \/ Delete(loc)
  \/ ContinueCommand \/ InstCommand \/ LeaveCommand
  \/ StepCommand \/ NextCommand \/ Quit

-----------------------------------------------------------------------------
(* The process in between *)

Session == phase \in {"setup", "repl"}

TraceeStops ==
  /\ Session
  /\ SignalStop \/ TrapStop
  /\ UNCHANGED debuggerVars

TraceeExecutes ==
  /\ Session
  /\ Execute
  /\ last' = [last EXCEPT !.steps = IF @ = 0 THEN 1 ELSE 2]
  /\ UNCHANGED <<phase, ctl, ret, user>>

OthersSignal ==
  /\ Session
  /\ (\E s \in {"winch", "other"} : Signal(s)) \/ Kill
  /\ UNCHANGED debuggerVars

\* spray has ended.
Terminated == ~Session /\ UNCHANGED vars

DebuggerInit ==
  /\ phase = "setup"
  /\ ctl = <<>>
  /\ ret = "none"
  /\ user = {}
  /\ last = [cmd |-> "none", told |-> {}, depth |-> 0, func |-> NotFound, line |-> NotFound,
             exact |-> FALSE, steps |-> 0,
             signalled |-> FALSE, winched |-> FALSE, odd |-> FALSE]

Init == TraceeInit /\ DebuggerInit

DebuggerWorks == WaitForSignal \/ CallReturns
TraceeRuns == TraceeStops \/ TraceeExecutes

Next == RunDebugger \/ DebuggerWorks \/ Command \/ TraceeRuns \/ OthersSignal \/ Terminated

Spec == Init /\ [][Next]_vars

\* Nothing keeps spray from running once waitpid or a call has returned, and
\* the kernel runs a process that is ready; nobody has to type a command.
FairSpec == Spec /\ WF_vars(DebuggerWorks) /\ WF_vars(TraceeRuns)

-----------------------------------------------------------------------------
(* Properties *)

Commands == {"none", "continue", "inst", "leave", "step", "next"}

\* Every variable has its type, and only mapped addresses hold traps.
TypeOK ==
  /\ mode \in {"stopped", "cont", "step", "gone", "reaped"}
  /\ event \in {"none", "trap", "step", "syscall_step", "winch", "other", "exited", "killed"}
  /\ pending \subseteq {"winch", "other"}
  /\ cpu.fp \in 0 .. Len(cpu.rets)
  /\ armed \subseteq Mapped
  /\ phase \in {"setup", "repl", "finished", "aborted"}
  /\ ret \in {"none", "SP_OK", "SP_ERR"}
  /\ user \subseteq Mapped
  /\ last.cmd \in Commands

\* At the prompt the enabled breakpoints are the user's: every internal one of
\* next, leave, the start and the stepping over a breakpoint is gone and every
\* one of the user's is back, however the command ended (the comment in
\* is_user_breakpoint rests on it).
PromptBreakpointsAreUsers == AtPrompt /\ Alive => armed = user

\* At the prompt the process is stopped where its own flow of control stopped:
\* handle_sigtrap takes the program counter back behind every trap of a
\* breakpoint and never otherwise.  Excepted are the program's own int3 and a
\* single-stepped system call.
PcStaysTrue == AtPrompt /\ Alive /\ ~last.odd => mode = "stopped" /\ cpu.pc = flow

Runs == {"continue", "next", "leave"}

\* The process runs through a breakpoint of the user only when it starts from
\* it, or when SIGWINCH comes while it is about to run the instruction there:
\* wait_for_signal continues from a breakpoint nobody has seen hit, or with the
\* breakpoint disabled by single_step_breakpoint.
MissedOnlyInWinch ==
  [][/\ TraceeExecutes
     /\ cpu.pc \in user
     /\ mode = "cont" \/ (last.cmd \in Runs /\ last.steps > 0)
     => last.winched /\ StepBreakpoint(cpu.pc) \in Range(ctl)]_vars

\* A command has returned.
Finishes == ctl # <<>> /\ ctl' = <<>> /\ Alive /\ Alive'

\* continue, next and leave return in a stopped process, and where they were
\* told: at a breakpoint of the user or at one of their own.  A signal from
\* outside, the program's own int3 and a system call are the exceptions
\* (exec_continue, step_over, step_out).
StopsWhereTold ==
  [][Finishes /\ last.cmd \in Runs =>
       /\ mode' = "stopped"
       /\ last'.signalled \/ last'.odd \/ cpu'.pc \in last.told \union user]_vars

\* inst runs one instruction and continue at least one, whether or not a
\* breakpoint sits at the program counter; SIGWINCH is the exception for the
\* one, another signal for both (single_step_instruction, continue_execution).
CommandsAdvance ==
  [][Finishes /\ ~last'.signalled =>
       /\ last.cmd = "inst" /\ ~last.winched => last.steps = 1
       /\ last.cmd = "continue" => last.steps >= 1]_vars

\* The addresses, the end included, that a symbol is found for.
AddrsOf(p, f) ==
  {a \in p.symbols[f].low .. p.symbols[f].high : SymbolFromAddr(p.symbols, a) = f}

\* The function f is in one unit, as a subprogram, and one row begins it.
FunctionLaidOut(p, f, n) ==
  LET s == p.symbols[f]
      u == p.units[n]
      d == SubprogOfName(p.subprograms, s.name)
  IN  /\ \A a \in AddrsOf(p, f) : UnitOfPc(p.units, a) = n
      /\ d # NotFound /\ p.subprograms[d].low = s.low /\ p.subprograms[d].high = s.high
      /\ \E k \in DOMAIN u.rows : \A j \in DOMAIN u.rows : u.rows[j].addr = s.low <=> j = k

\* The layout next relies on: tables are found by the path of their unit, rows
\* ascend, those of one address are on one line, and functions are laid out, but
\* for those without line information.
LinesLaidOut(p) ==
  /\ p.symbols \in Seq(Range(p.symbols)) /\ p.units \in Seq(Range(p.units))
  /\ \A s \in Range(p.symbols) : s.low \in Nat /\ s.high \in Nat
  /\ \A u \in Range(p.units) :
       /\ RowsOf(p.units, u.file) = u.rows
       /\ u.rows \in Seq(Range(u.rows))
       /\ \A r, x \in Range(u.rows) : r.addr \in Nat /\ (r.addr = x.addr => r.ln = x.ln)
       /\ \A i, j \in DOMAIN u.rows : i < j => u.rows[i].addr <= u.rows[j].addr
  /\ \A f \in DOMAIN p.symbols : \A a \in AddrsOf(p, f) :
       LET n == UnitOfPc(p.units, a) IN n # NotFound => FunctionLaidOut(p, f, n)

LaidOut == {p \in Programs : LinesLaidOut(p)}

\* A statement of another line of the function and the frame next started in.
OtherLine ==
  LET addr == DbgPc
      u == UnitOfPc(prog.units, addr)
      i == RowOf(prog.units[u], addr)
      row == prog.units[u].rows[i]
  IN  /\ Len(cpu.rets) = last.depth
      /\ SymbolFromAddr(prog.symbols, addr) = last.func
      /\ row.addr = addr /\ row.stmt /\ row.ln # last.line

\* next runs no statement of another line of its function: it has stopped
\* before.  This holds from the address of a row, in a program loaded where it
\* was linked and laid out as LinesLaidOut says, without SIGWINCH (step_over,
\* set_step_over_breakpoints, sd_for_each_line).
NextRunsOneLine ==
  [][/\ TraceeExecutes
     /\ last.cmd = "next" /\ last.exact /\ ~last.winched
     /\ prog.load = 0 /\ prog \in LaidOut
     => ~OtherLine]_vars

\* README: next goes to the next line.  From everywhere, in every program.
NextStopsAtNextLine == [][TraceeExecutes /\ last.cmd = "next" => ~OtherLine]_vars

\* README: next does not step into functions.
NextStaysOutOfCalls ==
  [][Finishes /\ last.cmd = "next" => Len(cpu'.rets) <= last.depth \/ cpu'.pc \in user]_vars

\* README: continue runs until the next breakpoint, so after its first
\* instruction it runs none that the user set a breakpoint on.
NoBreakpointMissed ==
  [][TraceeExecutes /\ last.cmd = "continue" /\ last.steps > 0 => cpu.pc \notin user]_vars

\* The assertion of set_return_address_breakpoint holds.
NeverAborts == phase # "aborted"

\* Every command returns when the program ends on its own.  step and inst
\* return even from a loop that never leaves its line, unless SIGWINCH sets the
\* process running (wait_for_signal, SINGLE_STEP_SEARCH_LIMIT).
Terminates == \A a \in Mapped : prog.code[a].op # "jump"
CommandsReturn ==
  ctl # <<>> ~> \/ ctl = <<>>
                \/ ~Terminates /\ (last.winched \/ last.cmd \notin {"step", "inst"})

=============================================================================
