# A specification of spray

spray is a debugger for x86-64 Linux: one process, one thread, which runs a
second process (the *tracee*) under `ptrace`, and a read-eval-print loop in
front of it.  This directory holds a TLA+ model of it, the TLC runs that check
the model, and proofs about the parts on which all else rests.

## Inventory

| Component | Source | State | Operations | What makes it correct |
|---|---|---|---|---|
| breakpoint table | `breakpoints.c` | hash map of address to (`is_enabled`, `orig_data`), and the traps in the memory of the tracee | enable, disable, lookup | table and memory agree; one byte changes; a failure changes nothing |
| ptrace access | `ptrace.c`, `registers.c` | none (the kernel's) | read and write a word, registers, continue, step | errors are told apart from values |
| run control | `debugger.c` 36-435, 806-888, 1491-1597 | the call stack of the one thread, load address | start, continue, inst, step, next, leave, break, delete | commands stop where told, leave no breakpoint behind, keep the program counter honest, return |
| line tables | `spray_dwarf.c` 3054-3601 | none: tables are read for every look-up | line of an address, address of a line, lines and start of a function | the answer is the line that contains the address |
| debug information facade | `info.c` | a growing buffer of symbols with cached positions | symbols, positions, breakpoints of next, variables | cached values are those of the symbol; no pointer outlives a move of the buffer |
| symbol table | `spray_elf.c` | the mapped file | parse, find by name and address | ranges do not overlap, headers are in bounds |
| DWARF search | `spray_dwarf.c` 103-321 | libdwarf's position among the units | depth-first search with a callback | every search starts at the first unit and visits each entry once |
| variables, types, locations | `spray_dwarf.c` 855-3004 | evaluation stack | scopes, types, location lists and expressions | the innermost live variable, the right value |
| print and set | `debugger.c` 438-804, `info.c` 595-968, `magic.c` | none | print and set of registers, memory, variables | what is confirmed is what was stored |
| backtrace | `backtrace.c` | a list of frames | walk over frame pointers | ends; one frame per call |
| command line and history | `debugger.c` 891-1445, `history.c` | the last command | tokens, dispatch, repetition | an empty line repeats exactly the last command |
| program arguments | `args.c`, `spray.c` | global arguments | parse flags and arguments | the tracee gets its name and what follows it |
| source printing | `print_source.c`, `*.scm` | an interpreter | print and colour lines | pure text |
| vendored | `dependencies/` | | hash map, line editor, test framework | not spray's own |

**Interaction.**  Run control calls the breakpoint table, the facade and ptrace;
the facade calls the symbol table and the line tables; everything meets the
tracee only through ptrace and `waitpid`.  There are no callbacks but those of
the DWARF search, and no threads in spray; for a moment at the start there are
two copies of spray, until the child has become the program.  What is concurrent is the world
behind ptrace: the tracee runs while spray waits, its untraced threads run even
while spray works, and signals and SIGKILL come at any moment.

**What is hard.**  `wait_for_signal` is re-entered: on SIGWINCH it calls
`continue_execution`, which may call `single_step_breakpoint`, which calls
`wait_for_signal`.  Errors of the inner calls are mostly dropped.  Breakpoints
of the user and of `next`, `leave` and the start share one table.  `PEEK` and
`POKE` are words, a trap is a byte.  libdwarf keeps a position of its own from
one search to the next.  The stack and the registers that a backtrace and a
variable are read from are the program's, and `set` may have changed them.
`PROJECT.json` lists each hazard at its line.

## Modules

| Module | What it is |
|---|---|
| `TrapOverlay` | abstract: a set of armed addresses laid over the bytes of a program, and the bytes (`forfeit`) about which nothing can be promised |
| `Breakpoints` | `breakpoints.c` over the word accesses of `ptrace.c`; implements `TrapOverlay` |
| `BreakpointsProofs` | its theorems |
| `LineTable` | the look-ups of `spray_elf.c`, `spray_dwarf.c` and `info.c` as operators on tables |
| `Lookups` | one question about an address, a line or a function after another, in programs of several files |
| `LookupsProofs` | its theorems |
| `Tracee` | the environment: processor, kernel, signals, as ptrace shows them |
| `Debugger` | run control, composed of `Tracee` and `LineTable` |
| `DebuggerProofs` | what the call stack owes and the user's breakpoints at the prompt; which breakpoints can be missed; where the process stands at the prompt; what a command does before it returns; where `next` does not go; types |
| `EntrySearch` | abstract: a search finds the first entry that its caller wants, among the units that are ahead |
| `DwarfSearch` | `sd_search_dwarf_dbg`, `sd_search_dwarf_die` and `sd_dwarf_init` over libdwarf; implements `EntrySearch` |
| `DwarfSearchProofs` | its theorems about handles |
| `WalkProofs` | built on it: the order of the walk, and that the search implements `EntrySearch` |
| `Variables` | scopes, types, locations and formats of variables as operators on the entries |
| `Inspection` | print, set and backtrace at the stops of a tracee, composed of `Variables` and `LineTable` |
| `InspectionProofs` | its theorems |
| `Startup` | arguments, the checks of the file, fork and execv |
| `CommandLine` | one line of input: repetition, interpretation, the symbols that the command holds |
| `Session` | `main`: `Startup`, then `CommandLine` until the end of the input |
| `SessionProofs` | its theorems |
| `FirstProofs` | lemmas on the first or last index at which something holds, which `DebuggerProofs`, `LookupsProofs`, `SessionProofs` and `InspectionProofs` share |
| `MCBreakpoints`, `MCDebugger`, `MCDwarfSearch`, `MCInspection`, `MCLookups`, `MCSession` | the instances for TLC |

### Breakpoints

`mem` is the tracee's memory byte by byte, `entries` and `table` the hash map.
An operation is two steps, `EnableRead`/`EnableWrite` or
`DisableRead`/`DisableWrite`, with `op` holding the word between PEEK and POKE
and `res` what the caller gets.  `CreateEntry` is the `hashmap_set` that happens
before either access.  `SetMemory` is the `set <address>` command, which writes
the same memory behind the table's back.  `TraceeStore` is a store by any thread
of the tracee, also between PEEK and POKE, since `PTRACE_TRACEME` stops only the
main thread; `TraceeExec` and `TraceeDies` are execve and death.  `program` (what
program and user last stored), `forfeit` and `op.raced` are history variables:
no guard reads them.

A byte is *forfeit* when a store hit it while it held a trap, when a store raced
with an operation on its word, or when execve replaced it under a trap.  The
code cannot answer for such a byte; the promise holds everywhere else.

### LineTable and Lookups

A unit has its path, the paths it was made from, its range and its rows, the
row that ends the table included.  A path has the directory as the compiler
wrote it, the last component, and the directory in which `realpath` finds the
file, or `Missing`.  So `sd_is_die_from_file`, which compares a real path with a
written one, is modelled with what it gets wrong.  The code has no other name
for a table than its path: `sd_line_entry_from_pc` and
`sd_effective_start_addr` go from an address to a path and from there to the
first unit with that path, and so do `EntryFromPc` and `EffectiveStart`.

`Lookups` asks: `AskStart` is `break <function>`, `AskLine` is
`break <file>:<line>`, `AskPosition` is what `step` and every shown stop ask,
`AskLines` is `next`.  The properties compare `answer` with the layout of the
program (`Within`, `UnitAt`, `FunctionAt`), which none of the look-ups uses.
`UnitsLaidOut` and `FunctionsLaidOut` restrict the programs: units and functions
do not overlap, a unit's rows ascend and lie in it, a last row closes the table
at the unit's end, which is the end of a function, a function begins with a row,
and a header is no unit's source.  The strongest restriction is that
`FunctionsLaidOut` equates the symbols of the ELF table with the subprograms of
the debug information: same names, same ranges, all of them functions.  That is a program whose every function was compiled with `-g` and
kept.  It is not any program: start-up code and libraries bring symbols without
a subprogram, and inlined and declared-only functions are subprograms
without a symbol.  Nothing is said
here of programs with such functions in them, neither by the runs nor by the
four theorems of `LookupsProofs`; `Debugger` has programs without line
information, and `LinesLaidOut` asks less.  TLC evaluates both conditions on
every program of the instance.
Left out: that the rows of an included file carry that file's lines.

### Tracee and Debugger

A program is a record: instructions by address, symbols, subprograms, units with
line tables, load address.  An instruction is a member of a small set (plain,
call, conditional call, jump, loop, ret, prologue, system call, int3, exit):
exactly what decides where the next stop is.  `cpu.rets` is the stack of return
addresses, `cpu.fp` the frame the frame pointer refers to, which is the caller's
until the prologue has run; the outermost function does not return.  `SignalStop`, `TrapStop` and `Execute` are the ways
in which a running tracee moves; `Signal` and `Kill` come from outside.

The second byte of a system call (`mid`) is run as a plain instruction when a
wrong program counter leads there.  What the processor really decodes from it
depends on the bytes; no property speaks about a run from then on (`last.odd`).

`armed` is the set of enabled breakpoints.  That table and memory may be
one set here is what `Breakpoints` proves.

`ctl` is the call stack of the thread, one record for each function that has
called something and has work left.  Each function is a `Call...` operator (up
to its first `waitpid`) and a `...Returns` action (what it does with the result
`ret`).  So the five levels of re-entry on SIGWINCH need no case of their own.

| Code | Model |
|---|---|
| `continue_execution`, `single_step_breakpoint`, `single_step_instruction` | `CallContinue`, `ContinueReturns`, `CallStepBreakpoint`, `StepBreakpointReturns`, `CallStepInstruction`, `StepInstructionReturns` |
| `wait_for_signal`, `handle_sigtrap` | `WaitDeath`, `WaitSigtrap`, `WaitOther`, `WaitWinch`, `WinchReturns`, `WaitKilled`, `WaitNobody` |
| `exec_continue`, `exec_inst`, `exec_step`, `exec_next`, `exec_leave` | `ContinueCommand`, `InstCommand`, `StepCommand`, `NextCommand`, `LeaveCommand` and the `...Returns` of their functions |
| `set_step_over_breakpoints`, `set_return_address_breakpoint` | `LinesAround`, `StepOverLines`, `StepOverDels`, `ReturnAddress` |
| `parse_break_location`, `exec_break`, `exec_delete` | `FileAddr`, `Break`, `Delete` |
| `run_debugger` | `RunDebugger`, `RunMainReturns`, `MainReachedReturns`, `Quit` |

`WaitKilled` is SIGKILL between `waitpid` and the ptrace calls behind it, which
fail unseen.  `WaitNobody` is `waitpid` on a process that is gone: `wait_status`
is uninitialised, and either result is possible.  What a look-up answers depends
on the program alone, and is tabulated by program and address (`Positions`,
`FileAddrs`).  `flow` is where the program
itself would be; `user` and `last` record what the user asked for and what
happened since.  No guard reads these three.

What a step leaves out: printing, and the reads that only serve it.  Steps of
spray between two waits are atomic; only SIGKILL can fall between their ptrace
calls, and its effect is that of a SIGKILL before or after, or `WaitKilled`.

### DwarfSearch

libdwarf is external.  `at` is its hidden position, one for each section of
units; a call that may fail does so because the file is damaged there (`broken`)
or for lack of memory (`failures`).  `frames` is the recursion of
`sd_search_dwarf_die`: one record for each activation with its first handle
`in`, the handle `cur` of the loop and the `child` whose recursive call it waits
for.  `ret` is what the callee has just answered.  `live` is what
`dwarf_dealloc` still has to release.

| Code | Model |
|---|---|
| `dwarf_next_cu_header_d` and the answers to it | `HeaderFails`, `HeaderFound`, `InfoExhausted`, `TypesExhausted` |
| `dwarf_siblingof_b` for a unit, the call of the walk, its return | `CuFails`, `CuFound`, `CuReturns` |
| `dwarf_child`, the recursive call, its return | `ChildFails`, `ChildNone`, `ChildFound`, `ChildReturns` |
| the loop over the siblings | `SiblingFails`, `SiblingNone`, `SiblingFound` |
| `sd_dwarf_init` and `sd_is_valid_compiler` | `IsValidCompiler`, `DwarfInit`, `Refused` |
| every other caller | `Ask`, with the entries that its callback accepts |

`visited`, `level`, `from` and `typed` are history variables.  A handle is named
by its entry.  A search that ends early or fails leaks the handles of its
callers: the code does that.

The callback of `sd_runtime_variable` does not leave the handle it is given
alone.  For a variable of the name it looks for it calls `sd_variable_type`,
which releases the handle (`spray_dwarf.c:1570`) although it belongs to the
walk; callback and walk go on using it (1772, 1787, and the loop if the variable
is turned down, 1765-1768), and the walk releases it again (165, 184, 309).  So
a callback is a pair: the entries it accepts, and those whose type it builds
(`types`).  `AfterCallback` says what is allocated behind it.  libdwarf is not
built by spray and so not instrumented, spray is built with `-fsanitize=address`
(`Makefile:2`), and freed memory is in quarantine: a call with the released
handle works as before or fails (`Fails`, counted with the lack of memory), and
the second `dwarf_dealloc` finds the block released and has no effect.  The
entries of types that `sd_type_die` fetches for it (1488) are released by nobody;
`typed` holds the variables for which that has happened.

### Variables and Inspection

A program is a record: entries in the order of the file (tag, level, name,
range, frame base, location list, type), symbols, load address, memory, and the
stops at which spray may look at it.  A type is the sequence of its nodes.  A
location is `addr`, `reg` or the frame base plus an offset, and `EvalLocexpr`
answers with a set of results, since an expression that the code does not
support leaves the result uninitialised.  A word has `WORD` bytes of `BYTE`
values, and all arithmetic on addresses and values is modulo its size.

What the compiler and the calling convention make of a program is assumed, and
evaluated by TLC: C functions do not nest (`NotNested`); a location list names
registers that the process has; behind the prologue of a program without load
address the frames are linked through the saved frame pointers, with 0 at the
end (`Linked`); what is typed for an address is a word (`InputsAssumption`); words
are told apart by their bytes, and powers of `BYTE` divide one another
(`BytesAssumption`, `PowersAssumption`), which is arithmetic that the provers
cannot do for an exponent that is a variable.

`Inspection` holds the memory and the registers of the tracee, the last reply
and, during a backtrace, the frame pointer `walk.fp` and the frames found so far;
`BacktraceFrame` is one round of the loop in `init_backtrace`.  `Run` lets the
tracee go to another stop, `Kill` takes it away between any two steps.  A reply
records what was printed together with where it came from, which is what the
properties speak about.  `set` with its readback is one step: the tracee is
stopped, and SIGKILL in between fails every later call as one before does.

### Startup, CommandLine and Session

`Startup` has two processes.  The parent goes through `stage`; the child is a
copy of spray, then the program, traced or not.  Once it is traced, a `Signal`
stops it anywhere, in the copy of spray (`halted`) as in the program (`stopped`);
`winch` says whether it was SIGWINCH.  The run to `main` is three things: the
debugger continues the child (`ContinueToMain`), the child reaches `main`, ends,
is stopped, or does nothing of this, and the debugger waits (`WaitForMain`),
which continues it after a SIGWINCH.  A SIGWINCH right at the breakpoint of
`main` steps over it, as in `Debugger`: that is a program which runs on and never
reaches `main`.  `copies` holds who has entered
`run_debugger`, which for the child happens only if execv fails.  The checks of
a file are modelled field by field up to whether the field has the value that is
looked for.  `init_debug_info` compares the verdict on the file with `SP_ERR`,
which is only one of the errors: the others are let through with the tables
never stored (`Garbage`).

`CommandLine` interprets a line token by token, in the order of
`handle_debug_command_tokens`.  A token is given by the parsers that accept it.
Each place where the code gets a pointer into the symbol buffer and each place
where it reads through one is a step of its own (`step`); `room` counts what is
left in the buffer before it moves, and `held` says of every such pointer
whether it is still good.  What commands do to the tracee is left to `Debugger`
and `Inspection`.  `Session` puts the two together: the run to `main`, the first
print of the source, lines, and the end of the input.

## Runs

| Run | Shows |
|---|---|
| `breakpoints` | the six properties of `Breakpoints`, among them that it implements `TrapOverlay` |
| `breakpoints_lookup` (violation) | `set` over an armed byte erases the trap, and lookup still reports it |
| `debugger` | the eight properties of `Debugger` |
| `debugger_winch` (violation) | SIGWINCH just before a breakpoint: it is stepped over in silence |
| `debugger_pie` (violation) | `next` in a position-independent executable passes the next line |
| `debugger_calls` (violation) | `next` steps into a function right behind the current one |
| `debugger_dead` (violation) | `leave` after the program's end aborts spray |
| `dwarf_search` | the eight properties of `DwarfSearch`, among them that it implements `EntrySearch` |
| `inspection` | the seven properties of `Inspection` |
| `inspection_fallback` (violation) | a name that is not in scope stands for a local variable of another function |
| `session` | the seven properties of `Session` |
| `lookups` | the four properties of `Lookups` |

**Bounds.**  `MCBreakpoints`: four addresses, words of two bytes, two byte
values.  Two words overlap in every way two words can, a store can hit or miss
each byte of a pending word, and the last addresses fail to be read or written.
More bytes repeat these cases, and the proofs cover every size.

`MCDebugger`: programs of up to eleven instructions, each made for one
difficulty (a call from the middle of a line in a loop; recursion; a callee
right behind its caller; a system call and an int3; an endless loop; another
load address; no line table; no `main`), two different breakpoints, at most one
SIGWINCH, one other signal, one SIGKILL, each at every moment, and any sequence
of commands.  One SIGWINCH already nests `wait_for_signal` to its full depth; a
second one would nest the same functions again.  `StepLimit` is 5 for 128:
the longest line has fewer instructions, the endless loop has more.

`MCDwarfSearch`: two units of `.debug_info`, the first a tree of three levels in
which the walk goes down, up by two and on to a sibling, and one unit of
`.debug_types`.  Any set of at most two entries is wanted, so that one search
can find something before, in or behind what another one would; each call may be
the damaged one, and each call may be the one that runs out of memory
(`MaxFailures` is 1: one failure ends a search, and the next one starts from
what it left).  The proofs cover files of every shape.

`MCInspection`: bytes of six values, words of two bytes (36 addresses: all that
two functions with a frame each need), stacks of one and of two frames, a
program with and one without a load address, variables of one byte and of two
in memory, in a register and in the frame, with and without a place.
`MaxSets` is 1: the second `set` writes a place that the first one could have
written, and prints and backtraces come before and after it in any order.
`MaxFrames` is 5, two more than there are calls, so that a cycle goes beyond it.

`MCSession`: command lines with and without flags to seven files, one for each
way in which the checks of a file end; two signals (`MaxSignals`): one before
execv and one behind it, or two while the debugger waits for `main`; a third one
repeats what the second did from the same states; lines of up to five tokens, in which every token meets
every position and filter; and every line after every other.  `SYM_ALLOC_SIZE`
is 2 for 16: the buffer moves at any look-up, which the true size only makes
rarer.

`MCLookups`: three functions in two files, the rows of each as compilers emit
them (plain; with a marked end of the prologue and a row that begins no
statement; a later line first; two rows at the first address; one row only), the
files in order of their addresses or not, with a gap between them or without,
their paths apart, alike in two directories, alike and gone, or written with
`..`, and two functions with one name or not: 4000 programs, and every question
to each.  Look-ups go through one table at a time and keep nothing, so a third
file repeats what the second shows.

**Fairness.**  `FairSpec` assumes weak fairness of what spray does once
`waitpid` or a call has returned, and of the running tracee.  The first is one
runnable thread with no other lock or queue, the second is the kernel's
scheduler.  No fairness is assumed of commands, signals, or the start.  In
`DwarfSearch` and for the loop of a backtrace, weak fairness stands for a thread
that waits for nothing.  In `Session` each of parent, child and debugger is
weakly fair, and `waitpid` is a guard of the parent and of the debugger; lines
and signals need not come, and a program need not end, nor reach `main`.

**Deadlock** is checked in every run but `session`, where spray and the program
really stop.  In `Debugger` only an ended spray stutters
(`Terminated`); a wait for a process that nobody set running would be found.

Properties of `debugger`, and their edges:

* `PromptBreakpointsAreUsers` - whatever ended a command, its own breakpoints are
  gone and the user's are back.  Two different sets of addresses that may
  coincide share one table here.
* `PcStaysTrue` - except after the program's own int3 or a single-stepped system
  call, which `handle_sigtrap` takes for breakpoints.
* `MissedOnlyInWinch`, with its violated sister `NoBreakpointMissed`.
* `StopsWhereTold`, `CommandsAdvance` - up to signals, which end commands early.
* `NextRunsOneLine` holds from the address of a row, with load address 0, and in
  a program whose tables are laid out as `LinesLaidOut` says: one table per path,
  rows in ascending order, one line per address, and each function with line
  information in one unit, with its subprogram, and begun by exactly one row.
  All programs of the instance are.  From the middle of a line
  `get_line_table_index_of_pc` answers the row behind the address, and `next`
  leaves out the breakpoint that it needs.  Of a function that two rows begin,
  the same look-up fails, `sd_for_each_line` visits no line, and
  `set_step_over_breakpoints` ignores that.
* `CommandsReturn` - liveness: every command returns, `step` even in an endless
  loop.

Properties of `lookups`.  Each has conditions, without any one of which TLC finds
it violated; they are what a user of spray has to know:

* `BreaksBehindPrologue` - `sd_effective_start_addr` takes the first table that
  has some row at or behind the start.  If the file that comes first lies at
  higher addresses, or the function's first address has two rows, that is the
  table of another function ("We've found the correct function",
  `spray_dwarf.c:3564`), and `break` goes there.
* `BreaksInFile` - two files of one name that are gone are the same file; where
  lines do not ascend (a call whose argument is on the line below), `break` goes
  to a later line whose code comes first ("Set a breakpoint on the line in the
  file", `README.md:134`).
* `ExactMeansRow` - not at the address right behind a unit, which is looked up
  in that unit.  Nothing is said of positions that are not exact: in the middle
  of a line they are those of the next row ("if this line entry contains the
  address of PC", `spray_dwarf.h:50`).
* `NextSeesFunction` - with two rows at the function's first address, as
  optimised code has them, `sd_for_each_line` visits no line and `next` runs to
  the return address; of two functions of one name the first one's range is used.

Properties of `dwarf_search`:

* `AnswerLeavesStart` and `RefinesEntrySearch` - the first says why a search may
  begin at the first unit without asking for it; the second what an error does
  instead: the next search sees only the units that the failed one left ahead,
  and may answer that there is nothing.
* `OpenedFilesAnswer` - why this does not happen for a damaged file:
  `sd_is_valid_compiler` walks over all of it before spray accepts it.
* `HandlesHeld`, `AbsentLeaksOnlyTypes` - caller and callee share a handle, and
  the walk itself releases each at most once and uses none after that.  Both say
  where the callback of `sd_runtime_variable` breaks this: the handles it has
  released are those of variables whose type it has built, and what a search
  leaks that finds nothing are the entries of the types of variables that it
  turned down.
* `VisitsInOrder` - recursion and loop together are a preorder walk, and scopes
  are computed from the levels it reports.

Properties of `inspection`, and their edges:

* `OwnVariableFirst` - except right at the end of a function's range, which
  `sd_check_pc_in_die` counts as inside, and in a process that has been killed:
  its program counter reads as 0, and `set` of a variable without a place is
  confirmed for whatever entry has that name.  It was the proof that found the
  second exception.
* `ConfirmTrue` - though a refused write to a register is not an end, and `set`
  of a variable never reads it back.
* `SetThenShow`, `PointeeShown` - widths, signs and the masks for them agree on
  both ways; up to the saturation of `strtol`, which cuts off at the largest long
  and at the least one.
* `WideSetsKeepNeighbours` - of variables as wide as a word only:
  `exec_set_variable` writes a whole word whatever the type, and so overwrites
  what lies behind a narrower one.
* `BacktraceTrue` - behind the prologue only, for a program without load
  address: return addresses are looked up without subtracting it.
* `BacktraceReturns` - liveness, unless the saved frame pointers form a cycle.

Properties of `session`:

* `HeldSymbolsFresh` - the position of a symbol is printed, stepped from and
  compared after other symbols were looked up, each of which may move the buffer;
  and the buffer grows before it is full.
* `OnlyWholeCommandsRun` - a line runs exactly if all of it is one command, as
  `handle_debug_command_tokens` reads it, and what may be read in two ways is
  read in a fixed order.  A breakpoint at a function or a line may fail because
  nobody knows the function (`sym_by_name`) or the line has no address
  (`addr_at`, `debugger.c:1067`), one at an address never does.  The filters are
  those of `parse_filter`: `print %rdx | bin`, which spray's own `README.md:174`
  gives as an example, is refused, since the filter is called `bits`.
* `RepeatsLastTyped` - an empty line repeats a line that failed as well.
* `ArgumentsPassedOn`, `TablesFound` - whatever order parent and child run in, and
  whatever the file is.
* `OneDebugger` - what spray has in its hands is dead, or traced and the program;
  or the copy of spray, but only if a signal came before execv, which the
  unchecked `waitpid` (`debugger.c:1541`) took for the trap of execv.  The load
  address is then read from the maps of spray.
* `StartupSettles` - liveness: spray comes to its prompt or its end, unless it
  waits for a program that nobody traces, or for one that never calls `main`,
  for which `waitpid` blocks for ever.  A signal before `main` other than SIGWINCH
  leads to the prompt as well.

## Proofs

`BreakpointsProofs` proves for every memory size, word size, set of byte values
and map of readable and writable memory:

* `TypeCorrect`: `Spec => []TypeOK`;
* `InductiveInvariant`: `TypeOK`, `TrapsCoherent` and `ReadStaysFresh` together.
  `TrapsCoherent` alone is not inductive: a pending write puts back seven
  neighbours and a saved byte it read earlier, so the invariant has to say that
  what was read is still there except for `op.raced`, and that a pending enable
  is of a disabled entry;
* `TrapsStayCoherent` and `ReadsStayFresh`, its parts;
* `NeighboursAreKept`, `ErrorsChangeNothing`: the action properties;
* `Refinement`: `Spec => Overlay!Spec`, with `view <- mem` and `armed <- Armed`.

They rest on `SizesAssumption`, `BytesAssumption` and `MappingAssumption`, which
say that sizes are positive, that the trap is a byte, and that what can be
written can be read.  One lemma per action keeps the invariant; lemmas on
`WithLowByte` and `Poked` carry the arithmetic of words.

`DwarfSearchProofs` proves for files of any shape, any callbacks, any damage and
any number of failures, from `SizesAssumption`, `TreeAssumption` (the entries of
a unit are consecutive, the unit's own comes first, and no entry is more than
one level below the one before it, since the file is a tree in preorder),
`WantedAssumption`, `FailuresAssumption` and `DamagesAssumption`:

* `Inductive`: `TypeOK`, `Positions`, `InfoLeft`, `Chain`, `NoLeak` and
  `TurnedDown` together;
* `TypeCorrect`, `AnswersLeaveStart`, `HandlesStayHeld`, `AbsenceLeaksOnlyTypes`.

`HandlesHeld` is not inductive.  That releasing `cur` hits nobody else's handle
follows only from the order of all handles along the recursion: an activation
was called with its caller's child, lies behind its caller's `cur`, and so do
all handles of its own.  `Chain` says this, and that the handles are
allocated unless the callback has released them;
`NoLeak` says that there are no others as long as nothing was found and nothing
has failed.  `Nested` and `Covered` state both of a sequence of activations, and
one lemma each says what a call, a return and a move to a sibling do to them.

`WalkProofs` goes on from there, under the same assumptions:

* `WalkIsOrdered`: `WInv`, which says of every activation where it is between
  the entry it was called with and the last one visited (`Reached`), and that
  what has been visited is all there is up to that entry;
* `WalkVisitsInOrder`: each visit is of the next entry, at its own depth;
* `SearchRefines`: `Spec => Abstract!Spec`, the search implements `EntrySearch`;
* `OpenedFilesAlwaysAnswer`: `sd_is_valid_compiler` has called all of libdwarf
  that a later search calls, so that no damage is left to be met, and only a lack
  of memory can make a search miss what is there.

`LookupsProofs` proves for any number of units, rows and functions, laid out as
`UnitsLaidOut` and `FunctionsLaidOut` say (see above), that `break`, `next` and
every shown position go where the tables say: `BreakGoesToLine`,
`BreakSkipsPrologue`, `ExactPositions`, `NextSeesAll`.  They start from a
lemma that repeats the actions (`AnswersToQuestions`: the answer is that of
`LineTable` to the question asked); what is proved is about what `LineTable`
computes.

All of these are linear searches, and a lemma on each (`IndexOfPcIs`,
`IndexOfLineIs` and others) says what it finds in terms of the first index with a
property.  `FirstProofs` has what they share.  Induction is out of reach, and
that a non-empty set of numbers has a least member is taken from `WFMin` and the
well-foundedness of the order instead.  The same principle shows that the
recursive functions of `Variables` are there at all: of the entries, or nodes of
a type, up to which a search has no result there would be a first one, and its
predecessor has.

`InspectionProofs` proves for any programs, stops, memory, word size, names and
numbers under the assumptions of `Variables` and `Inspection`:

* `OwnVariable`: the entry that `sd_runtime_variable` finds is inside a function
  at the program counter.  The loop keeps one flag and one level for all the
  functions it passes; that the flag is true exactly while the entry is inside a
  function that contains the address is an invariant of the scan, and needs
  that functions do not nest;
* `ConfirmsTruly`, `WideSetsStayInside`, from `Stands` (memory and registers
  belong to the stop) and from what the confirmed entry meant (`EntryMeant`,
  `WordMeant`);
* `SetIsShown`: the bits that `set` stores are, cut to the size and extended by
  the sign of the type, the one number in the range of the type that is congruent
  to what was typed, if that is a long.  Lemmas on remainders carry it;
* `PointeeIsShown`: `deref` of a pointer follows typedefs and modifiers to the
  base type that the variable itself has;
* `BacktraceIsTrue`: `Walking` says that the frames so far are those of the k
  innermost functions, for some k, and that `walk.fp` is the frame pointer of the
  last of these; `Untouched`, that as long as nothing was set the stack is that
  of the stop.

`SessionProofs` proves for any files, command lines and lines of input, and a
buffer of any size:

* `SymbolsStayFresh`: a step that uses a symbol is only reached by the step that
  looked it up, whatever moved in between;
* `EmptyLineRepeats`, from the invariant that the history holds the last line;
* `OneDebuggerAlways`, from `Processes`: who the child is at each stage of the
  parent, that only a failed execv leaves a second copy, and that a copy of spray
  which the parent takes for its tracee was stopped by a signal;
* `ArgumentsArrive`: the search for the first word that is no flag splits the
  command line where its reader would;
* `TablesAreFound`: of a file whose header says what is in it
  (`FilesAssumption`: as many sections as it declares, the first of them the
  reserved one), the sections found are the first of their kinds;
* `WholeCommandsOnly`: a line runs exactly if it is one of the sentences, up to
  functions and lines that are not found, for any classification of tokens in which no word is a number and a name at
  once and a decimal number is a hexadecimal one (`TokensAssumption`, which is
  what the parsers of `debugger.c` do to characters).

`DebuggerProofs` proves about `Debugger`, for any programs, locations, step limit
and number of signals:

* `BreakpointsAccountedFor` and `UserBreakpointsSurvive`.  That `armed = user`
  at the prompt says nothing of the states in between, where a breakpoint is
  disabled to be stepped over or enabled by `next`.  `IInv` says of each
  activation on `ctl` which breakpoints it will enable or disable before it
  returns (`Balanced`): the user's breakpoints are the enabled ones once all
  activations have done so.  Each call adds to both sides alike and each return
  takes from both; deletions that coincide with the user's breakpoints are why
  `StepOverDels` looks at what was enabled before.
* `SteppingStaysOnTop` and `OnlyWinchMisses`.  Without SIGWINCH an activation of
  `single_step_breakpoint` is the innermost but for its wait, so the process
  runs no more than one instruction while that breakpoint is disabled (`MInv`).
  Together with `IInv`: a breakpoint of the user that is not enabled is owed by
  such an activation, and only a SIGWINCH lets the process run through it.
* `NobodyRunsUnwatched` and `PcIsTrue`.  The process runs, or has something to
  report, only while somebody is about to wait (`Listening`); whatever
  `waitpid` reports, the program counter is `flow`, or one behind it because
  of a trap that `handle_sigtrap` has yet to take back (`PcFollows`).

* `EveryCommandAdvances` and `CommandsStopWhereTold`, the action properties
  `CommandsAdvance` and `StopsWhereTold`.  An activation does not say on whose
  behalf it was made, and what ends a command depends on it: a stop that ends
  `continue` only wakes `single_step_breakpoint` elsewhere.  `CInv` says that
  each activation has been made by a function that makes it, down to the command
  itself, that whoever is about to wait for a living process has set it running,
  and that a single step is waited for by one that asked for it.  Then, as
  long as no instruction of a command has run, everybody can only go on waiting,
  with no trap in the way (`AInv`, which also says that `inst` never sets the
  process running freely); and the breakpoints a command owes are among the
  addresses it was told, so that a trap reported to anybody but a single step
  is where the command may stop (`SInv`).

* `NextKeepsToItsLine`, the action property `NextRunsOneLine`.  `OtherRowsSeen`
  and `OthersTold` say what the tables contribute: in a program laid out as
  `LinesLaidOut` says, what `next` is told contains every statement of another
  line of the function.  `NInv` carries that to every step until `next` cleans
  up: all of it is enabled or about to be deleted, and none of it is what
  `single_step_breakpoint` disables, which is the address that `next` started
  from.  With `Balanced` of `IInv`, the process meets a trap at each of them.

* `TypeCorrect`.  `TypeOK` needs of the call stack and the stops what the
  invariants above say, and `Types`: the return addresses are a sequence, which
  each call makes longer and each return shorter by one (`ExecutedFrames`), so
  that the frame pointer never refers to a frame that is gone.

The program counter, the types and `next` need the `ProgramsAssumption` of `Tracee`
(addresses are positive, instructions are known ones).  `IInv`, `MInv`, `PInv`,
`CInv`, `AInv`, `SInv` and `NInv` were checked as invariants of the `debugger`
instance before they were proved.

**Only model-checked**: liveness, which is out of the prover's reach:
`CommandsReturn`, `SearchReturns`, `BacktraceReturns` and `StartupSettles`.  Every
invariant and every action property of a passing run is proved.

## Not modelled, and the plan

In order:

1. The file paths and lines of declarations that variables carry, and the files
   of rows in tables that include other files.
2. What the debugged process meets after the end of the session, when its traps
   are still in place: no line of the repository says what it may expect.

Noticed while modelling, without a line in the repository that says otherwise,
and therefore in the model but not a violation run: a file whose header is
rejected as invalid is debugged with uninitialised tables (`Garbage`); a failed
execv leaves a second copy of spray in its loop; a signal before execv makes
spray debug a copy of itself; a program that never calls `main` is waited for
for ever; the handle of a variable is used and released after
`sd_variable_type` has released it; the entries of types are never released,
though the comment at `spray_dwarf.c:1321` leaves that to the caller; a program started without
arguments gets an empty `argv`; location expressions of unsupported operators
leave the location uninitialised.

Left out for good: floating point and the layout, wording and colour of output;
the source printer with its Scheme highlighter, a pure function of text; and
vendored code.
