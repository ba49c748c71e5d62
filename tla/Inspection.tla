----------------------------- MODULE Inspection -----------------------------
(***************************************************************************)
(* What the user does while the tracee stands still: print and set of      *)
(* variables, memory and registers, and backtrace (debugger.c, info.c,     *)
(* backtrace.c), on top of Variables.                                      *)
(*                                                                         *)
(* A program is a record                                                   *)
(*   [dies, symbols, load, memory, stops],                                 *)
(* whose stops are numbered.  A stop is what the tracee looks like when it *)
(* stands there,                                                           *)
(*   [pc, prologue, regs, stack, calls, fps]:                              *)
(* stack the bytes of its frames, calls the names of the functions that    *)
(* really are active, innermost first, fps the frame pointers of all of    *)
(* them but the outermost, and prologue whether the register still holds   *)
(* the caller's.  How the tracee gets from stop to stop is the subject of  *)
(* Debugger.                                                               *)
(***************************************************************************)
EXTENDS Variables

CONSTANTS
  Programs,   \* the programs to debug, by number
  Names,      \* the names of variables that a user types
  Numbers,    \* the values that a user types
  Places,     \* the addresses that a user types
  Registers,  \* the registers that a user types
  Filters,    \* the filters: dec, deref, or hex for any that shows the bits
  Protected,  \* the registers of which the kernel refuses new values
  MaxSets,    \* bound on the set commands
  MaxFrames   \* bound on the frames that are kept of a backtrace

ASSUME BoundsAssumption == MaxSets \in Nat /\ MaxFrames \in Nat \ {0}

VARIABLES
  prog,   \* the number of the program, which does not change
  stop,   \* the number of the stop where it stands
  mem,    \* its bytes, by mapped address
  regs,   \* its registers
  alive,  \* it has not been killed
  walk,   \* the loop of init_backtrace, or NoWalk
  reply,  \* what the last command has printed
  sets    \* the set commands so far

vars == <<prog, stop, mem, regs, alive, walk, reply, sets>>

\* The programs as a table, so that TLC evaluates them once.
ProgramTable == [p \in DOMAIN Programs |-> Programs[p]]
P == ProgramTable[prog]
At == P.stops[stop]

NoWalk == [fp |-> 0, frames |-> <<>>]
Ready == walk = NoWalk
Silent == [is |-> "silent"]

WithStack(bytes, stack) ==
  [a \in DOMAIN bytes |-> IF a \in DOMAIN stack THEN stack[a] ELSE bytes[a]]

Init ==
  /\ prog \in DOMAIN Programs /\ stop \in DOMAIN P.stops
  /\ mem = WithStack(P.memory, At.stack) /\ regs = At.regs
  /\ alive = TRUE /\ walk = NoWalk /\ reply = Silent /\ sets = 0

\* The tracee runs to another stop.
Run ==
  /\ Ready /\ alive
  /\ \E s \in DOMAIN P.stops :
       stop' = s /\ regs' = P.stops[s].regs /\ mem' = WithStack(mem, P.stops[s].stack)
  /\ reply' = Silent
  /\ UNCHANGED <<prog, alive, walk, sets>>

\* SIGKILL from outside: from now on every ptrace request fails.
Kill ==
  /\ alive /\ alive' = FALSE /\ reply' = Silent
  /\ UNCHANGED <<prog, stop, mem, regs, walk, sets>>

-----------------------------------------------------------------------------
(* Reading and writing: the words that a read can yield, none if it fails. *)

Mapped(a) == a .. a + WORD - 1 \subseteq DOMAIN mem

\* A byte of a word, from the lowest one on, and the word with the bytes that
\* are stored from a on.
Byte(w, i) == (w \div BYTE ^ i) % BYTE
WordAt(m, a) == CHOOSE w \in WordValue : \A i \in 0 .. WORD - 1 : Byte(w, i) = m[a + i]

\* pt_read_memory
ReadIn(m, a) == IF Mapped(a) THEN {WordAt(m, a)} ELSE {}
ReadMemory(a) == IF alive THEN ReadIn(mem, a) ELSE {}

\* Mutant of Stored: one byte too many is written.
StoredLong(m, a, w) ==
  [b \in DOMAIN m |-> IF b \in a .. a + WORD THEN Byte(w, b - a) ELSE m[b]]

\* The memory after a word was written.
Stored(m, a, w) ==
  [b \in DOMAIN m |-> IF b \in a .. a + WORD - 1 THEN Byte(w, b - a) ELSE m[b]]

\* The word that a read has yielded.
Yielded(read) == CHOOSE w \in read : TRUE

\* get_register_value
ReadRegister(r) == IF alive THEN {regs[r]} ELSE {}

\* exec_print_variable reads the place of a variable; a location that was
\* left uninitialised may have neither of the two tags.
ReadLocation(l) ==
  CASE l.kind = "addr" -> ReadMemory(l.addr)
    [] l.kind = "reg" -> ReadRegister(l.reg)
    [] OTHER -> {}

Garbage ==
  {[kind |-> "neither"]} \cup {LocAddr(a) : a \in Places} \cup {LocReg(r) : r \in DOMAIN regs}

\* The numbers that fit a long.
IsLong(n) == 0 - BYTE ^ WORD \div 2 <= n /\ n < BYTE ^ WORD \div 2

\* parse_num: strtol saturates at the least and at the largest long.
ParseNum(n) ==
  LET half == BYTE ^ WORD \div 2
  IN  IF IsLong(n) THEN n % BYTE ^ WORD ELSE IF n < 0 THEN half ELSE half - 1

\* get_dbg_pc: 0 stands for the register of a dead process.
DbgPc == IF alive THEN At.pc ELSE 0 - P.load

\* print_format: dec is for signed numbers, all other filters show the bits.
PrintFormat(word, filter) == IF filter = "dec" THEN Signed(WORD, word) ELSE word

-----------------------------------------------------------------------------
(* Replies. *)

Command(do, on, name, at, filter, typed) ==
  [do |-> do, on |-> on, name |-> name, at |-> at, filter |-> filter, typed |-> typed]

Failed == [is |-> "failed"]

Answer(is, cmd, entry, loc, value) ==
  [is |-> is, cmd |-> cmd, entry |-> entry, loc |-> loc, value |-> value]

\* Mutant of PrintFiltered: the type of a pointer is not looked at.
PrintFilteredRaw(m, is, cmd, entry, loc, word) ==
  LET read == ReadIn(m, word)
      type == P.dies[entry].type
  IN  IF cmd.filter = "deref"
      THEN IF read = {} THEN Failed
           ELSE Answer(is, cmd, entry, loc, Yielded(read))
      ELSE Answer(is, cmd, entry, loc,
                  IF cmd.on = "var" THEN PrintVarValue(type, word, cmd.filter)
                  ELSE PrintFormat(word, cmd.filter))

\* print_filtered.  The type is looked at only for the print of a variable.
PrintFiltered(m, is, cmd, entry, loc, word) ==
  LET typed == cmd.on = "var" /\ is = "shown"
      type == P.dies[entry].type
      at == IF typed THEN Mask(SizeOf(type), word) ELSE word
      read == ReadIn(m, at)
      deref == Yielded(read)
  IN  CASE cmd.filter = "deref" /\ read = {} -> Failed
        [] cmd.filter = "deref" /\ read # {} ->
             Answer(is, cmd, entry, loc,
                    IF typed THEN PrintVarDerefValue(type, deref) ELSE deref)
        [] OTHER ->
             Answer(is, cmd, entry, loc,
                    IF cmd.on = "var" THEN PrintVarValue(type, word, cmd.filter)
                    ELSE PrintFormat(word, cmd.filter))

\* The read that confirms a write fails only if the tracee is killed between.
Confirmed(m, cmd, entry, loc, word) ==
  \/ UNCHANGED alive /\ reply' = PrintFiltered(m, "confirmed", cmd, entry, loc, word)
  \/ alive' = FALSE /\ reply' = Failed

-----------------------------------------------------------------------------
(* The commands. *)

\* exec_print_memory
PrintMemory(a, filter) ==
  LET cmd == Command("print", "mem", "", a, filter, 0)
  IN  /\ Ready
      /\ IF ReadMemory(a) = {} THEN reply' = Failed
         ELSE \E w \in ReadMemory(a) : reply' = PrintFiltered(mem, "shown", cmd, 0, LocAddr(a), w)
      /\ UNCHANGED <<prog, stop, mem, regs, alive, walk, sets>>

\* exec_print_register
PrintRegister(r, filter) ==
  LET cmd == Command("print", "reg", r, 0, filter, 0)
  IN  /\ Ready
      /\ IF ReadRegister(r) = {} THEN reply' = Failed
         ELSE \E w \in ReadRegister(r) : reply' = PrintFiltered(mem, "shown", cmd, 0, LocReg(r), w)
      /\ UNCHANGED <<prog, stop, mem, regs, alive, walk, sets>>

\* init_var: the entry that a name stands for, and its places.  What depends on
\* the program only is tabulated for the addresses where it can be looked at.
Pcs(p) == {0 - Programs[p].load} \cup
          {Programs[p].stops[s].pc : s \in DOMAIN Programs[p].stops}
Entries ==
  [p \in DOMAIN Programs |->
    [pc \in Pcs(p) |-> [name \in Names |-> VariableEntry(Programs[p].dies, pc, name)]]]
Frames ==
  [p \in DOMAIN Programs |->
    [pc \in Pcs(p) |->
      FrameRegisters(Programs[p].dies, Programs[p].symbols, pc, Programs[p].load)]]

Entry(name) == Entries[prog][DbgPc][name]

Locations(entry) ==
  LET base == UNION {ReadRegister(r) : r \in Frames[prog][DbgPc]}
  IN  IF entry = NotFound THEN {}
      ELSE EvalLoclist(P.dies[entry].loc, DbgPc, base, P.load, Garbage)

\* exec_print_variable
PrintVariable(name, filter) ==
  LET cmd == Command("print", "var", name, 0, filter, 0)
      entry == Entry(name)
      places == Locations(entry)
  IN  /\ Ready
      /\ \/ places = {} /\ reply' = Failed
         \/ \E l \in places :
              IF ReadLocation(l) = {} THEN reply' = Failed
              ELSE \E w \in ReadLocation(l) :
                     reply' = PrintFiltered(mem, "shown", cmd, entry, l, w)
      /\ UNCHANGED <<prog, stop, mem, regs, alive, walk, sets>>

\* exec_set_memory
SetMemory(a, n, filter) ==
  LET cmd == Command("set", "mem", "", a, filter, n)
      word == ParseNum(n)
  IN  /\ Ready /\ sets < MaxSets /\ sets' = sets + 1
      /\ IF alive /\ Mapped(a)
         THEN mem' = Stored(mem, a, word) /\ Confirmed(Stored(mem, a, word), cmd, 0, LocAddr(a), word)
         ELSE reply' = Failed /\ UNCHANGED <<mem, alive>>
      /\ UNCHANGED <<prog, stop, regs, walk>>

\* Mutant of SetRegister: the confirmation repeats what was to be written.
SetRegisterAssumed(r, n, filter) ==
  LET cmd == Command("set", "reg", r, 0, filter, n)
      word == ParseNum(n)
  IN  /\ Ready /\ sets < MaxSets /\ sets' = sets + 1
      /\ regs' = IF alive /\ r \notin Protected THEN [regs EXCEPT ![r] = word] ELSE regs
      /\ IF alive THEN Confirmed(mem, cmd, 0, LocReg(r), word)
         ELSE reply' = Failed /\ UNCHANGED alive
      /\ UNCHANGED <<prog, stop, mem, walk>>

\* exec_set_register goes on after a refused write, and confirms what it
\* reads then.
SetRegister(r, n, filter) ==
  LET cmd == Command("set", "reg", r, 0, filter, n)
      word == ParseNum(n)
  IN  /\ Ready /\ sets < MaxSets /\ sets' = sets + 1
      /\ regs' = IF alive /\ r \notin Protected THEN [regs EXCEPT ![r] = word] ELSE regs
      /\ IF alive THEN Confirmed(mem, cmd, 0, LocReg(r), IF r \in Protected THEN regs[r] ELSE word)
         ELSE reply' = Failed /\ UNCHANGED alive
      /\ UNCHANGED <<prog, stop, mem, walk>>

\* exec_set_variable writes a whole word whatever the type, and confirms the
\* word it was given.  For a place with neither tag it confirms what it never
\* wrote.
SetVariable(name, n, filter) ==
  LET cmd == Command("set", "var", name, 0, filter, n)
      entry == Entry(name)
      places == Locations(entry)
      word == ParseNum(n)
  IN  /\ Ready /\ sets < MaxSets /\ sets' = sets + 1
      /\ \/ places = {} /\ reply' = Failed /\ UNCHANGED <<mem, regs, alive>>
         \/ \E l \in places :
              IF l.kind # "neither" /\ ReadLocation(l) = {}
              THEN reply' = Failed /\ UNCHANGED <<mem, regs, alive>>
              ELSE LET after == IF l.kind = "addr" THEN Stored(mem, l.addr, word) ELSE mem IN
                   /\ mem' = after
                   /\ regs' = IF l.kind = "reg" THEN [regs EXCEPT ![l.reg] = word] ELSE regs
                   /\ Confirmed(after, cmd, entry, l, word)
      /\ UNCHANGED <<prog, stop, walk>>

-----------------------------------------------------------------------------
(* exec_backtrace and init_backtrace.  Frames are collected in front of    *)
(* those before them, so that the outermost one is printed first.          *)

\* init_call_frame: what is printed of a frame, by the symbol at its address.
SymbolName(symbols, pc) ==
  LET s == SymbolFromAddr(symbols, pc)
  IN  IF s = NotFound THEN "<?>" ELSE symbols[s].name

FrameName(pc) == SymbolName(P.symbols, pc)

NoBacktrace == [is |-> "frames", frames |-> <<>>]
Listed(frames) == [is |-> "frames", frames |-> frames]

\* The first frame is that of the program counter.
BacktraceCommand ==
  /\ Ready
  /\ LET first == <<FrameName(DbgPc)>>
     IN  CASE ~alive -> reply' = NoBacktrace /\ UNCHANGED walk
           [] alive /\ regs["rbp"] = 0 -> reply' = Listed(first) /\ UNCHANGED walk
           [] OTHER -> walk' = [fp |-> regs["rbp"], frames |-> first] /\ reply' = Silent
  /\ UNCHANGED <<prog, stop, mem, regs, alive, sets>>

\* Mutant of BacktraceFrame: the frame pointer is updated first.
BacktraceFrameSwapped ==
  /\ ~Ready
  /\ LET fps == ReadMemory(walk.fp)
     IN  IF fps = {} THEN reply' = NoBacktrace /\ walk' = NoWalk
         ELSE \E fp \in fps :
           LET rets == ReadMemory(fp + WORD)
           IN  IF rets = {} THEN reply' = NoBacktrace /\ walk' = NoWalk
               ELSE \E ret \in rets :
                 LET frames == <<FrameName(ret)>> \o walk.frames
                 IN  IF fp = 0 THEN reply' = Listed(frames) /\ walk' = NoWalk
                     ELSE walk' = [fp |-> fp, frames |-> frames] /\ UNCHANGED reply
  /\ UNCHANGED <<prog, stop, mem, regs, alive, sets>>

\* Mutant of BacktraceFrame: the frame pointer is not updated.
BacktraceFrameStuck ==
  /\ ~Ready
  /\ IF ReadMemory(walk.fp) = {} THEN reply' = NoBacktrace /\ walk' = NoWalk
     ELSE /\ walk' = [walk EXCEPT !.frames = IF Len(@) < MaxFrames THEN <<"<?>">> \o @ ELSE @]
          /\ UNCHANGED reply
  /\ UNCHANGED <<prog, stop, mem, regs, alive, sets>>

\* One round of the loop.  The return address is an address of the process,
\* and is looked up as one of the file.
BacktraceFrame ==
  /\ ~Ready
  /\ LET rets == ReadMemory(walk.fp + WORD)
         fps == ReadMemory(walk.fp)
     IN  IF rets = {} \/ fps = {} THEN reply' = NoBacktrace /\ walk' = NoWalk
         ELSE \E ret \in rets, fp \in fps :
           LET frames == IF Len(walk.frames) < MaxFrames
                         THEN <<FrameName(ret)>> \o walk.frames ELSE walk.frames
           IN  IF fp = 0 THEN reply' = Listed(frames) /\ walk' = NoWalk
               ELSE walk' = [fp |-> fp, frames |-> frames] /\ UNCHANGED reply
  /\ UNCHANGED <<prog, stop, mem, regs, alive, sets>>

Next ==
  \/ Run \/ Kill \/ BacktraceCommand \/ BacktraceFrame
  \/ \E f \in Filters \cup {"none"} :
       \/ \E a \in Places : PrintMemory(a, f)
       \/ \E r \in Registers : PrintRegister(r, f)
       \/ \E x \in Names : PrintVariable(x, f)
  \/ \E f \in Filters, n \in Numbers :
       \/ \E a \in Places : SetMemory(a, n, f)
       \/ \E r \in Registers : SetRegister(r, n, f)
       \/ \E x \in Names : SetVariable(x, n, f)

Spec == Init /\ [][Next]_vars

\* The loop of init_backtrace waits for nobody.
FairSpec == Spec /\ WF_vars(BacktraceFrame)

-----------------------------------------------------------------------------
(* What the compiler and the calling convention make of a program. *)

\* A location list names registers of the process, and numbers.
ListLaidOut(loclist, registers) ==
  /\ loclist \in Seq(Range(loclist))
  /\ \A e \in Range(loclist) :
       /\ e.expr \in Seq(Range(e.expr))
       /\ \A op \in Range(e.expr) :
            /\ op.op = "reg" => op.arg \in registers
            /\ op.op \in {"addr", "fbreg"} => op.arg \in Int

\* C has no functions inside functions.
NotNested(dies) ==
  \A f, g \in DOMAIN dies :
    f < g /\ dies[f].tag = "subprogram" /\ dies[g].tag = "subprogram" =>
      \E m \in f + 1 .. g : dies[m].level <= dies[f].level

ASSUME ProgramsAssumption ==
  \A p \in DOMAIN Programs :
    LET dies == Programs[p].dies
    IN  /\ Programs[p].load \in Nat
        /\ dies \in Seq(Range(dies)) /\ NotNested(dies)
        /\ \A d \in Range(dies) :
             /\ {d.level, d.low, d.high} \subseteq Nat
             /\ d.type \in Seq([tag : STRING, size : 0 .. WORD, signed : BOOLEAN])
             /\ \A n \in Range(d.type) : n.tag = "base" => n.size # 0
             /\ \A s \in DOMAIN Programs[p].stops :
                  /\ ListLaidOut(d.loc, DOMAIN Programs[p].stops[s].regs)
                  /\ ListLaidOut(d.frame, DOMAIN Programs[p].stops[s].regs)

\* The frames are linked as the calling convention has it: the frame pointer of
\* the caller at that of a function, its return address behind that, 0 where
\* the outermost function would have one.
Linked(p, at) ==
  LET name(pc) == SymbolName(Programs[p].symbols, pc)
  IN  /\ at.fps \in Seq(Nat \ {0}) /\ at.calls \in Seq(STRING)
      /\ Len(at.calls) = Len(at.fps) + 1 /\ Len(at.calls) <= MaxFrames
      /\ at.regs["rbp"] = (IF at.fps = <<>> THEN 0 ELSE at.fps[1])
      /\ at.calls[1] = name(at.pc)
      /\ \A k \in DOMAIN at.fps :
           /\ at.fps[k] .. at.fps[k] + 2 * WORD - 1 \subseteq DOMAIN at.stack
           /\ WordAt(at.stack, at.fps[k]) = (IF k = Len(at.fps) THEN 0 ELSE at.fps[k + 1])
           /\ at.calls[k + 1] = name(WordAt(at.stack, at.fps[k] + WORD))

ASSUME StopsAssumption ==
  \A p \in DOMAIN Programs : \A s \in DOMAIN Programs[p].stops :
    LET at == Programs[p].stops[s]
    IN  /\ at.pc \in Nat
        /\ at.regs \in [DOMAIN at.regs -> WordValue]
        /\ Registers \cup {"rbp"} \subseteq DOMAIN at.regs
        /\ DOMAIN at.stack \subseteq DOMAIN Programs[p].memory
        /\ ~at.prologue /\ Programs[p].load = 0 => Linked(p, at)

ASSUME InputsAssumption == Numbers \subseteq Int /\ Places \subseteq WordValue

\* Words are told apart by their bytes.
ASSUME BytesAssumption ==
  \A v, w \in WordValue : (\A i \in 0 .. WORD - 1 : Byte(v, i) = Byte(w, i)) => v = w

-----------------------------------------------------------------------------
(* Properties. *)

OfVariable == reply.is \in {"shown", "confirmed"} /\ reply.cmd.on = "var"

\* The functions that an entry lies in, from the tree of the entries.
Enclosing(i) ==
  {f \in DOMAIN P.dies :
     /\ P.dies[f].tag = "subprogram" /\ f < i
     /\ \A m \in (f + 1) .. i : P.dies[m].level > P.dies[f].level}

Visible(i) ==
  \E f \in Enclosing(i) : P.dies[f].low <= At.pc /\ At.pc < P.dies[f].high

AtEndOfFunction ==
  \E f \in DOMAIN P.dies : P.dies[f].tag = "subprogram" /\ P.dies[f].high = At.pc

\* print and set mean the variable of the function that the tracee stands in,
\* whatever else has the same name and in whatever order the functions come.
\* At the first instruction of a function right behind another one, both
\* count as entered, and a dead process stands nowhere.
OwnVariableFirst ==
  OfVariable /\ alive /\ ~AtEndOfFunction =>
    LET own == {i \in DOMAIN P.dies : IsVariable(P.dies[i], reply.cmd.name) /\ Visible(i)}
    IN  own # {} => reply.entry \in own

\* What is confirmed as read after a write is what a read yields, although
\* the write to a register may have been refused and a variable is not read.
ConfirmTrue ==
  reply.is = "confirmed" /\ reply.loc.kind # "neither" /\ alive =>
    \E w \in ReadLocation(reply.loc) :
      reply = PrintFiltered(mem, "confirmed", reply.cmd, reply.entry, reply.loc, w)

\* Behind the prologue, with the stack as the program left it and no load
\* address, the backtrace lists exactly the active functions.
BacktraceTrue ==
  reply.is = "frames" /\ alive /\ ~At.prologue /\ sets = 0 /\ P.load = 0 =>
    reply.frames = Reverse(At.calls)

\* The one value that has these bits in a variable of the type: a pointer is
\* a word, a number has the size and the sign of its base type.
ValueIn(type, n) ==
  LET p == CHOOSE i \in DOMAIN type :
             /\ type[i].tag \notin {"modifier", "typedef"}
             /\ \A j \in 1 .. i - 1 : type[j].tag \in {"modifier", "typedef"}
      count == BYTE ^ (IF type[p].tag = "pointer" THEN WORD ELSE type[p].size)
      least == IF type[p].tag = "base" /\ type[p].signed THEN 0 - count \div 2 ELSE 0
  IN  CHOOSE v \in least .. least + count - 1 : (v - n) % count = 0

\* A value that was set is the value that is printed next, unless strtol cut
\* it off at either end.
SetThenShow ==
  [][/\ reply.is = "confirmed" /\ reply.cmd.on = "var" /\ reply.loc.kind # "neither"
     /\ IsLong(reply.cmd.typed)
     /\ reply'.is = "shown" /\ reply'.cmd.on = "var" /\ reply'.cmd.filter = "none"
     /\ reply'.cmd.name = reply.cmd.name /\ reply'.loc = reply.loc
     => reply'.value = ValueIn(P.dies[reply.entry].type, reply.cmd.typed)]_vars

\* Where the value of the variable just set is stored.
Storage(r) ==
  IF r.loc.kind = "addr"
  THEN r.loc.addr .. r.loc.addr + SizeOf(P.dies[r.entry].type) - 1 ELSE {}

\* The set of a variable leaves alone what is not part of it, if its type is
\* as wide as a word.
WideSetsKeepNeighbours ==
  [][sets' # sets /\ reply'.is = "confirmed" /\ reply'.cmd.on = "var"
     /\ SizeOf(P.dies[reply'.entry].type) = WORD =>
       \A a \in DOMAIN mem \ Storage(reply)' : mem'[a] = mem[a]]_vars

\* A pointer to a base type, up to modifiers; the pointer may be hidden in a
\* typedef, what it points to may not.
PointsTo(pointer, type) ==
  /\ \E p \in 1 .. Len(pointer) - 1 :
       /\ pointer[p].tag = "pointer"
       /\ \A i \in 1 .. p - 1 : pointer[i].tag \in {"modifier", "typedef"}
       /\ \A i \in p + 1 .. Len(pointer) - 1 : pointer[i].tag = "modifier"
  /\ \A i \in 1 .. Len(type) - 1 : type[i].tag = "modifier"
  /\ Last(pointer) = Last(type) /\ Last(type).tag = "base"

\* What a variable that points to another one of that type shows with deref
\* is what that one shows.
PointeeShown ==
  [][/\ reply.is = "shown" /\ reply.cmd.on = "var" /\ reply.cmd.filter = "none"
     /\ reply'.is = "shown" /\ reply'.cmd.on = "var" /\ reply'.cmd.filter = "deref"
     /\ reply.loc.kind = "addr" /\ reply.loc.addr \in ReadLocation(reply'.loc)
     /\ PointsTo(P.dies[reply'.entry].type, P.dies[reply.entry].type)
     => reply'.value = reply.value]_vars

\* The chain of saved frame pointers from here, as far as memory goes.
ChainEnds ==
  LET fp[n \in 0 .. BYTE ^ WORD] ==
        IF n = 0 THEN walk.fp
        ELSE LET callee == fp[n - 1]
             IN  IF callee # 0 /\ Mapped(callee) THEN WordAt(mem, callee) ELSE 0
  IN  fp[BYTE ^ WORD] = 0

\* The backtrace returns unless the saved frame pointers form a cycle.
BacktraceReturns == (~Ready /\ ChainEnds) ~> Ready

\* "The first global variable with the given name is chosen" when there is
\* none in scope.
FallbackIsGlobal ==
  OfVariable /\ ~AtEndOfFunction =>
    Visible(reply.entry) \/ Enclosing(reply.entry) = {}

=============================================================================
