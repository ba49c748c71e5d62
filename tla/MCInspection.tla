---------------------------- MODULE MCInspection ----------------------------
(***************************************************************************)
(* Programs for Inspection: a function f right before main, which calls it *)
(* from address 9, and global variables of one and of two bytes.           *)
(***************************************************************************)
EXTENDS Inspection

Base(size, signed) == [tag |-> "base", size |-> size, signed |-> signed]
Node(tag) == [tag |-> tag, size |-> 0, signed |-> FALSE]
Short == <<Base(2, TRUE)>>
Char == <<Base(1, TRUE)>>
UChar == <<Node("modifier"), Base(1, FALSE)>>
PointerTo(type) == <<Node("pointer")>> \o type
Text == <<Node("typedef"), Node("modifier")>> \o PointerTo(<<Node("modifier")>> \o Char)

Always(op, arg) == <<[low |-> 0, high |-> 0, expr |-> <<[op |-> op, arg |-> arg]>>]>>
Nowhere == <<[low |-> 0, high |-> 0, expr |-> <<>>]>>
During(low, high, op, arg) == <<[low |-> low, high |-> high, expr |-> <<[op |-> op, arg |-> arg]>>]>>

Variable(level, name, type, loc) ==
  [tag |-> "variable", level |-> level, name |-> name, low |-> 1, high |-> 0,
   frame |-> <<>>, loc |-> loc, type |-> type]
Parameter(level, name, type, loc) ==
  [Variable(level, name, type, loc) EXCEPT !.tag = "formal_parameter"]
Function(name, low, high, frame) ==
  [tag |-> "subprogram", level |-> 1, name |-> name, low |-> low, high |-> high,
   frame |-> frame, loc |-> <<>>, type |-> <<>>]
Other(tag, level) ==
  [Function("", 1, 0, <<>>) EXCEPT !.tag = tag, !.level = level]

\* g and c are global; f and main have an x each, z is f's alone.  y has a
\* place only at address 9, o was optimised away, u is of no supported type.
\* p and q point to c; q does so through a typedef.
Dies(load) == <<
  Other("compile_unit", 0),
  Variable(1, "g", Short, Always("addr", 4 - load)),
  Variable(1, "c", Char, Always("addr", 6 - load)),
  Variable(1, "u", Append(<<Node("pointer")>>, Node("unsupported")), Always("addr", 4 - load)),
  Function("f", 4, 8, Always("reg", "rbp")),
  Parameter(2, "x", Short, Always("fbreg", -2)),
  Variable(2, "z", UChar, Always("reg", "rcx")),
  Function("ext", 1, 0, <<>>),
  Parameter(2, "y", Short, Always("addr", 4 - load)),
  Function("main", 8, 12, Always("reg", "rbp")),
  Variable(2, "x", Short, Always("fbreg", -4)),
  Variable(2, "p", Text, Always("fbreg", -2)),
  Variable(2, "q", PointerTo(<<Node("typedef")>> \o Char), Always("fbreg", -2)),
  Other("block", 2),
  Variable(3, "y", Short, During(9, 10, "reg", "rax")),
  Variable(3, "o", Char, Nowhere) >>

Symbols == <<
  [name |-> "f", low |-> 4, high |-> 8, func |-> TRUE],
  [name |-> "main", low |-> 8, high |-> 12, func |-> TRUE] >>

Regs(rbp) == [r \in {"rbp", "rax", "rcx", "cs"} |->
                CASE r = "rbp" -> rbp [] r = "rax" -> 20 [] r = "rcx" -> 9 [] OTHER -> 1]

Word(a, w) == [b \in {a, a + 1} |-> IF b = a THEN w % 6 ELSE w \div 6]

\* main's frame is at 18 with its variables from 14, that of f at 10.
MainStack == Word(14, 3) @@ Word(16, 6) @@ Word(18, 0) @@ Word(20, 2)
CalleeStack(load) == MainStack @@ Word(8, 33) @@ Word(10, 18) @@ Word(12, 10 + load)

InMain(pc) == [pc |-> pc, prologue |-> FALSE, regs |-> Regs(18), stack |-> MainStack,
               calls |-> <<"main", "<?>">>, fps |-> <<18>>]
AtMain == [pc |-> 8, prologue |-> TRUE, regs |-> Regs(0), stack |-> MainStack,
           calls |-> <<"main", "<?>">>, fps |-> <<>>]
InF(load) == [pc |-> 6, prologue |-> FALSE, regs |-> Regs(10), stack |-> CalleeStack(load),
              calls |-> <<"f", "main", "<?>">>, fps |-> <<10, 18>>]
AtF(load) == [InF(load) EXCEPT !.pc = 4, !.prologue = TRUE, !.regs = Regs(18)]

MCProgram(load, more) ==
  [dies |-> Dies(load), symbols |-> Symbols, load |-> load,
   memory |-> [a \in 4 .. 23 |-> (a + 1) % 6],
   stops |-> <<InF(load), InMain(9)>> \o more]

MCPrograms == <<MCProgram(0, <<InMain(10), AtMain, AtF(0)>>), MCProgram(3, <<>>)>>
MCNumbers == {-30, -1, 10, 30}
MCNames == {"g", "c", "u", "x", "z", "y", "p", "q", "o"}

=============================================================================
