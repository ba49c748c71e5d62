----------------------------- MODULE MCDebugger -----------------------------
(***************************************************************************)
(* Small programs for Debugger.                                            *)
(***************************************************************************)
EXTENDS Debugger

Op(o) == [op |-> o]
To(o, a) == [op |-> o, to |-> a]
Row(a, l, p) == [addr |-> a, ln |-> l, stmt |-> TRUE, prologue_end |-> p]
Func(n, lo, hi) == [name |-> n, low |-> lo, high |-> hi, func |-> TRUE]
Sub(n, lo, hi) == [name |-> n, low |-> lo, high |-> hi]
Source == [dir |-> "src", base |-> "main.c", real |-> "src"]
Unit(lo, hi, rows) ==
  [file |-> Source, files |-> <<Source>>, low |-> lo, high |-> hi, rows |-> rows]

\* _start calls main; f is called in a loop of main, from the middle of a
\* line.  7 to 9 are one line: argument, call, use of the result.
CallCode ==
  <<To("call", 6), Op("exit"),                      \* 1  _start
    Op("prologue"), Op("plain"), Op("ret"),         \* 3  f
    Op("prologue"), Op("plain"), To("call", 3),     \* 6  main
    Op("plain"), To("loop", 7), Op("ret")>>         \* 9

CallProgram ==
  [code |-> CallCode, start |-> 1, loops |-> 1, load |-> 0,
   symbols |-> <<Func("f", 3, 6), Func("main", 6, 12), Func("_start", 1, 3)>>,
   subprograms |-> <<Sub("f", 3, 6), Sub("main", 6, 12)>>,
   units |-> <<Unit(3, 12,
     <<Row(3, 1, FALSE), Row(4, 2, TRUE), Row(5, 3, FALSE),
       Row(6, 5, FALSE), Row(7, 6, TRUE), Row(10, 7, FALSE), Row(11, 8, FALSE),
       Row(12, 8, FALSE)>>)>>]

\* f calls itself.
RecursiveProgram ==
  [code |-> <<To("call", 6), Op("exit"),
              Op("prologue"), To("callif", 3), Op("ret"),
              Op("prologue"), To("call", 3), Op("ret")>>,
   start |-> 1, loops |-> 2, load |-> 0,
   symbols |-> <<Func("f", 3, 6), Func("main", 6, 9), Func("_start", 1, 3)>>,
   subprograms |-> <<Sub("f", 3, 6), Sub("main", 6, 9)>>,
   units |-> <<Unit(3, 9,
     <<Row(3, 1, FALSE), Row(4, 2, TRUE), Row(5, 3, FALSE),
       Row(6, 5, FALSE), Row(7, 6, TRUE), Row(8, 7, FALSE), Row(9, 7, FALSE)>>)>>]

\* main calls the function that lies right behind it.
BehindProgram ==
  [code |-> <<To("call", 3), Op("exit"),
              Op("prologue"), To("call", 6), Op("ret"),
              Op("prologue"), Op("ret")>>,
   start |-> 1, loops |-> 0, load |-> 0,
   symbols |-> <<Func("main", 3, 6), Func("g", 6, 8), Func("_start", 1, 3)>>,
   subprograms |-> <<Sub("main", 3, 6), Sub("g", 6, 8)>>,
   units |-> <<Unit(3, 8,
     <<Row(3, 1, FALSE), Row(4, 2, TRUE), Row(5, 3, FALSE),
       Row(6, 5, FALSE), Row(7, 6, TRUE), Row(8, 6, FALSE)>>)>>]

\* That program loaded elsewhere, as a position-independent executable is.
Moved(p, d) ==
  LET instr(i) == IF "to" \in DOMAIN i THEN [i EXCEPT !.to = @ + d] ELSE i
  IN  [p EXCEPT !.load = d, !.start = @ + d,
                !.code = [a \in {x + d : x \in DOMAIN p.code} |-> instr(p.code[a - d])]]
PieProgram == Moved(BehindProgram, 20)

\* A system call and an int3 of the program's own.
TrapProgram ==
  [code |-> <<To("call", 3), Op("exit"),
              Op("prologue"), Op("syscall"), Op("mid"), Op("int3"), Op("ret")>>,
   start |-> 1, loops |-> 0, load |-> 0,
   symbols |-> <<Func("main", 3, 8), Func("_start", 1, 3)>>,
   subprograms |-> <<Sub("main", 3, 8)>>,
   units |-> <<Unit(3, 8,
     <<Row(3, 1, FALSE), Row(4, 2, TRUE), Row(6, 3, FALSE), Row(7, 4, FALSE),
       Row(8, 4, FALSE)>>)>>]

\* while (1);
SpinProgram ==
  [code |-> <<To("call", 3), Op("exit"), Op("prologue"), To("jump", 4), Op("ret")>>,
   start |-> 1, loops |-> 0, load |-> 0,
   symbols |-> <<Func("main", 3, 6), Func("_start", 1, 3)>>,
   subprograms |-> <<Sub("main", 3, 6)>>,
   units |-> <<Unit(3, 6,
     <<Row(3, 1, FALSE), Row(4, 2, TRUE), Row(5, 3, FALSE), Row(6, 3, FALSE)>>)>>]

\* No line information, and no main.
BareProgram == [SpinProgram EXCEPT !.units = <<>>]
NoMainProgram == [SpinProgram EXCEPT !.symbols = <<>>]

MCLocations == {[function |-> "f"], [file |-> Source, line |-> 2], [address |-> 9]}
MCPrograms == {CallProgram, PieProgram, RecursiveProgram, BehindProgram, TrapProgram,
               SpinProgram, BareProgram, NoMainProgram}
MCSpinProgram == {SpinProgram}
MCCallProgram == {CallProgram}
MCPieProgram == {PieProgram}
MCBehindProgram == {BehindProgram}

=============================================================================
