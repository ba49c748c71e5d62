------------------------------ MODULE Lookups ------------------------------
(***************************************************************************)
(* What info.c answers about addresses, lines and functions, one question  *)
(* after another, in whole programs: several files, laid out in any order, *)
(* with the row patterns of unoptimised and optimised code.  The answers   *)
(* are those of LineTable; what the code at an address or on a line is in  *)
(* truth is read off the layout.                                           *)
(***************************************************************************)
EXTENDS LineTable

CONSTANTS Programs,  \* records of units, symbols and subprograms
          LineNumbers

-----------------------------------------------------------------------------
(* The layout that compilers and linkers give a program. *)

FilePath == [dir : STRING, base : STRING, real : STRING]
LineRow == [addr : Nat \ {0}, ln : Nat, stmt : BOOLEAN, prologue_end : BOOLEAN]
CompUnit == [file : FilePath, files : Seq(FilePath), low : Nat, high : Nat, rows : Seq(LineRow)]
Function == [name : STRING, low : Nat, high : Nat, func : {TRUE}]

Covers(s, a) == s.low <= a /\ a < s.high

\* A unit covers its functions, and ends with the last of them.  Its rows
\* ascend, and a last one stands at its end.  Besides its source it was made
\* from headers, which are no unit's source.
UnitsLaidOut(p) ==
  /\ p.units \in Seq(CompUnit)
  /\ \A i, j \in DOMAIN p.units : i # j =>
       p.units[i].high <= p.units[j].low \/ p.units[j].high <= p.units[i].low
  /\ \A i \in DOMAIN p.units :
       LET u == p.units[i]
       IN  /\ u.low < u.high /\ \E s \in Range(p.symbols) : s.high = u.high
           /\ u.rows # <<>>
           /\ \A k \in DOMAIN u.rows :
                IF k = Len(u.rows) THEN u.rows[k].addr = u.high ELSE Covers(u, u.rows[k].addr)
           /\ \A k, l \in DOMAIN u.rows : k < l => u.rows[k].addr <= u.rows[l].addr
           /\ \E k \in DOMAIN u.files : u.files[k] = u.file
           /\ \A k \in DOMAIN u.files : u.files[k] # u.file =>
                \A j \in DOMAIN p.units : ~IsFromFile(p.units[j], u.files[k])

\* A function begins with a row.  If the compiler marks the end of a prologue
\* at the address behind it, it does so in the function, unless that is all one
\* row.
FunctionLaidOut(s, u) ==
  LET own == {k \in DOMAIN u.rows : Covers(s, u.rows[k].addr)}
  IN  /\ u.low <= s.low /\ s.low < s.high /\ s.high <= u.high
      /\ \E k \in own : u.rows[k].addr = s.low
      /\ \/ \A k \in DOMAIN u.rows : u.rows[k].addr = s.high => ~u.rows[k].prologue_end
         \/ \E k \in own : u.rows[k].prologue_end
         \/ \A k, l \in own : k = l

\* The functions do not overlap, and symbols and subprograms agree on them.
FunctionsLaidOut(p) ==
  /\ p.symbols \in Seq(Function) /\ p.subprograms \in Seq(Function)
  /\ Range(p.subprograms) = Range(p.symbols)
  /\ \A i, j \in DOMAIN p.symbols : i # j =>
       p.symbols[i].high <= p.symbols[j].low \/ p.symbols[j].high <= p.symbols[i].low
  /\ \A s \in Range(p.symbols) : \E u \in Range(p.units) : FunctionLaidOut(s, u)

ASSUME ProgramsAssumption ==
  /\ \A p \in Programs : UnitsLaidOut(p) /\ FunctionsLaidOut(p)
  /\ LineNumbers \subseteq Nat

-----------------------------------------------------------------------------

VARIABLES prog,
          asked,   \* the last question: its kind, and what it was about
          answer   \* and what it was answered

vars == <<prog, asked, answer>>

\* The addresses of the functions.
Code == UNION {s.low .. s.high - 1 : s \in Range(prog.symbols)}

Init ==
  /\ prog \in Programs
  /\ asked = [kind |-> "none"]
  /\ answer = NotFound

\* function_start_addr, of a symbol by name: break <function>
AskStart(s) ==
  /\ asked' = [kind |-> "start", func |-> s]
  /\ answer' = FunctionStart(prog.units, prog.symbols, s.name)
  /\ UNCHANGED prog

\* addr_at: break <file>:<line>
AskLine(path, l) ==
  /\ asked' = [kind |-> "line", path |-> path, line |-> l]
  /\ answer' = AddrAt(prog.units, path, l)
  /\ UNCHANGED prog

\* addr_position: step, and every stop that is shown
AskPosition(a) ==
  /\ asked' = [kind |-> "position", addr |-> a]
  /\ answer' = Position(prog.units, prog.symbols, a)
  /\ UNCHANGED prog

\* set_step_over_breakpoints: next
AskLines(a) ==
  /\ asked' = [kind |-> "lines", addr |-> a]
  /\ answer' = LinesAround(prog.units, prog.symbols, prog.subprograms, a)
  /\ UNCHANGED prog

Next ==
  \/ \E s \in Range(prog.symbols) : AskStart(s)
  \/ \E u \in Range(prog.units), l \in LineNumbers : AskLine(u.file, l)
  \/ \E a \in Code : AskPosition(a) \/ AskLines(a)

Spec == Init /\ [][Next]_vars

-----------------------------------------------------------------------------
(* The layout *)

\* The unit and the function at an address, and the rows of a function there.
UnitAt(a) == CHOOSE u \in Range(prog.units) : Covers(u, a)
FunctionAt(a) == CHOOSE s \in Range(prog.symbols) : Covers(s, a)
RowsAt(a) == UnitAt(a).rows
Within(s) == {i \in DOMAIN RowsAt(s.low) : Covers(s, RowsAt(s.low)[i].addr)}

\* Paths are written as realpath writes them, and two files have the same last
\* component only in different directories that are still there.
FilesTellable ==
  /\ \A u \in Range(prog.units) : u.file.real \in {Missing, u.file.dir}
  /\ \A u, v \in Range(prog.units) :
       u # v => \/ u.file.base # v.file.base
                \/ Missing \notin {u.file.real, v.file.real} /\ u.file.dir # v.file.dir

NamesTellable ==
  \A i, j \in DOMAIN prog.symbols : i # j => prog.symbols[i].name # prog.symbols[j].name

\* The units come in the order of their addresses.
InOrder ==
  \A i, j \in DOMAIN prog.units : i < j => prog.units[i].low < prog.units[j].low

\* The first address of a function has one row.
OneFirstRow(s) ==
  \A i, j \in Within(s) : RowsAt(s.low)[i].addr = s.low /\ RowsAt(s.low)[j].addr = s.low => i = j

EndsAt(objects, a) == \E o \in Range(objects) : o.high = a

-----------------------------------------------------------------------------
(* Properties *)

\* break <function> goes to the row that ends the prologue, where the compiler
\* says so, and behind the first instruction otherwise, always in that
\* function.  The units are in order, the function has two rows or more, and the
\* first address one.  Where a unit ends as the function begins, the end of that
\* unit's table is taken for the function, and its first address is the answer
\* (sd_effective_start_addr, get_line_table_index_of_pc).
BreaksBehindPrologue ==
  LET s == asked.func
      rows == RowsAt(s.low)
      ends == {rows[i].addr : i \in {j \in Within(s) : rows[j].prologue_end}}
  IN  /\ asked.kind = "start" /\ FilesTellable /\ NamesTellable
      /\ InOrder /\ OneFirstRow(s) /\ (\E i, j \in Within(s) : i # j)
      => IF EndsAt(prog.units, s.low) THEN answer = s.low
         ELSE IF ends = {} THEN s.low < answer /\ answer < s.high
         ELSE answer \in ends

\* break <file>:<line> goes to that file, and where lines ascend with addresses
\* to the first code of the line, or of the next line that has code; a line
\* behind all code has no address (addr_at, get_line_table_index_of_line,
\* sd_is_die_from_file).
BreaksInFile ==
  LET u == CHOOSE x \in Range(prog.units) : x.file = asked.path
      from == {r \in Range(u.rows) : r.ln >= asked.line}
      ascending == \A i, j \in DOMAIN u.rows : i < j => u.rows[i].ln <= u.rows[j].ln
  IN  asked.kind = "line" /\ FilesTellable
      => /\ answer = NotFound <=> from = {}
         /\ from # {} => \E r \in from :
              /\ answer = r.addr
              /\ ascending => \A x \in from : r.ln <= x.ln /\ r.addr <= x.addr

\* The position of an address is exact where a row begins, and only there, and
\* the line is one the compiler gave that address, in the file the address is
\* from.  No unit ends there: the end of its table would answer
\* (sd_line_entry_from_pc, sd_filepath_from_pc).
ExactMeansRow ==
  LET rows == Range(RowsAt(asked.addr))
      here == {r.ln : r \in {x \in rows : x.addr = asked.addr}}
  IN  asked.kind = "position" /\ FilesTellable /\ ~EndsAt(prog.units, asked.addr)
      => /\ answer.ok /\ answer.exact <=> here # {}
         /\ here # {} => answer.ln \in here

\* From inside a function next sees every statement of it, and beyond them only
\* rows at the address behind it.  The first address of the function has one
\* row, no other function has the name, and none ends at the address
\* (sd_for_each_line, se_symbol_from_addr).
NextSeesFunction ==
  LET a == asked.addr
      s == FunctionAt(a)
      rows == {r \in Range(RowsAt(a)) : r.stmt}
      own == {r \in rows : Covers(s, r.addr)}
      behind == {r \in rows : r.addr = s.high}
  IN  /\ asked.kind = "lines" /\ FilesTellable /\ NamesTellable
      /\ OneFirstRow(s) /\ ~EndsAt(prog.symbols, a)
      => own \subseteq answer /\ answer \subseteq own \union behind

=============================================================================
