----------------------------- MODULE LineTable -----------------------------
(***************************************************************************)
(* The look-ups between addresses, lines and functions that stepping and   *)
(* breakpoints rest on: the line tables of spray_dwarf.c, the symbol table *)
(* of spray_elf.c, and info.c on top of both.  All addresses are those of  *)
(* the file (dbg_addr).                                                    *)
(*                                                                         *)
(* A row of a line table is                                                *)
(*   [addr, ln, stmt (new_statement), prologue_end],                       *)
(* and a compilation unit is                                               *)
(*   [file, files, low, high, rows]                                        *)
(* with its rows in the order of the file, end-of-sequence row included:   *)
(* file is the path of its source, files the paths it was made from.  A    *)
(* path is                                                                 *)
(*   [dir, base, real],                                                    *)
(* real the directory that realpath finds it in, or Missing.  A symbol is  *)
(* [name, low, high, func]; high is the address after the last byte.       *)
(***************************************************************************)
EXTENDS Integers, Sequences, SequencesExt

\* A look-up that found nothing.  Indices are from 1 here, from 0 in the code.
NotFound == 0
Missing == "missing"
NoPosition == [ok |-> FALSE, ln |-> 0, exact |-> FALSE]

-----------------------------------------------------------------------------
(* spray_elf.c *)

\* se_symbol_from_addr: the first symbol of the table whose range, taken with
\* its end, holds the address.
SymbolFromAddr(symbols, addr) ==
  SelectInSeq(symbols, LAMBDA s : s.low <= addr /\ addr <= s.high)

\* se_symbol_from_name
SymbolFromName(symbols, name) == SelectInSeq(symbols, LAMBDA s : s.name = name)

-----------------------------------------------------------------------------
(* spray_dwarf.c *)

\* Mutant of IsFromFile: the directory is not compared.
IsNamedAs(u, path) == u.file.base = path.base

\* sd_is_die_from_file: a path that does not exist is compared by its last
\* component, any other by its real directory, too.
IsFromFile(u, path) ==
  u.file.base = path.base /\ (path.real = Missing \/ path.real = u.file.dir)

\* sd_get_line_table: the rows of the first unit from the file.
RowsOf(units, path) ==
  LET u == SelectInSeq(units, LAMBDA x : IsFromFile(x, path))
  IN  IF u = NotFound THEN <<>> ELSE units[u].rows

\* get_line_table_index_of_pc: the first row at or behind pc, unless the row
\* after it is not behind pc.
IndexOfPc(rows, pc) ==
  LET i == SelectInSeq(rows, LAMBDA r : r.addr >= pc)
  IN  IF i # NotFound /\ (i = Len(rows) \/ pc < rows[i + 1].addr) THEN i ELSE NotFound

\* Mutant of IndexOfLine: the line itself is passed over.
IndexBehindLine(rows, lineno) == SelectInSeq(rows, LAMBDA r : r.ln > lineno)

\* get_line_table_index_of_line: the first row on the line or a later one.
IndexOfLine(rows, lineno) == SelectInSeq(rows, LAMBDA r : r.ln >= lineno)

\* sd_filepath_from_pc: the first unit whose range holds pc, end included
\* (sd_check_pc_in_die).
UnitOfPc(units, pc) == SelectInSeq(units, LAMBDA u : u.low <= pc /\ pc <= u.high)

\* sd_line_entry_from_pc: by way of the path of the unit.
EntryFromPc(units, pc) ==
  LET u == UnitOfPc(units, pc)
      rows == RowsOf(units, units[u].file)
      exact == SelectInSeq(rows, LAMBDA r : r.addr = pc)
      near == IndexOfPc(rows, pc)
  IN  CASE u = NotFound -> NoPosition
        [] u # NotFound /\ exact # NotFound ->
             [ok |-> TRUE, ln |-> rows[exact].ln, exact |-> TRUE]
        [] u # NotFound /\ exact = NotFound /\ near # NotFound ->
             [ok |-> TRUE, ln |-> rows[near].ln, exact |-> FALSE]
        [] OTHER -> NoPosition

\* Mutant of LinesOfRange: the last row is left out.
FewerLinesOfRange(rows, low, high) ==
  LET first == IndexOfPc(rows, low)
      behind == SelectInSubSeq(rows, first, Len(rows), LAMBDA r : r.addr >= high)
      last == IF behind = NotFound THEN Len(rows) - 1 ELSE behind - 2
  IN  IF first = NotFound THEN {}
      ELSE {rows[i] : i \in {j \in first .. last : rows[j].stmt}}

\* The last row from first on that is not behind high, for a loop that ends at
\* the first one that is.
LastOfRange(rows, first, high) ==
  LET behind == SelectInSubSeq(rows, first, Len(rows), LAMBDA r : r.addr > high)
  IN  IF behind = NotFound THEN Len(rows) ELSE behind - 1

\* sd_for_each_line: the statement rows of a function, from the row of its low
\* PC up to the first row behind its high PC.  The row at the high PC is in.
\* Its caller does not tell in which order it sees them.
LinesOfRange(rows, low, high) ==
  LET first == IndexOfPc(rows, low)
      last == LastOfRange(rows, first, high)
  IN  IF first = NotFound THEN {}
      ELSE {rows[i] : i \in {j \in first .. last : rows[j].stmt}}

\* sd_get_subprog_pc_range: the first subprogram with the name.
SubprogOfName(subprograms, name) == SelectInSeq(subprograms, LAMBDA d : d.name = name)

\* sd_get_filepaths, searched: of the paths that the units were made from, unit
\* after unit, the first one whose table has a row for low, or none.
FirstFilePath(units, low) ==
  LET HasRow(x) == IndexOfPc(RowsOf(units, x), low) # NotFound
      u == SelectInSeq(units, LAMBDA x : \E i \in DOMAIN x.files : HasRow(x.files[i]))
  IN  IF u = NotFound THEN <<>> ELSE <<units[u].files[SelectInSeq(units[u].files, HasRow)]>>

\* sd_effective_start_addr: in the first table that has a row for the start,
\* the first row of the function that ends a prologue, or the second row.
EffectiveStart(units, low, high) ==
  LET path == FirstFilePath(units, low)
      rows == RowsOf(units, path[1])
      first == IndexOfPc(rows, low)
      ends == SelectInSubSeq(rows, first, LastOfRange(rows, first, high), LAMBDA r : r.prologue_end)
  IN  CASE path = <<>> -> NotFound
        [] path # <<>> /\ ends # NotFound -> rows[ends].addr
        [] path # <<>> /\ ends = NotFound /\ first < Len(rows) -> rows[first + 1].addr
        [] OTHER -> rows[first].addr

-----------------------------------------------------------------------------
(* info.c *)

\* addr_position: a symbol must cover the address, then its line is looked up.
Position(units, symbols, addr) ==
  IF SymbolFromAddr(symbols, addr) = NotFound THEN NoPosition ELSE EntryFromPc(units, addr)

\* Mutant of FunctionStart: the start is handed over as the end.
ShortFunctionStart(units, symbols, name) ==
  LET s == SymbolFromName(symbols, name)
  IN  IF s = NotFound \/ ~symbols[s].func THEN NotFound
      ELSE EffectiveStart(units, symbols[s].low, symbols[s].low)

\* function_start_addr of the function with this name; NotFound is SP_ERR.
FunctionStart(units, symbols, name) ==
  LET s == SymbolFromName(symbols, name)
  IN  IF s = NotFound \/ ~symbols[s].func THEN NotFound
      ELSE EffectiveStart(units, symbols[s].low, symbols[s].high)

\* set_step_over_breakpoints: the lines it visits, those of the function at addr
\* in the file of addr.
LinesAround(units, symbols, subprograms, addr) ==
  LET func == symbols[SymbolFromAddr(symbols, addr)]
      sub == SubprogOfName(subprograms, func.name)
      rows == RowsOf(units, units[UnitOfPc(units, addr)].file)
  IN  IF sub = NotFound THEN {}
      ELSE LinesOfRange(rows, subprograms[sub].low, subprograms[sub].high)

\* addr_at: the address of a line of a file; NotFound is SP_ERR.
AddrAt(units, path, lineno) ==
  LET rows == RowsOf(units, path)
      i == IndexOfLine(rows, lineno)
  IN  IF i = NotFound THEN NotFound ELSE rows[i].addr

=============================================================================
