----------------------------- MODULE MCSession -----------------------------
(***************************************************************************)
(* Command lines, files and lines of input for Session.                    *)
(***************************************************************************)
EXTENDS Session

\* Flags before and behind the file, one flag that spray does not know, and
\* every file alone.
MCCommandLines ==
  {<<>>, <<"-c">>, <<"-x", "exec">>, <<"exec", "-c">>, <<"--no-color", "-c", "dyn", "a", "-x">>,
   <<"absent">>}
  \cup {<<f>> : f \in {"exec", "dyn", "nodebug", "locked", "plain", "object", "stripped"}}

MCDashed == {"-c", "--no-color", "-x"}

Section(name, type, alloc, entry) == [name |-> name, type |-> type, alloc |-> alloc, entry |-> entry]
NullSection == Section("", "NULL", FALSE, "none")
Symtab == Section(".symtab", "SYMTAB", FALSE, "sym")
Strtab == Section(".strtab", "STRTAB", FALSE, "none")

\* An executable made by clang -g.
Exec1 == [runnable |-> TRUE, dwarf |-> TRUE, readable |-> TRUE, odd |-> {}, dyn |-> FALSE,
          shnum |-> 4, sh_size |-> 0, main |-> "start",
          sections |-> <<NullSection, Section(".dynsym", "DYNSYM", TRUE, "sym"), Symtab, Strtab>>]

\* exec: the plain case; dyn: position-independent, with more sections than
\* fit the header and a table of symbols with odd entries; nodebug: made by
\* another compiler; locked: unreadable for mmap; plain: not marked as
\* executable; object: no program headers; stripped: debug information without
\* a table of symbols.
MCFiles ==
  [exec |-> Exec1,
   dyn |-> [Exec1 EXCEPT !.dyn = TRUE, !.shnum = 0, !.sh_size = 5,
             !.sections = <<NullSection, Section(".symtab", "SYMTAB", FALSE, "odd"),
                            Strtab, Symtab, Strtab>>],
   nodebug |-> [Exec1 EXCEPT !.dwarf = FALSE],
   locked |-> [Exec1 EXCEPT !.readable = FALSE],
   plain |-> [Exec1 EXCEPT !.runnable = FALSE, !.main = "other"],
   object |-> [Exec1 EXCEPT !.runnable = FALSE, !.odd = {"phoff", "entsize"}],
   stripped |-> [Exec1 EXCEPT !.sections = <<NullSection, Strtab>>, !.shnum = 2]]

\* "add" is a name and a number, "10" and "0x10" are numbers, "a0" only in
\* hexadecimal, "main.c:3" is a line.
MCIdentifiers == {"add", "hex", "c"}
MCBase10 == {"10"}
MCBase16 == {"10", "0x10", "add", "c"}
MCFileLines == {"main.c:3"}
MCPercent == {"%rax", "%eax"}
MCRegisterNames == {"%rax"}

\* Commands with up to two arguments, and behind them nothing, a filter, or
\* what looks like one.
Words1 == {"p", "set", "b", "delete", "c", "next", "step", "inst", "leave", "a", "zzz", "main.c:3"}
Arguments == {"add", "10", "0x10", "%rax", "%eax", "main.c:3"}
Behind == {<<>>, <<"|", "hex">>, <<"|", "10">>, <<"|">>, <<"10">>, <<"|", "*", "hex">>}

MCLines ==
  {<<>>} \cup {<<w>> \o b : w \in Words1, b \in {<<>>, <<"|", "hex">>, <<"10">>}}
  \cup {<<w, l>> \o b : w \in {"p", "b"}, l \in Arguments, b \in Behind}
  \cup {<<"set", l>> : l \in Arguments}
  \cup {<<"set", l, v>> \o b : l \in {"add", "%eax"}, v \in {"10", "0x10", "%rax"}, b \in Behind}

=============================================================================
