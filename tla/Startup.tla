------------------------------ MODULE Startup ------------------------------
(***************************************************************************)
(* From the command line of spray to its prompt: the flags and arguments   *)
(* (args.c, spray.c), the checks of the file (spray_elf.c, info.c), and    *)
(* the two processes that setup_debugger makes of one.                     *)
(*                                                                         *)
(* The child is a copy of spray until execv makes it the program.  From    *)
(* PTRACE_TRACEME on, if it is granted, it is the tracee, and any signal   *)
(* stops it wherever it is.  Anybody may kill it at any time.  (A signal   *)
(* that stops a child nobody traces only delays it, and is left out.)      *)
(*                                                                         *)
(* A file is a record [runnable, dwarf, readable, odd, dyn, shnum,         *)
(* sh_size, sections, main]: whether execv can load it, sd_dwarf_init      *)
(* accepts it, open and mmap work; the fields of its ELF header with a     *)
(* value that parse_elf_header rejects; ET_DYN; e_shnum and sh_size of the *)
(* first section header; the section headers, each                         *)
(* [name, type, alloc, entry]; and what is known of main: "start", "other" *)
(* for a symbol without a start address, or "none".                        *)
(***************************************************************************)
EXTENDS Integers, Sequences, SequencesExt

CONSTANTS
  CommandLines, \* argv without the name of spray itself
  Dashed,       \* the words that begin with a dash
  Files,        \* the files that exist, by name
  MaxSignals    \* bound on the signals that stop the child before the prompt

ASSUME LinesAssumption == CommandLines \subseteq Seq(STRING) /\ Dashed \subseteq STRING
ASSUME SignalsAssumption == MaxSignals \in Nat

VARIABLES
  argv,    \* the words given to spray
  args,    \* GLOBAL_ARGS: [file, args]
  stage,   \* where the process of the debugger is
  tables,  \* sect_table of the ELF file, or Garbage if it was never stored
  child,   \* what runs in the child, or where it has stopped: see ChildStates
  traced,  \* PTRACE_TRACEME was granted to the child
  image,   \* the argv that execv gave the child's program, or NoImage
  copies,  \* the processes that run run_debugger
  winch,   \* the child was stopped last by SIGWINCH
  signals  \* how many signals have stopped the child

signalVars == <<winch, signals>>
startVars == <<argv, args, stage, tables, child, traced, image, copies, signalVars>>

\* No child; the copy of spray, running or stopped by a signal; the program,
\* untraced, or traced and stopped, running, or at the breakpoint of main.
ChildStates == {"none", "spray", "halted", "program", "stopped", "running", "at_main", "dead"}

NoArgs == [file |-> "", args |-> <<>>]
NoImage == <<"spray">>
Garbage == [symtab |-> -1, strtab |-> -1]
Settled == {"prompt", "refused", "ended", "aborted"}

StartInit ==
  /\ argv \in CommandLines /\ args = NoArgs
  /\ stage = "args" /\ tables = Garbage
  /\ child = "none" /\ traced = FALSE /\ image = NoImage /\ copies = {}
  /\ winch = FALSE /\ signals = 0

-----------------------------------------------------------------------------
(* args.c *)

\* parse_short_flag, parse_long_flag
ValidFlags == {"-c", "--no-color"}

\* parse_flags: the index of the first word that is no flag, 0 for an error.
ParseFlags(words) ==
  LET i == SelectInSeq(words, LAMBDA w : w \notin Dashed)
  IN  IF i # 0 /\ \A k \in 1 .. i - 1 : words[k] \in ValidFlags THEN i ELSE 0

\* Mutant of ParseArgs: args begins behind the name of the file.
ParseArgsBehind(words) ==
  LET i == ParseFlags(words)
  IN  [file |-> words[i],
       args |-> IF i < Len(words) THEN SubSeq(words, i + 1, Len(words)) ELSE <<>>]

\* parse_args and set_args: without arguments not even the name is passed on.
ParseArgs(words) ==
  LET i == ParseFlags(words)
  IN  [file |-> words[i],
       args |-> IF i < Len(words) THEN SubSeq(words, i, Len(words)) ELSE <<>>]

\* setup_args, called by main
SetupArgs ==
  /\ stage = "args"
  /\ IF ParseFlags(argv) = 0 THEN stage' = "refused" /\ UNCHANGED args
     ELSE stage' = "access" /\ args' = ParseArgs(argv)
  /\ UNCHANGED <<argv, tables, child, traced, image, copies, signalVars>>

-----------------------------------------------------------------------------
(* spray_elf.c *)

\* parse_elf_header: what is looked at in which order, and the verdict.
HeaderChecks ==
  << <<"magic", "invalid">>, <<"class", "dislike">>, <<"data", "dislike">>,
     <<"osabi", "dislike">>, <<"version", "invalid">>, <<"type", "invalid">>,
     <<"machine", "dislike">>, <<"phoff", "dislike">>, <<"shoff", "dislike">>,
     <<"entsize", "dislike">> >>

ParseElfHeader(odd) ==
  LET i == SelectInSeq(HeaderChecks, LAMBDA c : c[1] \in odd)
  IN  IF i = 0 THEN "ok" ELSE HeaderChecks[i][2]

IsValidSymtab(s) == s.name = ".symtab" /\ s.type = "SYMTAB" /\ ~s.alloc /\ s.entry = "sym"
IsValidStrtab(s) == s.name = ".strtab" /\ s.type = "STRTAB" /\ ~s.alloc

\* Mutant of SectionCount: what did not fit the header is not looked up.
SectionCountShort(f) == f.shnum

\* parse_init_section: a number that does not fit the header is 0 there.
SectionCount(f) == IF f.shnum = 0 THEN f.sh_size ELSE f.shnum

\* What the ELF format says of the section headers: as many as that, and the
\* first of them, at the reserved index, is none.
SectionHeader == [name : STRING, type : STRING, alloc : BOOLEAN, entry : STRING]
ASSUME FilesAssumption ==
  \A file \in DOMAIN Files :
    LET f == Files[file]
    IN  f.odd = {} =>
          /\ f.sections \in Seq(SectionHeader)
          /\ Len(f.sections) = (IF f.shnum = 0 THEN f.sh_size ELSE f.shnum)
          /\ f.sections # <<>> => f.sections[1].type = "NULL"

\* find_table_sections: 0 if there is none.  Index 0 is reserved.
FindTableSections(f) ==
  LET headers == SubSeq(f.sections, 1, SectionCount(f))
      index(i) == IF i = 0 THEN 0 ELSE i - 1
  IN  [symtab |-> index(SelectInSeq(headers, IsValidSymtab)),
       strtab |-> index(SelectInSeq(headers, IsValidStrtab))]

\* se_parse_elf
ParseElf(f) ==
  LET found == FindTableSections(f)
  IN  CASE ~f.readable -> "io_err"
        [] f.readable /\ ParseElfHeader(f.odd) # "ok" -> ParseElfHeader(f.odd)
        [] OTHER -> IF found.symtab # 0 /\ found.strtab # 0 THEN "ok" ELSE "invalid"

-----------------------------------------------------------------------------
(* setup_debugger *)

File == Files[args.file]

\* access with F_OK
CheckAccess ==
  /\ stage = "access"
  /\ stage' = IF args.file \in DOMAIN Files THEN "info" ELSE "refused"
  /\ UNCHANGED <<argv, args, tables, child, traced, image, copies, signalVars>>

\* init_debug_info compares the verdict of se_parse_elf with SP_ERR, which is
\* the same number as ELF_PARSE_IO_ERR: any other verdict passes, and leaves
\* the tables uninitialised.
InitDebugInfo ==
  /\ stage = "info"
  /\ IF ~File.dwarf \/ ParseElf(File) = "io_err" THEN stage' = "refused" /\ UNCHANGED tables
     ELSE /\ stage' = "fork"
          /\ tables' = IF ParseElf(File) = "ok" THEN FindTableSections(File) ELSE Garbage
  /\ UNCHANGED <<argv, args, child, traced, image, copies, signalVars>>

Fork ==
  /\ stage = "fork"
  /\ \/ stage' = "refused" /\ UNCHANGED child
     \/ stage' = "wait" /\ child' = "spray"
  /\ UNCHANGED <<argv, args, tables, traced, image, copies, signalVars>>

\* The child: pt_trace_me.  Nobody looks at its answer, so that a refusal is
\* the same as if this action were left out.
TraceMe ==
  /\ child = "spray" /\ ~traced /\ "child" \notin copies
  /\ traced' = TRUE
  /\ UNCHANGED <<argv, args, stage, tables, child, image, copies, signalVars>>

\* The child: execv.  A traced program stops before its first instruction.
Exec ==
  /\ child = "spray" /\ "child" \notin copies /\ File.runnable
  /\ child' = IF traced THEN "stopped" ELSE "program"
  /\ image' = args.args /\ winch' = FALSE
  /\ UNCHANGED <<argv, args, stage, tables, traced, copies, signals>>

\* The child: execv has failed, and setup_debugger returns 0.
ExecFails ==
  /\ child = "spray" /\ "child" \notin copies /\ ~File.runnable
  /\ copies' = copies \cup {"child"}
  /\ UNCHANGED <<argv, args, stage, tables, child, traced, image, signalVars>>

\* The child: run_debugger with a debugger that was never stored ends one way
\* or the other, or crashes, which stops a traced process.
CopyEnds ==
  /\ child = "spray" /\ "child" \in copies
  /\ \/ child' = "dead" /\ UNCHANGED winch
     \/ traced /\ child' = "halted" /\ winch' = FALSE
  /\ UNCHANGED <<argv, args, stage, tables, traced, image, copies, signals>>

\* A traced process stops for every signal, with execv ahead of it as well as
\* behind.
Signal ==
  /\ signals < MaxSignals
  /\ \/ child = "spray" /\ traced /\ child' = "halted"
     \/ child = "running" /\ child' = "stopped"
  /\ winch' \in BOOLEAN /\ signals' = signals + 1
  /\ UNCHANGED <<argv, args, stage, tables, traced, image, copies>>

\* The program comes to its breakpoint, if it calls main at all.
ReachMain ==
  /\ child = "running" /\ child' = "at_main" /\ winch' = FALSE
  /\ UNCHANGED <<argv, args, stage, tables, traced, image, copies, signals>>

\* A program comes to its end, if it has one.
ProgramEnds ==
  /\ child \in {"program", "running"} /\ child' = "dead"
  /\ UNCHANGED <<argv, args, stage, tables, traced, image, copies, signalVars>>

Killed ==
  /\ child \notin {"none", "dead"} /\ child' = "dead"
  /\ UNCHANGED <<argv, args, stage, tables, traced, image, copies, signalVars>>

\* Mutant of WaitChild: the parent does not wait (WNOHANG).
WaitChildNot ==
  /\ stage = "wait"
  /\ stage' = "load"
  /\ UNCHANGED <<argv, args, tables, child, traced, image, copies, signalVars>>

\* waitpid returns for whatever becomes of the child, and reaps a dead one.
\* Nobody looks at the status: a signal that came before execv is taken for
\* the trap of execv.
WaitChild ==
  /\ stage = "wait" /\ child \in {"stopped", "halted", "dead"}
  /\ stage' = "load"
  /\ UNCHANGED <<argv, args, tables, child, traced, image, copies, signalVars>>

\* init_load_address asserts that it can read the maps of the process.  The
\* type of a file that was not parsed is not initialised either.
InitLoadAddress ==
  /\ stage = "load"
  /\ \E dyn \in IF tables = Garbage THEN BOOLEAN ELSE {File.dyn} :
       IF dyn /\ child = "dead" THEN stage' = "aborted" /\ UNCHANGED copies
       ELSE stage' = "main" /\ copies' = copies \cup {"parent"}
  /\ UNCHANGED <<argv, args, tables, child, traced, image, signalVars>>

-----------------------------------------------------------------------------
(* run_debugger, up to its first stop. *)

\* What PTRACE_CONT makes of a stopped child.
Resumed == IF child = "stopped" THEN "running" ELSE "spray"

\* continue_execution: a dead child is noticed.
ContinueToMain ==
  \/ /\ child \in {"stopped", "halted"}
     /\ child' = Resumed /\ stage' = "run"
  \/ /\ child \notin {"stopped", "halted"}
     /\ stage' = "ended" /\ UNCHANGED child

\* Mutant of WaitForMain: SIGWINCH is ignored, but the child not continued.
WaitForMainIgnoring ==
  /\ stage = "run"
  /\ \/ child = "dead" /\ stage' = "ended"
     \/ child \in {"stopped", "halted", "at_main"} /\ stage' = IF winch THEN stage ELSE "source"
  /\ UNCHANGED <<argv, args, tables, child, traced, image, copies, signalVars>>

\* wait_for_signal, which blocks until something becomes of the child: it is
\* over with the child; SIGWINCH continues it; anything else is as good as
\* the breakpoint of main.
WaitForMain ==
  /\ stage = "run"
  /\ \/ child = "dead" /\ stage' = "ended" /\ UNCHANGED child
     \/ child \in {"stopped", "halted"} /\ winch /\ child' = Resumed /\ UNCHANGED stage
     \/ child \in {"stopped", "halted", "at_main"} /\ ~winch /\ stage' = "source" /\ UNCHANGED child
  /\ UNCHANGED <<argv, args, tables, traced, image, copies, signalVars>>

\* What sym_by_name finds: anything, or the end of spray, in tables that were
\* never stored.
MainFound == IF tables = Garbage THEN {"start", "other", "none", "crash"} ELSE {File.main}

Parent == SetupArgs \/ CheckAccess \/ InitDebugInfo \/ Fork \/ WaitChild \/ InitLoadAddress
Child == TraceMe \/ Exec \/ ExecFails \/ CopyEnds

\* What may happen to the child at any time, or never.
Outside == Signal \/ ReachMain \/ ProgramEnds \/ Killed

=============================================================================
