--------------------------- MODULE SessionProofs ---------------------------
(***************************************************************************)
(* For any command lines, files and lines of input, and a buffer of        *)
(* symbols of any size: no symbol is read after the buffer has moved, an   *)
(* empty line repeats the line before it, and a file that can be executed  *)
(* ends up in the hands of one debugger.                                   *)
(***************************************************************************)
EXTENDS Session, FirstProofs, SequenceTheorems, TLAPS

-----------------------------------------------------------------------------
(* The buffer of symbols. *)

\* What is left of the buffer, and a state for each holder of a pointer.
BufferOK == room \in Nat /\ held \in [Holder -> {"none", "fresh", "dangling"}]

\* Whoever asks for a symbol gets a fresh one, even if all others dangle.
LEMMA HoldFresh ==
  ASSUME BufferOK, NEW h \in Holder, Hold(h)
  PROVE  BufferOK' /\ held'[h] = "fresh"
BY SizeAssumption DEF BufferOK, Hold, Buffer, Allocated

\* Looking something up is the only way to a step that uses it.
LEMMA LineFresh ==
  ASSUME BufferOK, HeldSymbolsFresh, LineNext
  PROVE  BufferOK' /\ HeldSymbolsFresh'
<1> USE DEF HeldSymbolsFresh, UsedAt
<1>1. CASE EnterLine
  <2>1. ASSUME NEW t, Interpret(t)
        PROVE  BufferOK' /\ step' \in {"source", "ready", "pos", "over", "trace", "break"}
    BY <2>1 DEF Interpret, FirstStep, BufferOK
  <2>2. CASE UNCHANGED <<tokens, step, room, held>>
    BY <2>2 DEF BufferOK
  <2> QED BY <1>1, <2>1, <2>2 DEF EnterLine, BufferOK
<1>2. CASE BreakLookUp
  BY <1>2, HoldFresh DEF BreakLookUp, HoldFunction, Goto, Holder, BufferOK
<1>3. CASE OverLookUp
  BY <1>3, HoldFresh DEF OverLookUp, HoldFunction, Goto, Holder, BufferOK
<1>4. CASE StepLookUp
  BY <1>4, HoldFresh DEF StepLookUp, Goto, Holder, BufferOK
<1>5. CASE TraceLookUp
  BY <1>5, HoldFresh DEF TraceLookUp, HoldFunction, Goto, Holder, BufferOK
<1>6. CASE SourceLookUp
  BY <1>6, HoldFresh DEF SourceLookUp, Goto, Holder, BufferOK
<1>7. CASE BreakUse \/ OverUse \/ StepUse \/ TraceUse \/ SourceUse
  BY <1>7 DEF BreakUse, OverUse, StepUse, TraceUse, SourceUse, Goto, BufferOK
<1> QED BY <1>1, <1>2, <1>3, <1>4, <1>5, <1>6, <1>7 DEF LineNext

\* The start of run_debugger looks up main and the first position likewise.
LEMMA NextFresh ==
  ASSUME BufferOK, HeldSymbolsFresh, [Next]_vars
  PROVE  BufferOK' /\ HeldSymbolsFresh'
<1>1. CASE UNCHANGED lineVars
  BY <1>1 DEF lineVars, BufferOK, HeldSymbolsFresh
<1>2. CASE Starting \/ Await \/ EndOfInput \/ UNCHANGED vars
  BY <1>1, <1>2 DEF Starting, Await, EndOfInput, vars, lineVars
<1>3. CASE Prompt
  BY <1>3, LineFresh DEF Prompt
<1>4. CASE FirstSource
  BY <1>4, LineFresh DEF FirstSource, LineNext
<1>5. CASE UseMain
  BY <1>5 DEF UseMain, BufferOK, HeldSymbolsFresh, UsedAt
<1>6. CASE FindMain
  <2>1. CASE Hold("main") /\ step' = "main_use"
    BY <2>1, HoldFresh DEF BufferOK, Holder, HeldSymbolsFresh, UsedAt
  <2>2. CASE UNCHANGED <<step, room, held>>
    BY <2>2 DEF BufferOK, HeldSymbolsFresh
  <2> QED BY <1>6, <2>1, <2>2 DEF FindMain
<1> QED BY <1>2, <1>3, <1>4, <1>5, <1>6 DEF Next, RunDebugger

\* Every command uses the symbols and positions it has looked up while
\* they are where its pointers say, whatever the size of the buffer.
THEOREM SymbolsStayFresh == Spec => []HeldSymbolsFresh
<1>1. Init => BufferOK /\ HeldSymbolsFresh
  BY SizeAssumption DEF Init, LineInit, BufferOK, HeldSymbolsFresh, UsedAt
<1>2. BufferOK /\ HeldSymbolsFresh /\ [Next]_vars => (BufferOK /\ HeldSymbolsFresh)'
  BY NextFresh
<1> QED BY <1>1, <1>2, PTL DEF Spec

-----------------------------------------------------------------------------
(* The repetition of a line. *)

\* After a line with a word in it, that line is the saved command.
LastSaved == line # <<>> => history = <<line>>

\* Only handle_debug_command touches the saved command.
LEMMA NextSaved ==
  ASSUME LastSaved, [Next]_vars
  PROVE  /\ LastSaved'
         /\ (line' = line /\ history' = history) \/ EnterLine
<1>1. CASE line' = line /\ history' = history
  BY <1>1 DEF LastSaved
<1>2. CASE EnterLine
  BY <1>2 DEF EnterLine, LastSaved, Saved
<1>3. \/ line' = line /\ history' = history
      \/ EnterLine
  <2>1. CASE Starting \/ Await \/ EndOfInput \/ FindMain \/ UseMain \/ UNCHANGED vars
    BY <2>1 DEF Starting, Await, EndOfInput, FindMain, UseMain, vars, lineVars
  <2>2. CASE FirstSource
    BY <2>2 DEF FirstSource, SourceLookUp, SourceUse, Goto
  <2>3. CASE Prompt
    BY <2>3 DEF Prompt, LineNext, BreakLookUp, BreakUse, OverLookUp, OverUse, StepLookUp,
                StepUse, TraceLookUp, TraceUse, SourceLookUp, SourceUse, Goto
  <2> QED BY <2>1, <2>2, <2>3 DEF Next, RunDebugger
<1> QED BY <1>1, <1>2, <1>3

\* An empty line interprets the tokens of the line before it again.
THEOREM EmptyLineRepeats == Spec => RepeatsLastTyped
<1> DEFINE Repeats == stage = "prompt" /\ line # <<>> /\ line' = <<>> =>
                        tokens' = line /\ (ran' = Command(line) \/ ran' = Failed)
<1>1. Init => LastSaved
  BY DEF Init, LineInit, LastSaved
<1>2. LastSaved /\ [Next]_vars => LastSaved'
  BY NextSaved
<1>3. LastSaved /\ [Next]_vars => [Repeats]_vars
  <2> SUFFICES ASSUME LastSaved, [Next]_vars, line # <<>>, line' = <<>>
               PROVE  tokens' = line /\ (ran' = Command(line) \/ ran' = Failed)
    OBVIOUS
  <2>1. EnterLine /\ history = <<line>>
    BY NextSaved DEF LastSaved
  <2>2. history # <<>> /\ history[1] = line
    BY <2>1
  <2>3. Interpret(line)
    BY <2>1, <2>2 DEF EnterLine
  <2> QED BY <2>3 DEF Interpret
<1> QED BY <1>1, <1>2, <1>3, PTL DEF Spec, RepeatsLastTyped

-----------------------------------------------------------------------------
(* The two processes. *)

\* Before fork there is no child, and the child leaves the copy of spray only
\* with execv, or when execv has failed.  The parent goes on from its wait when
\* the child has stopped, and only a signal stops it before execv.
Early == {"args", "access", "info", "fork"}
Late == {"load", "main", "run", "source", "prompt"}
Processes ==
  /\ child \in ChildStates /\ signals \in Nat
  /\ copies \subseteq {"parent", "child"}
  /\ stage \in Early => child = "none" /\ copies = {}
  /\ stage = "wait" => child \notin {"none", "running", "at_main"}
  /\ stage \in Late => child \notin {"none", "program"}
  /\ stage \in Late \ {"run"} => child \notin {"spray", "running"}
  /\ stage \in Late /\ child = "spray" => traced
  /\ child \in {"stopped", "halted", "running", "at_main"} => traced
  /\ child \in {"none", "spray", "halted"} => image = NoImage
  /\ image # NoImage => image = args.args
  /\ stage \notin Early /\ File.runnable =>
       /\ "child" \notin copies
       /\ child \in {"stopped", "running", "at_main"} => image = args.args
       /\ child = "halted" \/ (stage \in Late /\ child = "spray") => signals > 0

\* One debugger is what the processes are up to.
LEMMA ProcessesOne == Processes => OneDebugger
BY DEF Processes, OneDebugger, Early, Late, ChildStates

\* setup_debugger and the first stop keep the processes apart.
LEMMA NextProcesses ==
  ASSUME Processes, [Next]_vars
  PROVE  Processes'
<1> USE DEF Processes, Early, Late, ChildStates, File, signalVars
<1>1. CASE Parent
  <2>1. CASE SetupArgs
    BY <2>1 DEF SetupArgs
  <2>2. CASE CheckAccess
    BY <2>2 DEF CheckAccess
  <2>3. CASE InitDebugInfo
    BY <2>3 DEF InitDebugInfo
  <2>4. CASE Fork
    BY <2>4 DEF Fork
  <2>5. CASE WaitChild
    BY <2>5 DEF WaitChild
  <2>6. CASE InitLoadAddress
    <3>1. /\ stage = "load" /\ stage' \in {"aborted", "main"}
          /\ copies' = copies \/ copies' = copies \cup {"parent"}
          /\ UNCHANGED <<args, child, traced, image, signals>>
      BY <2>6 DEF InitLoadAddress
    <3> QED BY <3>1
  <2> QED BY <1>1, <2>1, <2>2, <2>3, <2>4, <2>5, <2>6 DEF Parent
<1>2. CASE Child
  <2>1. stage \notin Early /\ child = "spray"
    BY <1>2 DEF Child, TraceMe, Exec, ExecFails, CopyEnds
  <2>2. CASE TraceMe
    BY <2>1, <2>2 DEF TraceMe
  <2>3. CASE Exec
    BY <2>1, <2>3 DEF Exec
  <2>4. CASE ExecFails
    BY <2>1, <2>4 DEF ExecFails
  <2>5. CASE CopyEnds
    BY <2>1, <2>5 DEF CopyEnds
  <2> QED BY <1>2, <2>2, <2>3, <2>4, <2>5 DEF Child
<1>3. CASE Outside
  <2>1. CASE Signal
    BY <2>1 DEF Signal
  <2>2. CASE ReachMain
    BY <2>2 DEF ReachMain
  <2>3. CASE ProgramEnds \/ Killed
    BY <2>3 DEF ProgramEnds, Killed
  <2> QED BY <1>3, <2>1, <2>2, <2>3 DEF Outside
<1>4. CASE FindMain
  BY <1>4 DEF FindMain
<1>5. CASE UseMain
  BY <1>5 DEF UseMain, ContinueToMain, Resumed
<1>6. CASE FirstSource
  BY <1>6 DEF FirstSource
<1>7. CASE Prompt \/ EndOfInput \/ UNCHANGED vars
  BY <1>7 DEF Prompt, EndOfInput, vars, startVars
<1>8. CASE Await
  BY <1>8 DEF Await, WaitForMain, Resumed
<1> QED BY <1>1, <1>2, <1>3, <1>4, <1>5, <1>6, <1>7, <1>8 DEF Next, Starting, RunDebugger

\* Once setup_debugger is through with a file that can be executed, spray runs
\* once, and its child is dead or traced: the program with its arguments, or,
\* if a signal came before execv, still the copy of spray.
THEOREM OneDebuggerAlways == Spec => []OneDebugger
<1>1. Init => Processes
  BY DEF Init, StartInit, Processes, Early, Late, ChildStates
<1>2. Processes /\ [Next]_vars => Processes'
  BY NextProcesses
<1> QED BY <1>1, <1>2, ProcessesOne, PTL DEF Spec

-----------------------------------------------------------------------------
(* The arguments of the program. *)

\* parse_flags stops at the first word without a dash.
LEMMA FlagsEnd ==
  ASSUME NEW words \in Seq(STRING), ParseFlags(words) # 0
  PROVE  /\ ParseFlags(words) \in DOMAIN words
         /\ words[ParseFlags(words)] \notin Dashed
         /\ \A k \in 1 .. ParseFlags(words) - 1 : words[k] \in Dashed
<1> DEFINE I == {i \in 1 .. Len(words) : words[i] \notin Dashed}
           first == SelectInSeq(words, LAMBDA w : w \notin Dashed)
<1>1. first = IF I # {} THEN Min(I) ELSE 0
  BY DEF SelectInSeq
<1>2. IsFirst(first, I)
  <2>1. I \in SUBSET Nat
    OBVIOUS
  <2> HIDE DEF I
  <2> QED BY <1>1, <2>1, FirstOf
<1> HIDE DEF first
<1>3. ParseFlags(words) = first /\ first # 0
  BY DEF ParseFlags, first
<1>4. first \in I /\ \A j \in I : first <= j
  BY <1>2, <1>3 DEF IsFirst
<1>5. \A k \in 1 .. first - 1 : words[k] \in Dashed
  BY <1>4
<1> QED BY <1>3, <1>4, <1>5

\* Behind setup_args, the arguments are those of a command line without
\* an unknown flag, and before, or without, there is no child.
Parsed ==
  /\ argv \in CommandLines
  /\ stage \in {"args", "refused"} => child = "none"
  /\ stage \notin {"args", "refused"} => ParseFlags(argv) # 0 /\ args = ParseArgs(argv)

\* Nobody touches the arguments behind setup_args.
LEMMA NextParsed ==
  ASSUME Processes, Parsed, [Next]_vars
  PROVE  Parsed'
<1> USE DEF Parsed
<1>1. CASE Parent
  BY <1>1 DEF Processes, Early, Parent, SetupArgs, CheckAccess, InitDebugInfo, Fork, WaitChild,
              InitLoadAddress
<1>2. CASE Child \/ Outside
  BY <1>2 DEF Child, TraceMe, Exec, ExecFails, CopyEnds, Outside, Signal, ReachMain, ProgramEnds,
              Killed
<1>3. CASE RunDebugger
  BY <1>3 DEF RunDebugger, FindMain, UseMain, Await, FirstSource, ContinueToMain, WaitForMain
<1>4. CASE Prompt \/ EndOfInput \/ UNCHANGED vars
  BY <1>4 DEF Prompt, EndOfInput, vars, startVars
<1> QED BY <1>1, <1>2, <1>3, <1>4 DEF Next, Starting

\* What execv hands to the program is its own name and every word behind it,
\* whatever flags come before.
LEMMA ParsedPassedOn == Processes /\ Parsed => ArgumentsPassedOn
<1> SUFFICES ASSUME Processes, Parsed, image # NoImage
             PROVE  \E i \in DOMAIN argv :
                      /\ argv[i] = args.file /\ argv[i] \notin Dashed
                      /\ \A k \in 1 .. i - 1 : argv[k] \in Dashed
                      /\ IF i = Len(argv) THEN image = <<>> ELSE image = SubSeq(argv, i, Len(argv))
  BY DEF ArgumentsPassedOn
<1>1. argv \in Seq(STRING)
  BY LinesAssumption DEF Parsed
<1>2. ParseFlags(argv) # 0 /\ args = ParseArgs(argv) /\ image = args.args
  BY DEF Parsed, Processes
<1> DEFINE i == ParseFlags(argv)
<1>3. /\ i \in DOMAIN argv /\ argv[i] \notin Dashed
      /\ \A k \in 1 .. i - 1 : argv[k] \in Dashed
  BY <1>1, <1>2, FlagsEnd
<1>4. args.file = argv[i] /\ args.args = IF i < Len(argv) THEN SubSeq(argv, i, Len(argv)) ELSE <<>>
  BY <1>2 DEF ParseArgs
<1>5. i \in 1 .. Len(argv) /\ Len(argv) \in Nat
  BY <1>1, <1>3
<1> HIDE DEF i
<1>6. IF i = Len(argv) THEN image = <<>> ELSE image = SubSeq(argv, i, Len(argv))
  BY <1>2, <1>4, <1>5
<1> QED BY <1>3, <1>4, <1>6

\* The program gets each word behind its name, and no other.
THEOREM ArgumentsArrive == Spec => []ArgumentsPassedOn
<1>1. Init => Processes /\ Parsed
  BY DEF Init, StartInit, Processes, Early, Late, ChildStates, Parsed
<1>2. Processes /\ Parsed /\ [Next]_vars => (Processes /\ Parsed)'
  BY NextProcesses, NextParsed
<1> QED BY <1>1, <1>2, ParsedPassedOn, PTL DEF Spec

-----------------------------------------------------------------------------
(* The tables of the file. *)

\* parse_elf_header finds nothing wrong if there is nothing.
LEMMA HeaderFine == ParseElfHeader({}) = "ok"
<1>1. SelectInSeq(HeaderChecks, LAMBDA c : c[1] \in {}) = 0
  BY DEF SelectInSeq
<1> QED BY <1>1 DEF ParseElfHeader

\* find_table_sections, in a file with the section headers it says it has,
\* finds the first table of each kind: the one at the reserved index is none.
LEMMA FirstTables ==
  ASSUME NEW file \in DOMAIN Files, Files[file].odd = {},
         NEW s \in DOMAIN Files[file].sections, IsValidSymtab(Files[file].sections[s]),
         NEW t \in DOMAIN Files[file].sections, IsValidStrtab(Files[file].sections[t])
  PROVE  LET f == Files[file]
             found == FindTableSections(f)
         IN  /\ found.symtab # 0 /\ found.strtab # 0
             /\ found.symtab + 1 \in DOMAIN f.sections /\ found.symtab < s
             /\ found.strtab + 1 \in DOMAIN f.sections /\ found.strtab < t
             /\ IsValidSymtab(f.sections[found.symtab + 1])
             /\ IsValidStrtab(f.sections[found.strtab + 1])
<1> DEFINE f == Files[file]
           I == {i \in 1 .. Len(f.sections) : IsValidSymtab(f.sections[i])}
           J == {i \in 1 .. Len(f.sections) : IsValidStrtab(f.sections[i])}
           i0 == SelectInSeq(f.sections, IsValidSymtab)
           j0 == SelectInSeq(f.sections, IsValidStrtab)
<1>1. /\ f.sections \in Seq(SectionHeader) /\ SectionCount(f) = Len(f.sections)
      /\ f.sections # <<>> => f.sections[1].type = "NULL"
  BY FilesAssumption DEF SectionCount
<1>2. SubSeq(f.sections, 1, SectionCount(f)) = f.sections
  BY <1>1
<1>3. s \in I /\ t \in J
  BY <1>1
<1>4. IsFirst(i0, I)
  <2>1. i0 = IF I # {} THEN Min(I) ELSE 0
    BY DEF SelectInSeq
  <2>2. I \in SUBSET Nat
    BY <1>1
  <2> HIDE DEF I
  <2> QED BY <2>1, <2>2, FirstOf
<1>5. IsFirst(j0, J)
  <2>1. j0 = IF J # {} THEN Min(J) ELSE 0
    BY DEF SelectInSeq
  <2>2. J \in SUBSET Nat
    BY <1>1
  <2> HIDE DEF J
  <2> QED BY <2>1, <2>2, FirstOf
<1>6. 1 \notin I /\ 1 \notin J
  BY <1>1 DEF IsValidSymtab, IsValidStrtab
<1> HIDE DEF i0, j0
<1>7. /\ i0 \in 2 .. Len(f.sections) /\ i0 <= s /\ IsValidSymtab(f.sections[i0])
      /\ j0 \in 2 .. Len(f.sections) /\ j0 <= t /\ IsValidStrtab(f.sections[j0])
  BY <1>1, <1>3, <1>4, <1>5, <1>6 DEF IsFirst
<1>8. /\ FindTableSections(f).symtab = i0 - 1
      /\ FindTableSections(f).strtab = j0 - 1
  <2>1. /\ SelectInSeq(SubSeq(f.sections, 1, SectionCount(f)), IsValidSymtab) = i0
        /\ SelectInSeq(SubSeq(f.sections, 1, SectionCount(f)), IsValidStrtab) = j0
    BY <1>2, Zenon DEF i0, j0
  <2> QED BY <1>7, <2>1 DEF FindTableSections
<1>9. Len(f.sections) \in Nat /\ DOMAIN f.sections = 1 .. Len(f.sections)
  BY <1>1
<1> HIDE DEF f
<1>10. /\ s \in Nat /\ t \in Nat
       /\ i0 - 1 # 0 /\ j0 - 1 # 0 /\ (i0 - 1) + 1 = i0 /\ (j0 - 1) + 1 = j0
       /\ i0 - 1 < s /\ j0 - 1 < t
  BY <1>7, <1>9 DEF f
<1> QED BY <1>7, <1>8, <1>9, <1>10 DEF f

\* Behind init_debug_info the tables are those of the file, if the file was
\* parsed, and were never stored otherwise.
Tabled ==
  /\ stage \notin {"args", "access", "refused"} => args.file \in DOMAIN Files
  /\ stage \notin {"args", "access", "info", "refused"} =>
       /\ File.readable
       /\ tables = IF ParseElf(File) = "ok" THEN FindTableSections(File) ELSE Garbage

\* Nobody touches the tables behind init_debug_info.
LEMMA NextTabled ==
  ASSUME Tabled, [Next]_vars
  PROVE  Tabled'
<1> USE DEF Tabled, File
<1>1. CASE Parent
  <2>1. CASE InitDebugInfo
    <3>1. ~File.readable => ParseElf(File) = "io_err"
      BY DEF ParseElf
    <3> QED BY <2>1, <3>1 DEF InitDebugInfo
  <2>2. CASE SetupArgs \/ CheckAccess \/ Fork \/ WaitChild \/ InitLoadAddress
    BY <2>2 DEF SetupArgs, CheckAccess, Fork, WaitChild, InitLoadAddress
  <2> QED BY <1>1, <2>1, <2>2 DEF Parent
<1>2. CASE Child \/ Outside
  BY <1>2 DEF Child, TraceMe, Exec, ExecFails, CopyEnds, Outside, Signal, ReachMain, ProgramEnds,
              Killed
<1>3. CASE RunDebugger
  BY <1>3 DEF RunDebugger, FindMain, UseMain, Await, FirstSource, ContinueToMain, WaitForMain
<1>4. CASE Prompt \/ EndOfInput \/ UNCHANGED vars
  BY <1>4 DEF Prompt, EndOfInput, vars, startVars
<1> QED BY <1>1, <1>2, <1>3, <1>4 DEF Next, Starting

\* With a header in order and a table of each kind, the file was parsed.
LEMMA TabledFound == Tabled => TablesFound
<1> SUFFICES ASSUME Tabled, stage \in {"main", "run", "source", "prompt"}, File.odd = {},
                    NEW s \in DOMAIN File.sections, IsValidSymtab(File.sections[s]),
                    NEW t \in DOMAIN File.sections, IsValidStrtab(File.sections[t])
             PROVE  /\ tables.symtab + 1 \in DOMAIN File.sections /\ tables.symtab < s
                    /\ tables.strtab + 1 \in DOMAIN File.sections /\ tables.strtab < t
                    /\ IsValidSymtab(File.sections[tables.symtab + 1])
                    /\ IsValidStrtab(File.sections[tables.strtab + 1])
  BY DEF TablesFound
<1>1. args.file \in DOMAIN Files /\ File.readable
  BY DEF Tabled
<1>2. FindTableSections(File).symtab # 0 /\ FindTableSections(File).strtab # 0
  BY <1>1, FirstTables DEF File
<1>3. ParseElf(File) = "ok"
  BY <1>1, <1>2, HeaderFine DEF ParseElf
<1>4. tables = FindTableSections(File)
  BY <1>3 DEF Tabled
<1> QED BY <1>1, <1>4, FirstTables DEF File

\* In a file that spray has nothing against, it works with the first table of
\* symbols and the first table of their names.
THEOREM TablesAreFound == Spec => []TablesFound
<1>1. Init => Tabled
  BY DEF Init, StartInit, Tabled
<1>2. Tabled /\ [Next]_vars => Tabled'
  BY NextTabled
<1> QED BY <1>1, <1>2, TabledFound, PTL DEF Spec

-----------------------------------------------------------------------------
(* Whole commands. *)

\* A line that is read as a command has a token, and no token is empty.
LEMMA LineTokens ==
  ASSUME NEW t \in Lines, t # <<>>
  PROVE  /\ t \in Seq(STRING) /\ Len(t) \in Nat \ {0}
         /\ \A i \in 1 .. Len(t) : t[i] \in STRING /\ t[i] # ""
<1>1. t \in Seq(STRING \ {""})
  BY TokensAssumption
<1>2. Len(t) \in Nat /\ \A i \in 1 .. Len(t) : t[i] \in STRING \ {""}
  <2> DEFINE W == STRING \ {""}
  <2> HIDE DEF W
  <2>1. t \in Seq(W)
    BY <1>1 DEF W
  <2>2. Len(t) \in Nat /\ \A i \in 1 .. Len(t) : t[i] \in W
    BY <2>1
  <2> QED BY <2>2 DEF W
<1>3. t \in Seq(STRING)
  BY <1>1, SeqMonotonic
<1>4. Len(t) # 0
  BY <1>1, EmptySeq, Zenon
<1> QED BY <1>2, <1>3, <1>4

\* Lines of two, three, four and five tokens are what they are made of.
LEMMA Tokens2 ==
  ASSUME NEW W, NEW t \in Seq(W)
  PROVE  /\ Len(t) = 1 => t = <<t[1]>>
         /\ Len(t) = 2 => t = <<t[1], t[2]>>
         /\ Len(t) = 3 => t = <<t[1], t[2], t[3]>>
         /\ Len(t) = 4 => t = <<t[1], t[2], t[3], t[4]>>
         /\ Len(t) = 5 => t = <<t[1], t[2], t[3], t[4], t[5]>>
OBVIOUS

LEMMA Counts ==
  ASSUME NEW n \in Nat
  PROVE  /\ n >= 2 /\ 3 > n => n = 2
         /\ n >= 3 /\ 4 > n => n = 3
         /\ ~(n < 2) => n >= 2 /\ 2 <= n
         /\ ~(n < 3) => n >= 3 /\ 3 <= n /\ 2 <= n
         /\ n >= 2 => ~(n < 2) /\ 2 <= n
         /\ n >= 3 => ~(n < 3) /\ 3 <= n /\ 2 <= n
         /\ 2 <= n /\ ~(n > 2) <=> n = 2
OBVIOUS

\* The sentences, told by their tokens.
LEMMA PrintSpelled ==
  ASSUME NEW W, NEW t \in Seq(W)
  PROVE  t \in PrintSentences <=>
           /\ Len(t) >= 2 /\ t[1] \in {"p", "print"} /\ t[2] \in Locations
           /\ WellFiltered(t, 3)
<1>1. Len(t) \in Nat
  OBVIOUS
<1>2. t \in PrintSentences <=>
        \E w \in {"p", "print"}, l \in Locations :
          t = <<w, l>> \/ \E f \in Filters : t = <<w, l, "|", f>>
  BY DEF PrintSentences
<1>3. ASSUME NEW w \in {"p", "print"}, NEW l \in Locations,
             t = <<w, l>> \/ \E f \in Filters : t = <<w, l, "|", f>>
      PROVE  /\ Len(t) >= 2 /\ t[1] \in {"p", "print"} /\ t[2] \in Locations
             /\ WellFiltered(t, 3)
  <2>1. CASE t = <<w, l>>
    <3>1. Len(t) = 2 /\ t[1] = w /\ t[2] = l
      BY <2>1
    <3> QED BY <3>1 DEF WellFiltered
  <2>2. ASSUME NEW f \in Filters, t = <<w, l, "|", f>>
        PROVE  Len(t) = 4 /\ t[1] = w /\ t[2] = l /\ WellFiltered(t, 3)
    <3>1. Len(t) = 4 /\ t[1] = w /\ t[2] = l /\ t[3] = "|" /\ t[4] = f
      BY <2>2
    <3> QED BY <2>2, <3>1 DEF WellFiltered
  <2> QED BY <1>3, <2>1, <2>2
<1>4. ASSUME Len(t) >= 2, t[1] \in {"p", "print"}, t[2] \in Locations, WellFiltered(t, 3)
      PROVE  \/ t = <<t[1], t[2]>>
             \/ t[4] \in Filters /\ t = <<t[1], t[2], "|", t[4]>>
  <2>1. CASE 3 > Len(t)
    <3>1. Len(t) = 2
      BY <1>1, <1>4, <2>1, Counts, Zenon
    <3> QED BY <3>1, Tokens2
  <2>2. CASE t[3] = "|" /\ Len(t) = 4 /\ t[4] \in Filters
    BY <2>2, Tokens2
  <2> QED BY <1>4, <2>1, <2>2 DEF WellFiltered
<1> QED BY <1>2, <1>3, <1>4

LEMMA SetSpelled ==
  ASSUME NEW W, NEW t \in Seq(W)
  PROVE  t \in SetSentences <=>
           /\ Len(t) >= 3 /\ t[1] \in {"t", "set"} /\ t[2] \in Locations /\ t[3] \in Base16
           /\ WellFiltered(t, 4)
<1>1. Len(t) \in Nat
  OBVIOUS
<1>2. t \in SetSentences <=>
        \E w \in {"t", "set"}, l \in Locations, v \in Base16 :
          t = <<w, l, v>> \/ \E f \in Filters : t = <<w, l, v, "|", f>>
  BY DEF SetSentences
<1>3. ASSUME NEW w \in {"t", "set"}, NEW l \in Locations, NEW v \in Base16,
             t = <<w, l, v>> \/ \E f \in Filters : t = <<w, l, v, "|", f>>
      PROVE  /\ Len(t) >= 3 /\ t[1] \in {"t", "set"} /\ t[2] \in Locations /\ t[3] \in Base16
             /\ WellFiltered(t, 4)
  <2>1. CASE t = <<w, l, v>>
    <3>1. Len(t) = 3 /\ t[1] = w /\ t[2] = l /\ t[3] = v
      BY <2>1
    <3> QED BY <3>1 DEF WellFiltered
  <2>2. ASSUME NEW f \in Filters, t = <<w, l, v, "|", f>>
        PROVE  Len(t) = 5 /\ t[1] = w /\ t[2] = l /\ t[3] = v /\ WellFiltered(t, 4)
    <3>1. Len(t) = 5 /\ t[1] = w /\ t[2] = l /\ t[3] = v /\ t[4] = "|" /\ t[5] = f
      BY <2>2
    <3> QED BY <2>2, <3>1 DEF WellFiltered
  <2> QED BY <1>3, <2>1, <2>2
<1>4. ASSUME Len(t) >= 3, t[1] \in {"t", "set"}, t[2] \in Locations, t[3] \in Base16,
             WellFiltered(t, 4)
      PROVE  \/ t = <<t[1], t[2], t[3]>>
             \/ t[5] \in Filters /\ t = <<t[1], t[2], t[3], "|", t[5]>>
  <2>1. CASE 4 > Len(t)
    <3>1. Len(t) = 3
      BY <1>1, <1>4, <2>1, Counts, Zenon
    <3> QED BY <3>1, Tokens2
  <2>2. CASE t[4] = "|" /\ Len(t) = 5 /\ t[5] \in Filters
    BY <2>2, Tokens2
  <2> QED BY <1>4, <2>1, <2>2 DEF WellFiltered
<1> QED BY <1>2, <1>3, <1>4

LEMMA BreakSpelled ==
  ASSUME NEW W, NEW t \in Seq(W)
  PROVE  t \in BreakSentences <=>
           /\ Len(t) = 2 /\ t[1] \in {"b", "break", "d", "delete"}
           /\ t[2] \in Identifiers \cup Base16 \cup FileLines
<1>2. t \in BreakSentences <=>
        \E w \in {"b", "break", "d", "delete"}, l \in Identifiers \cup Base16 \cup FileLines :
          t = <<w, l>>
  BY DEF BreakSentences
<1> QED BY <1>2, Tokens2

LEMMA PlainSpelled ==
  ASSUME NEW W, NEW t \in Seq(W)
  PROVE  t \in PlainSentences <=>
           /\ Len(t) = 1
           /\ t[1] \in {"c", "continue", "n", "next", "s", "step", "l", "leave", "i", "inst"}
BY Tokens2 DEF PlainSentences

\* The token at a place where there is one.
LEMMA ArgumentThere ==
  ASSUME NEW t, NEW i, i <= Len(t)
  PROVE  Argument(t, i) = t[i]
BY DEF Argument

\* Where the tokens of a location are looked for.
LEMMA PlaceSound ==
  ASSUME NEW l
  PROVE  /\ Place(l) # "none" <=> l \in Locations
         /\ Place(l) = "variable" <=> l \in Identifiers
         /\ Place(l) \notin {"function", "line"}
BY TokensAssumption DEF Place, Locations

LEMMA BreakPlaceSound ==
  ASSUME NEW l
  PROVE  /\ BreakPlace(l) # "none" <=> l \in Identifiers \cup Base16 \cup FileLines
         /\ BreakPlace(l) = "function" <=> l \in Identifiers
         /\ BreakPlace(l) = "address" <=> l \in Base16 \ Identifiers
         /\ BreakPlace(l) \in {"none", "function", "address", "line"}
BY DEF BreakPlace

\* print, set, and the commands of one word.
PrintWords == {"p", "print"}
SetWords == {"t", "set"}
PlainWords == {"c", "continue", "n", "next", "s", "step", "l", "leave", "i", "inst"}
BreakWords == {"b", "break", "d", "delete"}

\* The first token tells the kinds of sentences apart.
LEMMA WordsApart ==
  ASSUME NEW W, NEW t \in Seq(W)
  PROVE  /\ t[1] \notin PrintWords => t \notin PrintSentences
         /\ t[1] \notin SetWords => t \notin SetSentences
         /\ t[1] \notin PlainWords => t \notin PlainSentences
         /\ t[1] \notin BreakWords => t \notin BreakSentences
BY PrintSpelled, SetSpelled, PlainSpelled, BreakSpelled
   DEF PrintWords, SetWords, PlainWords, BreakWords

\* What handle_debug_command_tokens makes of a line.
CommandFits(t) ==
  LET c == Command(t)
  IN  /\ c.do # "nothing" /\ (c = Failed <=> c.do = "failed")
      /\ c.do = "print" <=> t \in PrintSentences
      /\ c.do = "set" <=> t \in SetSentences
      /\ c.do = "set" => (c.base = 10 <=> c.value \in Base10)
      /\ c.do \in {"continue", "next", "step", "leave", "inst"} <=> t \in PlainSentences
      /\ t \in BreakSentences => c.do \in {"break", "delete"}
      /\ c.do \in {"break", "delete"} =>
           /\ c.on = "function" <=> t[2] \in Identifiers
           /\ c.on = "address" <=> t[2] \in Base16 \ Identifiers
           /\ 2 <= Len(t) /\ (Len(t) = 2 => t \in BreakSentences)
      /\ c.on \in {"variable", "function"} <=> c.at \in Identifiers
      /\ c.on = "line" => c.do \in {"break", "delete"}

LEMMA PrintFits ==
  ASSUME NEW t \in Lines, t # <<>>, t[1] \in PrintWords
  PROVE  CommandFits(t)
<1>1. Command(t) = PrintCommand(t)
  BY DEF Command, PrintWords, Plain, Located
<1>2. t \in Seq(STRING) /\ Len(t) \in Nat
  BY LineTokens
<1>3. /\ t \notin SetSentences /\ t \notin PlainSentences /\ t \notin BreakSentences
  BY <1>2, WordsApart DEF PrintWords, SetWords, PlainWords, BreakWords
<1>4. t \in PrintSentences <=> Len(t) >= 2 /\ t[2] \in Locations /\ WellFiltered(t, 3)
  BY <1>2, PrintSpelled DEF PrintWords
<1>5. CASE Len(t) < 2 \/ ~WellFiltered(t, 3) \/ Place(Argument(t, 2)) = "none"
  <2>1. PrintCommand(t) = Failed
    BY <1>5 DEF PrintCommand
  <2>2. t \notin PrintSentences
    BY <1>2, <1>4, <1>5, Counts, PlaceSound, ArgumentThere, Zenon
  <2> QED BY <1>1, <1>3, <2>1, <2>2, TokensAssumption DEF CommandFits, Failed, Nothing
<1>6. CASE ~(Len(t) < 2 \/ ~WellFiltered(t, 3) \/ Place(Argument(t, 2)) = "none")
  <2>1. Len(t) >= 2 /\ Argument(t, 2) = t[2]
    BY <1>2, <1>6, Counts, ArgumentThere, Zenon
  <2>2. /\ PrintCommand(t).do = "print" /\ PrintCommand(t).on = Place(t[2])
        /\ PrintCommand(t).at = t[2]
    BY <1>6 DEF PrintCommand, Nothing
  <2>3. t \in PrintSentences
    BY <1>2, <1>4, <1>6, <2>1, PlaceSound
  <2> QED BY <1>1, <1>3, <2>2, <2>3, PlaceSound DEF CommandFits, Failed, Nothing
<1> QED BY <1>5, <1>6

LEMMA SetFits ==
  ASSUME NEW t \in Lines, t # <<>>, t[1] \in SetWords
  PROVE  CommandFits(t)
<1>1. Command(t) = SetCommand(t)
  BY DEF Command, SetWords, Plain, Located
<1>2. t \in Seq(STRING) /\ Len(t) \in Nat
  BY LineTokens
<1>3. /\ t \notin PrintSentences /\ t \notin PlainSentences /\ t \notin BreakSentences
  BY <1>2, WordsApart DEF PrintWords, SetWords, PlainWords, BreakWords
<1>4. t \in SetSentences <=>
        Len(t) >= 3 /\ t[2] \in Locations /\ t[3] \in Base16 /\ WellFiltered(t, 4)
  BY <1>2, SetSpelled DEF SetWords
<1> DEFINE Bad == \/ Len(t) < 3 \/ ~WellFiltered(t, 4)
                  \/ Argument(t, 3) \notin Base16 \/ Place(Argument(t, 2)) = "none"
<1>5. CASE Bad
  <2>1. SetCommand(t) = Failed
    BY <1>5 DEF SetCommand
  <2>2. t \notin SetSentences
    BY <1>2, <1>4, <1>5, Counts, PlaceSound, ArgumentThere, Zenon
  <2> QED BY <1>1, <1>3, <2>1, <2>2, TokensAssumption DEF CommandFits, Failed, Nothing
<1>6. CASE ~Bad
  <2>1. Len(t) >= 3 /\ Argument(t, 2) = t[2] /\ Argument(t, 3) = t[3]
    BY <1>2, <1>6, Counts, ArgumentThere, Zenon
  <2>2. /\ SetCommand(t).do = "set" /\ SetCommand(t).on = Place(t[2])
        /\ SetCommand(t).at = t[2] /\ SetCommand(t).value = t[3]
        /\ SetCommand(t).base = IF t[3] \in Base10 THEN 10 ELSE 16
    BY <1>6, <2>1 DEF SetCommand, Nothing
  <2>3. t \in SetSentences
    BY <1>2, <1>4, <1>6, <2>1, PlaceSound
  <2>4. SetCommand(t).base = 10 <=> SetCommand(t).value \in Base10
    BY <2>2
  <2>5. SetCommand(t).do = "set" /\ SetCommand(t) # Failed
    BY <2>2 DEF Failed, Nothing
  <2>6. SetCommand(t).on \in {"variable", "function"} <=> SetCommand(t).at \in Identifiers
    BY <2>2, PlaceSound
  <2>7. SetCommand(t).on # "line"
    BY <2>2, PlaceSound
  <2> QED BY <1>1, <1>3, <2>3, <2>4, <2>5, <2>6, <2>7 DEF CommandFits
<1> QED BY <1>5, <1>6

LEMMA OtherFits ==
  ASSUME NEW t \in Lines, t # <<>>, t[1] \notin PrintWords \cup SetWords
  PROVE  CommandFits(t)
<1>1. t \in Seq(STRING) /\ Len(t) \in Nat /\ Len(t) # 0
  BY LineTokens
<1>2. t \notin PrintSentences /\ t \notin SetSentences
  BY <1>1, WordsApart
<1>3. CASE t[1] \in {"a", "backtrace"}
  <2>1. Command(t) = [Nothing EXCEPT !.do = "backtrace"]
    BY <1>3 DEF Command, Plain, Located
  <2>2. t \notin PlainSentences /\ t \notin BreakSentences
    BY <1>1, <1>3, WordsApart DEF PlainWords, BreakWords
  <2> QED BY <1>2, <2>1, <2>2, TokensAssumption DEF CommandFits, Failed, Nothing
<1>4. CASE t[1] \in PlainWords
  <2>1. t \notin BreakSentences
    BY <1>1, <1>4, WordsApart DEF PlainWords, BreakWords
  <2>2. t \in PlainSentences <=> Len(t) = 1
    BY <1>1, <1>4, PlainSpelled DEF PlainWords
  <2>3. Plain(t[1]) \in {"continue", "next", "step", "leave", "inst"} /\ Located(t[1]) = "none"
    BY <1>4 DEF Plain, Located, PlainWords
  <2>4. Command(t) = IF Len(t) = 1 THEN [Nothing EXCEPT !.do = Plain(t[1])] ELSE Failed
    BY <1>4, <2>3 DEF Command, PlainWords
  <2>5. CASE Len(t) = 1
    BY <1>2, <2>1, <2>2, <2>3, <2>4, <2>5, TokensAssumption DEF CommandFits, Failed, Nothing
  <2>6. CASE Len(t) # 1
    BY <1>2, <2>1, <2>2, <2>4, <2>6, TokensAssumption DEF CommandFits, Failed, Nothing
  <2> QED BY <2>5, <2>6
<1>5. CASE t[1] \in BreakWords
  <2>1. t \notin PlainSentences
    BY <1>1, <1>5, WordsApart DEF PlainWords, BreakWords
  <2>2. t \in BreakSentences <=> Len(t) = 2 /\ t[2] \in Identifiers \cup Base16 \cup FileLines
    BY <1>1, <1>5, BreakSpelled DEF BreakWords
  <2>3. Plain(t[1]) = "none" /\ Located(t[1]) \in {"break", "delete"}
    BY <1>5 DEF Plain, Located, BreakWords
  <2>4. Command(t) = IF BreakPlace(Argument(t, 2)) # "none"
                     THEN [Nothing EXCEPT !.do = Located(t[1]), !.on = BreakPlace(t[2]), !.at = t[2]]
                     ELSE Failed
    BY <1>5, <2>3 DEF Command, BreakWords
  <2>5. CASE BreakPlace(Argument(t, 2)) = "none"
    <3>1. t \notin BreakSentences
      <4>1. Len(t) = 2 => Argument(t, 2) = t[2]
        BY <1>1 DEF Argument
      <4> QED BY <2>2, <2>5, <4>1, BreakPlaceSound
    <3> QED BY <1>2, <2>1, <2>4, <2>5, <3>1, TokensAssumption DEF CommandFits, Failed, Nothing
  <2>6. CASE BreakPlace(Argument(t, 2)) # "none"
    <3>1. 2 <= Len(t)
      BY <2>6, BreakPlaceSound, TokensAssumption DEF Argument
    <3>2. Argument(t, 2) = t[2]
      BY <3>1, ArgumentThere
    <3>3. /\ t[2] \in Identifiers \cup Base16 \cup FileLines
          /\ BreakPlace(t[2]) = "function" <=> t[2] \in Identifiers
          /\ BreakPlace(t[2]) = "address" <=> t[2] \in Base16 \ Identifiers
          /\ BreakPlace(t[2]) \in {"function", "address", "line"}
      BY <2>6, <3>2, BreakPlaceSound
    <3>4. /\ Command(t).do \in {"break", "delete"} /\ Command(t) # Failed
          /\ Command(t).on = BreakPlace(t[2]) /\ Command(t).at = t[2]
      BY <2>3, <2>4, <2>6 DEF Failed, Nothing
    <3> QED BY <1>2, <2>1, <2>2, <3>1, <3>3, <3>4 DEF CommandFits, Failed, Nothing
  <2> QED BY <2>5, <2>6
<1>6. CASE t[1] \notin PlainWords \cup BreakWords \cup {"a", "backtrace"}
  <2>1. Command(t) = Failed
    BY <1>6 DEF Command, Plain, Located, PlainWords, BreakWords, PrintWords, SetWords
  <2>2. t \notin PlainSentences /\ t \notin BreakSentences
    BY <1>1, <1>6, WordsApart
  <2> QED BY <1>2, <2>1, <2>2, TokensAssumption DEF CommandFits, Failed, Nothing
<1> QED BY <1>3, <1>4, <1>5, <1>6

LEMMA CommandSound ==
  ASSUME NEW t \in Lines, t # <<>>
  PROVE  CommandFits(t)
BY PrintFits, SetFits, OtherFits

\* The tokens are those of the saved command, and what came of them is the
\* command they spell.  A break or delete waits for its function, and fails if
\* there is none, or no code at its line, or more than its location.
Interpreted ==
  /\ history # <<>> => history[1] \in Lines \ {<<>>}
  /\ tokens # <<>> => history # <<>> /\ tokens \in Lines
  /\ step \in {"break", "break_use"} =>
       tokens # <<>> /\ ran = Command(tokens) /\ ran.on = "function" /\ ran.do \in {"break", "delete"}
  /\ tokens # <<>> =>
       \/ /\ ran = Command(tokens)
          /\ ran.do \in {"break", "delete"} /\ step \notin {"break", "break_use"} => ~(Len(tokens) > 2)
       \/ /\ ran = Failed /\ Command(tokens).do \in {"break", "delete"}
          /\ Len(tokens) > 2 \/ Command(tokens).on # "address"

\* A new line, or the saved one, is interpreted from its beginning.
LEMMA InterpretAnew ==
  ASSUME NEW t \in Lines, t # <<>>, Interpret(t), history' # <<>>,
         history'[1] \in Lines \ {<<>>}
  PROVE  Interpreted'
<1> DEFINE cmd == Command(t)
           located == cmd.do \in {"break", "delete"}
           late == located /\ cmd.on # "function" /\ Len(t) > 2
<1>1. /\ tokens' = t
      /\ ran' \in IF late THEN {Failed} ELSE IF cmd.on = "line" THEN {cmd, Failed} ELSE {cmd}
      /\ step' \in FirstStep(cmd, t)
  BY DEF Interpret
<1>2. step' \in {"break", "break_use"} => located /\ cmd.on = "function"
  BY <1>1 DEF FirstStep
<1>3. located /\ cmd.on = "function" => step' \in {"break"}
  BY <1>1 DEF FirstStep
<1>4. cmd.on = "line" => located
  BY CommandSound DEF CommandFits
<1> HIDE DEF cmd, located
<1> QED BY <1>1, <1>2, <1>3, <1>4 DEF Interpreted, cmd, located

\* Every step between a line and the next prompt keeps its command, except for
\* the one that looks a function up, and the one that uses it.
LEMMA NextInterpreted ==
  ASSUME Interpreted, [Next]_vars
  PROVE  Interpreted'
<1>1. CASE UNCHANGED <<history, tokens, ran>> /\ (step' = step \/ step' \notin {"break", "break_use"})
           /\ step \notin {"break", "break_use"}
  BY <1>1 DEF Interpreted
<1>2. CASE UNCHANGED lineVars
  BY <1>2 DEF lineVars, Interpreted
<1>3. CASE EnterLine
  <2>1. CASE line' # <<>>
    <3>1. line' \in Lines /\ history' = <<line'>> /\ Interpret(line')
      BY <1>3, <2>1 DEF EnterLine, Saved
    <3>2. history' # <<>> /\ history'[1] = line'
      BY <3>1
    <3> QED BY <2>1, <3>1, <3>2, InterpretAnew
  <2>2. CASE line' = <<>> /\ history = <<>>
    <3>1. UNCHANGED <<history, tokens, step>> /\ tokens = <<>>
      BY <1>3, <2>2 DEF EnterLine, Interpreted
    <3> QED BY <3>1 DEF Interpreted
  <2>3. CASE line' = <<>> /\ history # <<>>
    <3>1. history' = history /\ Interpret(history[1]) /\ history[1] \in Lines \ {<<>>}
      BY <1>3, <2>3 DEF EnterLine, Interpreted
    <3> QED BY <2>3, <3>1, InterpretAnew
  <2> QED BY <2>1, <2>2, <2>3
<1>4. CASE BreakLookUp
  BY <1>4 DEF BreakLookUp, Goto, Interpreted
<1>5. CASE BreakUse
  BY <1>5 DEF BreakUse, Goto, Interpreted
<1>6. CASE OverLookUp \/ OverUse \/ StepLookUp \/ StepUse
  BY <1>1, <1>6 DEF OverLookUp, OverUse, StepLookUp, StepUse, Goto
<1>7. CASE TraceLookUp \/ TraceUse \/ SourceLookUp \/ SourceUse
  BY <1>1, <1>7 DEF TraceLookUp, TraceUse, SourceLookUp, SourceUse, Goto
<1>8. CASE Prompt
  BY <1>3, <1>4, <1>5, <1>6, <1>7, <1>8 DEF Prompt, LineNext
<1>9. CASE Starting \/ EndOfInput \/ UNCHANGED vars
  BY <1>2, <1>9 DEF Starting, EndOfInput, vars
<1>10. CASE RunDebugger
  <2>1. CASE FindMain
    BY <1>1, <2>1 DEF FindMain
  <2>2. CASE UseMain
    BY <1>1, <2>2 DEF UseMain
  <2>3. CASE FirstSource
    BY <1>7, <2>3 DEF FirstSource
  <2>4. CASE Await
    BY <1>2, <2>4 DEF Await
  <2> QED BY <1>10, <2>1, <2>2, <2>3, <2>4 DEF RunDebugger
<1> QED BY <1>8, <1>9, <1>10 DEF Next

\* A command that came of a line is the one that the line spells in full.
LEMMA InterpretedWhole == Interpreted => OnlyWholeCommandsRun
<1> SUFFICES ASSUME Interpreted, step = "ready", tokens # <<>>
             PROVE  OnlyWholeCommandsRun
  BY DEF OnlyWholeCommandsRun
<1>1. tokens \in Lines /\ CommandFits(tokens)
  BY CommandSound DEF Interpreted
<1>2. tokens \in Seq(STRING) /\ Len(tokens) \in Nat
  BY <1>1, LineTokens
<1>3. CASE ran = Command(tokens) /\ (ran.do \in {"break", "delete"} => ~(Len(tokens) > 2))
  <2>1. ran.do \in {"break", "delete"} => tokens \in BreakSentences
    BY <1>1, <1>2, <1>3, Counts, Zenon DEF CommandFits
  <2> QED BY <1>1, <1>3, <2>1 DEF OnlyWholeCommandsRun, CommandFits, Failed, Nothing
<1>4. CASE /\ ran = Failed /\ Command(tokens).do \in {"break", "delete"}
           /\ Len(tokens) > 2 \/ Command(tokens).on # "address"
  <2>1. /\ tokens \notin PrintSentences /\ tokens \notin SetSentences
        /\ tokens \notin PlainSentences
    BY <1>1, <1>4 DEF CommandFits
  <2>2. tokens \in BreakSentences => tokens[2] \notin Base16 \ Identifiers
    <3>1. tokens \in BreakSentences => Len(tokens) = 2
      BY <1>2, BreakSpelled
    <3>2. tokens \in BreakSentences => ~(Len(tokens) > 2)
      BY <1>2, <3>1, Counts, Zenon
    <3> QED BY <1>1, <1>4, <3>2 DEF CommandFits
  <2> QED BY <1>4, <2>1, <2>2, TokensAssumption DEF OnlyWholeCommandsRun, Failed, Nothing
<1> QED BY <1>3, <1>4 DEF Interpreted

\* Nothing runs but a command that is spelled in full, whatever the tokens
\* are that numbers, names, lines and registers are recognised by.
THEOREM WholeCommandsOnly == Spec => []OnlyWholeCommandsRun
<1>1. Init => Interpreted
  BY DEF Init, LineInit, Interpreted
<1>2. Interpreted /\ [Next]_vars => Interpreted'
  BY NextInterpreted
<1> QED BY <1>1, <1>2, InterpretedWhole, PTL DEF Spec

=============================================================================
