------------------------------ MODULE Session ------------------------------
(***************************************************************************)
(* A session with spray: Startup, then run_debugger, whose start is the    *)
(* first user of the buffer of symbols and whose loop reads one line after *)
(* the other (CommandLine).                                                *)
(***************************************************************************)
EXTENDS Startup, CommandLine, FiniteSets

vars == <<startVars, lineVars>>

Init == StartInit /\ LineInit

Starting ==
  /\ Parent \/ Child \/ Outside
  /\ UNCHANGED lineVars

-----------------------------------------------------------------------------
(* run_debugger *)

\* sym_by_name for main.
FindMain ==
  /\ stage = "main" /\ step = "off"
  /\ \E found \in MainFound :
       \/ found = "crash" /\ stage' = "aborted" /\ UNCHANGED <<step, room, held>>
       \/ found = "none" /\ stage' = "ended" /\ UNCHANGED <<step, room, held>>
       \/ found \in {"start", "other"} /\ Hold("main") /\ step' = "main_use" /\ UNCHANGED stage
  /\ UNCHANGED <<argv, args, tables, child, traced, image, copies, signalVars, line, history, tokens, ran>>

\* function_start_addr; only if it succeeds does the program run.
UseMain ==
  /\ stage = "main" /\ step = "main_use"
  /\ \/ /\ File.main = "start" \/ tables = Garbage
        /\ ContinueToMain
     \/ /\ File.main = "other" \/ tables = Garbage
        /\ stage' = "source" /\ UNCHANGED child
  /\ step' = "source"
  /\ UNCHANGED <<argv, args, tables, traced, image, copies, signalVars>>
  /\ UNCHANGED <<line, history, tokens, ran, room, held>>

\* The wait for the first stop.
Await == WaitForMain /\ UNCHANGED lineVars

\* The first print_current_source ends at the prompt.
FirstSource ==
  /\ stage = "source" /\ (SourceLookUp \/ SourceUse)
  /\ stage' = IF step' = "ready" THEN "prompt" ELSE "source"
  /\ UNCHANGED <<argv, args, tables, child, traced, image, copies, signalVars>>

Prompt ==
  /\ stage = "prompt" /\ LineNext
  /\ UNCHANGED startVars

\* The end of the input: del_debugger, and main returns.
EndOfInput ==
  /\ stage = "prompt" /\ step = "ready" /\ stage' = "ended"
  /\ UNCHANGED <<argv, args, tables, child, traced, image, copies, signalVars, lineVars>>

RunDebugger == FindMain \/ UseMain \/ Await \/ FirstSource

Next == Starting \/ RunDebugger \/ Prompt \/ EndOfInput

Spec == Init /\ [][Next]_vars

\* Neither process waits for anything but the other one: the parent in
\* waitpid.  No signal has to come, and no program has to reach main, or end.
FairSpec ==
  /\ Spec
  /\ WF_vars(Parent /\ UNCHANGED lineVars) /\ WF_vars(Child /\ UNCHANGED lineVars)
  /\ WF_vars(RunDebugger)

-----------------------------------------------------------------------------
(* Properties. *)

\* No symbol and no position is read through a pointer from before the buffer
\* has moved, and none is stored behind its end (alloc_symbol).
HeldSymbolsFresh == room >= 0 /\ \A h \in UsedAt(step) : held[h] = "fresh"

\* An empty line means the line typed before it, whatever became of that: a
\* typing error is repeated, too, and not the command that came before it.
RepeatsLastTyped ==
  [][stage = "prompt" /\ line # <<>> /\ line' = <<>> =>
       tokens' = line /\ (ran' = Command(line) \/ ran' = Failed)]_vars

\* The sentences of handle_debug_command_tokens: a word, its arguments, and for
\* print and set one of the filters of parse_filter behind a pipe.
Locations == Identifiers \cup RegisterNames \cup Base16
PrintSentences ==
  LET words == {"p", "print"}
  IN  {<<w, l>> : w \in words, l \in Locations}
      \cup {<<w, l, "|", f>> : w \in words, l \in Locations, f \in Filters}
SetSentences ==
  LET words == {"t", "set"}
  IN  {<<w, l, v>> : w \in words, l \in Locations, v \in Base16}
      \cup {<<w, l, v, "|", f>> : w \in words, l \in Locations, v \in Base16, f \in Filters}
BreakSentences ==
  {<<w, l>> : w \in {"b", "break", "d", "delete"}, l \in Identifiers \cup Base16 \cup FileLines}
PlainSentences ==
  {<<w>> : w \in {"c", "continue", "n", "next", "s", "step", "l", "leave", "i", "inst"}}

\* A line runs as a command exactly if it is one of those sentences, and a
\* name that could be a number is a name, a number that could be decimal is
\* decimal.  Only a backtrace takes no notice of what comes behind it, and a
\* breakpoint may fail for a function that is not known, or a line that has no
\* address, but never for an address.
OnlyWholeCommandsRun ==
  stage = "prompt" /\ step = "ready" /\ tokens # <<>> /\ ran # Nothing =>
    /\ ran.do = "print" => tokens \in PrintSentences
    /\ ran.do = "set" => tokens \in SetSentences /\ (ran.base = 10 <=> ran.value \in Base10)
    /\ ran.do \in {"break", "delete"} => tokens \in BreakSentences
    /\ ran.do \in {"continue", "next", "step", "leave", "inst"} => tokens \in PlainSentences
    /\ ran.on \in {"variable", "function"} <=> ran.at \in Identifiers
    /\ ran = Failed =>
         /\ tokens \notin PrintSentences \cup SetSentences \cup PlainSentences
         /\ tokens \in BreakSentences => tokens[2] \notin Base16 \ Identifiers

\* "All subsequent arguments are the arguments passed to the debugee": the
\* program gets each word behind its name, flags included, and no other.
ArgumentsPassedOn ==
  image # NoImage =>
    \E i \in DOMAIN argv :
      /\ argv[i] = args.file /\ argv[i] \notin Dashed
      /\ \A k \in 1 .. i - 1 : argv[k] \in Dashed
      /\ IF i = Len(argv) THEN image = <<>> ELSE image = SubSeq(argv, i, Len(argv))

\* If the file can be executed, there is one debugger, and what it has in its
\* hands is traced and has become the program, unless it is dead, or a signal
\* has stopped it before execv.  Only its wait for main leaves it running.
OneDebugger ==
  stage \in {"load", "main", "run", "source", "prompt"} /\ File.runnable =>
    /\ copies \subseteq {"parent"}
    /\ child # "dead" =>
         /\ traced
         /\ \/ image = args.args /\ child \in {"stopped", "running", "at_main"}
            \/ image = NoImage /\ child \in {"spray", "halted"} /\ signals > 0
         /\ stage # "run" => child \in {"stopped", "halted", "at_main"}

\* If the header is in order and the file has both tables, then the session
\* works with the first ones of the right name and kind.
TablesFound ==
  stage \in {"main", "run", "source", "prompt"} /\ File.odd = {} =>
    LET symtabs == {i \in DOMAIN File.sections : IsValidSymtab(File.sections[i])}
        strtabs == {i \in DOMAIN File.sections : IsValidStrtab(File.sections[i])}
    IN  \A s \in symtabs, t \in strtabs :
          /\ tables.symtab + 1 \in symtabs /\ tables.symtab < s
          /\ tables.strtab + 1 \in strtabs /\ tables.strtab < t

\* The start comes to an end, and for good, unless it waits for a program that
\* nobody traces, or for one that never calls main.
StartupSettles ==
  <>[](\/ stage \in Settled
       \/ stage = "wait" /\ child = "program"
       \/ stage = "run" /\ child = "running")

=============================================================================
