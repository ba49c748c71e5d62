---------------------------- MODULE CommandLine ----------------------------
(***************************************************************************)
(* One line of input (handle_debug_command): the repetition of the last    *)
(* command, the order in which the tokens are interpreted, and what the    *)
(* command does to the buffer of symbols in info.c.                        *)
(*                                                                         *)
(* alloc_symbol moves the buffer when it has to grow, which leaves every   *)
(* pointer into it dangling, and nothing ever shrinks it.  Therefore each  *)
(* use of a symbol, or of a position in one, is a step of its own; what    *)
(* the commands do to the tracee is the subject of Debugger and Inspection.*)
(*                                                                         *)
(* A line is the sequence of its tokens.                                   *)
(***************************************************************************)
EXTENDS Integers, Sequences

CONSTANTS
  Lines,          \* the lines that a user types
  Identifiers,    \* the tokens that is_valid_identifier accepts
  Base10,         \* those that parse_base10 accepts,
  Base16,         \* and parse_base16,
  FileLines,      \* and is_file_with_line together with parse_lineno
  Percent,        \* those that begin with %,
  RegisterNames,  \* and the ones with the name of a register behind it
  SYM_ALLOC_SIZE

ASSUME TokensAssumption ==
  /\ Lines \subseteq Seq(STRING \ {""})
  /\ "" \notin Identifiers \cup Base16 \cup FileLines \cup Percent
  /\ Identifiers \cap (Base10 \cup Percent \cup FileLines) = {}
  /\ Base10 \subseteq Base16 /\ Percent \cap Base16 = {}
  /\ RegisterNames \subseteq Percent
ASSUME SizeAssumption == SYM_ALLOC_SIZE \in Nat \ {0}

VARIABLES
  line,     \* the last line that was typed
  history,  \* the saved command: a sequence of at most one line
  tokens,   \* the tokens that were interpreted last
  ran,      \* the command that came of them, or Nothing
  step,     \* where the program is between the uses of a symbol
  room,     \* n_alloc - n_symbols
  held      \* pointers into the buffer: "none", "fresh" or "dangling"

lineVars == <<line, history, tokens, ran, step, room, held>>

\* The local variables that hold a pointer into the buffer.
Holder == {"main", "func", "pos", "sym"}

Nothing == [do |-> "nothing", on |-> "", at |-> "", filter |-> "", value |-> "", base |-> 0]
Failed == [Nothing EXCEPT !.do = "failed"]

LineInit ==
  /\ line = <<>> /\ history = <<>> /\ tokens = <<>> /\ ran = Nothing /\ step = "off"
  /\ room = SYM_ALLOC_SIZE /\ held = [h \in Holder |-> "none"]

-----------------------------------------------------------------------------
(* handle_debug_command_tokens *)

\* is_command: the commands that take no argument, and those that take a
\* location only.
Plain(word) ==
  CASE word \in {"c", "continue"} -> "continue"
    [] word \in {"i", "inst"} -> "inst"
    [] word \in {"l", "leave"} -> "leave"
    [] word \in {"s", "step"} -> "step"
    [] word \in {"n", "next"} -> "next"
    [] OTHER -> "none"
Located(word) ==
  CASE word \in {"b", "break"} -> "break"
    [] word \in {"d", "delete"} -> "delete"
    [] OTHER -> "none"
Filters == {"hex", "bits", "addr", "dec", "bytes", "deref", "*"}

\* get_next_token: "" stands for the end of the line, since no token is empty.
Argument(t, i) == IF i <= Len(t) THEN t[i] ELSE ""

\* parse_filter and its delimiter: "" stands for no filter.
FilterAt(t, i) == IF i <= Len(t) THEN t[i + 1] ELSE ""

\* Mutant of WellFiltered: what follows the filter is not looked at.
WellFilteredAny(t, i) ==
  i > Len(t) \/ (t[i] = "|" /\ Len(t) > i /\ t[i + 1] \in Filters)

\* From token i on there is nothing, or one filter and nothing else.
WellFiltered(t, i) ==
  i > Len(t) \/ (t[i] = "|" /\ Len(t) = i + 1 /\ t[i + 1] \in Filters)

\* What a location of print and set denotes, or "none".
Place(t) ==
  CASE t \in Percent -> IF t \in RegisterNames THEN "register" ELSE "none"
    [] t \in Identifiers -> "variable"
    [] t \in Base16 \ (Percent \cup Identifiers) -> "memory"
    [] OTHER -> "none"

\* parse_break_location
BreakPlace(t) ==
  CASE t \in Identifiers -> "function"
    [] t \in Base16 \ Identifiers -> "address"
    [] t \in FileLines \ (Base16 \cup Identifiers) -> "line"
    [] OTHER -> "none"

PrintCommand(t) ==
  IF Len(t) < 2 \/ ~WellFiltered(t, 3) \/ Place(Argument(t, 2)) = "none" THEN Failed
  ELSE [Nothing EXCEPT !.do = "print", !.on = Place(t[2]), !.at = t[2],
                       !.filter = FilterAt(t, 3)]

\* The value is decimal if it can be, and decides the filter if there is none.
SetCommand(t) ==
  LET base == IF Argument(t, 3) \in Base10 THEN 10 ELSE 16
      default == IF base = 10 THEN "dec" ELSE "hex"
  IN  IF \/ Len(t) < 3 \/ ~WellFiltered(t, 4)
         \/ Argument(t, 3) \notin Base16 \/ Place(Argument(t, 2)) = "none"
      THEN Failed
      ELSE [Nothing EXCEPT !.do = "set", !.on = Place(t[2]), !.at = t[2],
                           !.filter = IF Len(t) = 3 THEN default ELSE FilterAt(t, 4),
                           !.value = t[3], !.base = base]

\* The command as far as it can be told without the symbols: a location has
\* been looked up before the tokens behind it are counted.
Command(t) ==
  CASE t[1] \in {"p", "print"} -> PrintCommand(t)
    [] t[1] \in {"t", "set"} -> SetCommand(t)
    [] t[1] \in {"a", "backtrace"} -> [Nothing EXCEPT !.do = "backtrace"]
    [] Plain(t[1]) # "none" /\ Len(t) = 1 -> [Nothing EXCEPT !.do = Plain(t[1])]
    [] Located(t[1]) # "none" /\ BreakPlace(Argument(t, 2)) # "none" ->
         [Nothing EXCEPT !.do = Located(t[1]), !.on = BreakPlace(t[2]), !.at = t[2]]
    [] OTHER -> Failed

-----------------------------------------------------------------------------
(* alloc_symbol, from [room, held]. *)

Buffer == [room |-> room, held |-> held]

Allocated(b, h) ==
  IF b.room > 0
  THEN [room |-> b.room - 1, held |-> [b.held EXCEPT ![h] = "fresh"]]
  ELSE [room |-> SYM_ALLOC_SIZE - 1,
        held |-> [x \in Holder |-> IF x = h THEN "fresh"
                                   ELSE IF b.held[x] = "none" THEN "none" ELSE "dangling"]]

\* sym_by_addr and sym_by_name, when they find something.
Hold(h) ==
  LET b == Allocated(Buffer, h) IN room' = b.room /\ held' = b.held

\* Mutant of HoldFunction: another look-up comes before the first use.
HoldFunctionLate ==
  LET b == Allocated(Allocated(Buffer, "func"), "sym") IN room' = b.room /\ held' = b.held

HoldFunction == Hold("func")

\* The pointers that the next step reads through.
UsedAt(s) ==
  CASE s = "main_use" -> {"main"}
    [] s = "pos_use" -> {"pos"}
    [] s = "source_use" -> {"sym"}
    [] s \in {"break_use", "over_use", "trace_use"} -> {"func"}
    [] OTHER -> {}

-----------------------------------------------------------------------------
(* The steps. *)

Goto(s) == step' = s /\ UNCHANGED <<line, history, tokens>>

\* Mutant of Saved: only a command that can run is kept.
SavedIfKnown(l) == IF Command(l) = Failed THEN history ELSE <<l>>

\* save_command
Saved(l) == <<l>>

\* Where the work of a command begins.
FirstStep(cmd, t) ==
  CASE cmd.do \in {"continue", "inst", "leave"} -> {"source", "ready"}
    [] cmd.do = "step" -> {"pos"}
    [] cmd.do = "next" -> {"over"}
    [] cmd.do = "backtrace" -> {"trace", "ready"}
    [] cmd.do \in {"break", "delete"} /\ cmd.on = "function" -> {"break"}
    [] OTHER -> {"ready"}

\* handle_debug_command_tokens.  The end of the tokens is looked for when the
\* location is known to be good: an address always is, a line if addr_at finds
\* an address for it, and a function is looked up first.
Interpret(t) ==
  LET cmd == Command(t)
      late == cmd.do \in {"break", "delete"} /\ cmd.on # "function" /\ Len(t) > 2
  IN  /\ tokens' = t
      /\ ran' \in IF late THEN {Failed} ELSE IF cmd.on = "line" THEN {cmd, Failed} ELSE {cmd}
      /\ step' \in FirstStep(cmd, t)
      /\ held' = [h \in Holder |-> "none"] /\ UNCHANGED room

\* handle_debug_command.  An empty line repeats the saved command, and is not
\* saved itself.
EnterLine ==
  /\ step = "ready"
  /\ line' \in Lines
  /\ IF line' # <<>> THEN history' = Saved(line') /\ Interpret(line')
     ELSE /\ UNCHANGED history
          /\ IF history = <<>> THEN ran' = Failed /\ UNCHANGED <<tokens, step, room, held>>
             ELSE Interpret(history[1])

\* parse_break_location for the name of a function.
BreakLookUp ==
  /\ step = "break"
  /\ \/ HoldFunction /\ Goto("break_use") /\ UNCHANGED ran
     \/ ran' = Failed /\ Goto("ready") /\ UNCHANGED <<room, held>>

\* function_start_addr, and the end of the tokens.
BreakUse ==
  /\ step = "break_use"
  /\ ran' \in IF Len(tokens) > 2 THEN {Failed} ELSE {ran, Failed}
  /\ Goto("ready") /\ UNCHANGED <<room, held>>

\* step_over
OverLookUp ==
  /\ step = "over"
  /\ \/ HoldFunction /\ Goto("over_use")
     \/ Goto("ready") /\ UNCHANGED <<room, held>>
  /\ UNCHANGED ran

OverUse ==
  /\ step = "over_use" /\ (Goto("source") \/ Goto("ready"))
  /\ UNCHANGED <<ran, room, held>>

\* single_step_line: the position is looked up again after each instruction.
StepLookUp ==
  /\ step = "pos"
  /\ \/ Hold("pos") /\ Goto("pos_use")
     \/ Goto("ready") /\ UNCHANGED <<room, held>>
  /\ UNCHANGED ran

StepUse ==
  /\ step = "pos_use" /\ (Goto("pos") \/ Goto("source") \/ Goto("ready"))
  /\ UNCHANGED <<ran, room, held>>

\* init_call_frame, and stores_frame_pointer before it, for each frame.
TraceLookUp ==
  /\ step = "trace"
  /\ \/ HoldFunction /\ Goto("trace_use")
     \/ (Goto("trace") \/ Goto("ready")) /\ UNCHANGED <<room, held>>
  /\ UNCHANGED ran

TraceUse ==
  /\ step = "trace_use" /\ (Goto("trace") \/ Goto("ready"))
  /\ UNCHANGED <<ran, room, held>>

\* print_current_source
SourceLookUp ==
  /\ step = "source"
  /\ \/ Hold("sym") /\ Goto("source_use")
     \/ Goto("ready") /\ UNCHANGED <<room, held>>
  /\ UNCHANGED ran

SourceUse ==
  /\ step = "source_use" /\ Goto("ready")
  /\ UNCHANGED <<ran, room, held>>

LineNext ==
  \/ EnterLine \/ BreakLookUp \/ BreakUse \/ OverLookUp \/ OverUse \/ StepLookUp \/ StepUse
  \/ TraceLookUp \/ TraceUse \/ SourceLookUp \/ SourceUse

=============================================================================
