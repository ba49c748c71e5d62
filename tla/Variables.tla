----------------------------- MODULE Variables -----------------------------
(***************************************************************************)
(* From the name of a variable to the place of its value: the search for   *)
(* its entry with the scopes of functions, its type, and the evaluation of *)
(* its location, in spray_dwarf.c.  DwarfSearch shows that a search calls  *)
(* its callback with all entries in the order of the file; here a callback *)
(* is a fold over the sequence of the entries.                             *)
(*                                                                         *)
(* An entry (DIE) is a record                                              *)
(*   [tag, level, name, low, high, frame, loc, type]                       *)
(* with high < low for an entry without a range of addresses.  loc and     *)
(* frame (DW_AT_location, DW_AT_frame_base) are location lists, and empty  *)
(* without that attribute; an element of a list is                         *)
(*   [low, high, expr], bounded unless low and high are 0,                 *)
(* an expression is a sequence of [op, arg].  A type is the sequence of    *)
(* the entries that DW_AT_type leads to, each [tag, size, signed].         *)
(***************************************************************************)
EXTENDS Integers, Sequences, SequencesExt, LineTable

CONSTANTS
  BYTE,  \* the number of values of a byte
  WORD   \* the number of bytes of a word, 8 in the code

ASSUME WordAssumption == BYTE \in Nat \ {0} /\ BYTE % 2 = 0 /\ WORD \in Nat \ {0}

\* What is needed of the powers of BYTE.
ASSUME PowersAssumption ==
  \A size \in 1 .. WORD :
    LET power == BYTE ^ size
    IN  power \in Nat \ {0} /\ power % 2 = 0 /\ BYTE ^ WORD % power = 0

WordValue == 0 .. BYTE ^ WORD - 1

-----------------------------------------------------------------------------
(* Types. *)

\* sd_variable_type: the chain has to end in a base type or in a pointer,
\* which is how clang writes void *, without an unsupported type on the way.
HasType(type) ==
  /\ type # <<>> /\ Last(type).tag \in {"base", "pointer"}
  /\ \A i \in DOMAIN type : type[i].tag \in {"base", "pointer", "modifier", "typedef"}

\* Mutant of ValueNode: pointers are looked through.
BaseNode(type) == Last(type)

\* The node that decides how many bytes of a word are the value
\* (mask_var_value) and how it is printed (print_var_value).
ValueNode(type) == type[SelectInSeq(type, LAMBDA n : n.tag \in {"base", "pointer"})]

\* mask_var_value_
Mask(size, value) == value % BYTE ^ size
SizeOf(type) == IF ValueNode(type).tag = "pointer" THEN WORD ELSE ValueNode(type).size

\* A two's complement number of that many bytes.
Signed(size, value) ==
  IF value < BYTE ^ size \div 2 THEN value ELSE value - BYTE ^ size

\* print_base_type: its own format, or that of the filter for the whole word.
PrintBaseType(node, value, filter) ==
  LET masked == Mask(node.size, value)
  IN  CASE filter = "none" /\ node.signed -> Signed(node.size, masked)
        [] filter = "dec" -> Signed(WORD, masked)
        [] OTHER -> masked

\* print_var_value
PrintVarValue(type, value, filter) ==
  LET node == ValueNode(type)
  IN  CASE node.tag = "base" -> PrintBaseType(node, value, filter)
        [] node.tag = "pointer" /\ filter = "dec" -> Signed(WORD, value)
        [] OTHER -> value

\* print_var_deref_value: the base type has to follow a pointer, with nothing
\* but modifiers and other pointers in between.
DerefTyped(type) ==
  /\ Last(type).tag = "base"
  /\ \E p \in DOMAIN type :
       /\ type[p].tag = "pointer"
       /\ \A i \in (p + 1) .. (Len(type) - 1) : type[i].tag # "typedef"

PrintVarDerefValue(type, value) ==
  IF DerefTyped(type) THEN PrintBaseType(Last(type), value, "none") ELSE value

-----------------------------------------------------------------------------
(* Scopes. *)

HasRange(die) == die.low <= die.high

\* sd_check_pc_in_die: the end is taken for a part of the range.
PcInDie(die, pc) == die.low <= pc /\ pc <= die.high

\* What callback__find_runtime_variable looks for.
IsVariable(die, name) ==
  /\ die.tag \in {"variable", "formal_parameter"} /\ die.loc # <<>>
  /\ die.name = name /\ HasType(die.type)

\* Mutant of ScopeStep: any function begins a scope.
ScopeStepAnywhere(s, die, pc) ==
  LET below == s.in_scope /\ die.level > s.scope_level
  IN  IF die.tag # "subprogram" THEN [s EXCEPT !.in_scope = below]
      ELSE [s EXCEPT !.in_scope = TRUE, !.scope_level = die.level]

\* A scope ends with an entry that is not below its function, and a function
\* that contains the program counter begins one.
ScopeStep(s, die, pc) ==
  LET below == s.in_scope /\ die.level > s.scope_level
      inside == IF HasRange(die) THEN PcInDie(die, pc) ELSE below
  IN  IF die.tag # "subprogram" THEN [s EXCEPT !.in_scope = below]
      ELSE [s EXCEPT !.in_scope = inside, !.scope_level = IF inside THEN die.level ELSE @]

\* The first search, over the entries in their order up to the first variable
\* with the name in scope.
ScopedVariable(dies, pc, name) ==
  LET visited[i \in 0 .. Len(dies)] ==
        IF i = 0 THEN [in_scope |-> FALSE, scope_level |-> 0, found |-> NotFound]
        ELSE LET s == visited[i - 1]
                 now == ScopeStep(s, dies[i], pc)
             IN  IF s.found = NotFound /\ now.in_scope /\ IsVariable(dies[i], name)
                 THEN [now EXCEPT !.found = i] ELSE now
  IN  visited[Len(dies)].found

\* The second search takes no notice of the scope.
AnyVariable(dies, name) == SelectInSeq(dies, LAMBDA d : IsVariable(d, name))

\* sd_runtime_variable
VariableEntry(dies, pc, name) ==
  LET scoped == ScopedVariable(dies, pc, name)
  IN  IF scoped # NotFound THEN scoped ELSE AnyVariable(dies, name)

-----------------------------------------------------------------------------
(* Locations: [kind |-> "addr", addr] or [kind |-> "reg", reg]. *)

LocAddr(a) == [kind |-> "addr", addr |-> a % BYTE ^ WORD]
LocReg(r) == [kind |-> "reg", reg |-> r]

\* sd_init_loc_range
Meaningful(entry) == ~(entry.low = 0 /\ entry.high = 0)

\* is_active_range
ActiveRange(entry, pc) == Meaningful(entry) /\ entry.low <= pc /\ pc < entry.high

\* sd_eval_loclist: the entry to evaluate, NotFound if none is active.
ActiveEntry(loclist, pc) ==
  LET bounded == SelectInSeq(loclist, LAMBDA e : ActiveRange(e, pc))
  IN  IF bounded # NotFound THEN bounded
      ELSE SelectInSeq(loclist, LAMBDA e : ~Meaningful(e))

\* sd_eval_locop and its handlers: DW_OP_reg0 to DW_OP_reg31, DW_OP_addr,
\* DW_OP_fbreg; anything else is not supported.
Supported(op, base) == op.op \in {"reg", "addr"} \/ (op.op = "fbreg" /\ base # {})
Evaluated(op, base, load) ==
  CASE op.op = "reg" -> {LocReg(op.arg)}
    [] op.op = "addr" -> {LocAddr(op.arg + load)}
    [] OTHER -> {LocAddr(b + op.arg) : b \in base}

\* sd_eval_locexpr: every operation pushes one location, the last one is the
\* result.  An empty expression leaves the result uninitialised.
EvalLocexpr(expr, base, load, garbage) ==
  IF expr = <<>> THEN garbage
  ELSE IF \A i \in DOMAIN expr : Supported(expr[i], base)
       THEN Evaluated(Last(expr), base, load) ELSE {}

\* sd_eval_loclist: the locations that it can return, none for SP_ERR.
EvalLoclist(loclist, pc, base, load, garbage) ==
  LET i == ActiveEntry(loclist, pc)
  IN  IF i = NotFound THEN {LocAddr(0)}
      ELSE EvalLocexpr(loclist[i].expr, base, load, garbage)

\* The first half of sd_eval_op_fbreg: the registers that hold the frame base
\* of the function whose symbol covers the program counter; none if there is
\* no such function, or its frame base is not a register.
FrameRegisters(dies, symbols, pc, load) ==
  LET s == SymbolFromAddr(symbols, pc)
      f == SelectInSeq(dies, LAMBDA d : d.tag = "subprogram" /\ d.name = symbols[s].name
                                        /\ d.frame # <<>>)
  IN  IF s = NotFound THEN {} ELSE IF f = NotFound THEN {}
      ELSE {l.reg : l \in {m \in EvalLoclist(dies[f].frame, pc, {}, load, {}) : m.kind = "reg"}}

=============================================================================
