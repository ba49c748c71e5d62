------------------------- MODULE BreakpointsProofs -------------------------
(***************************************************************************)
(* For memories, words and mappings of any size: the breakpoint operations *)
(* keep the traps coherent with the table, touch no byte that is not       *)
(* theirs, and implement the plain overlay of TrapOverlay.                 *)
(***************************************************************************)
EXTENDS Breakpoints, TLAPS

USE DEF Lookup, Armed, Window, Word, Idle, Return

\* The type invariant alone is not inductive: the write of an operation
\* stores what its read found, which ReadStaysFresh relates to memory.
IInv == TypeOK /\ TrapsCoherent /\ ReadStaysFresh

\* Address arithmetic: a word covers its own address.
LEMMA WindowHasItsAddress ==
  ASSUME NEW a \in Addr
  PROVE  a \in Window(a) /\ (\A b \in Window(a) : b - a \in 0 .. (WordSize - 1))
BY SizesAssumption DEF Addr

\* A word that was read is a word: what PTRACE_PEEKDATA returns.
LEMMA ReadWordType ==
  ASSUME TypeOK, NEW a \in Addr, CanPeek(a)
  PROVE  ReadWord(a) \in Word /\ (\A b \in Window(a) : ReadWord(a)[b - a] = mem[b])
<1>1. Window(a) \subseteq Addr
  BY MappingAssumption DEF CanPeek
<1>2. ASSUME NEW i \in 0 .. (WordSize - 1)
      PROVE  mem[a + i] \in Byte
  <2>1. a + i \in Window(a)
    BY SizesAssumption DEF Addr
  <2> QED BY <2>1, <1>1 DEF TypeOK
<1>3. ReadWord(a) \in Word
  BY <1>2 DEF ReadWord
<1>4. ASSUME NEW b \in Window(a)
      PROVE  ReadWord(a)[b - a] = mem[b]
  <2>1. b - a \in 0 .. (WordSize - 1) /\ a + (b - a) = b
    BY SizesAssumption DEF Addr
  <2> QED BY <2>1 DEF ReadWord
<1> QED BY <1>3, <1>4

\* Writing a word back with another low byte: a word again, equal to the old
\* one at every other place.
LEMMA LowByteOnly ==
  ASSUME NEW w \in Word, NEW byte \in Byte
  PROVE  /\ WithLowByte(w, byte) \in Word
         /\ WithLowByte(w, byte)[0] = byte
         /\ \A i \in 0 .. (WordSize - 1) : i # 0 => WithLowByte(w, byte)[i] = w[i]
BY SizesAssumption DEF WithLowByte

\* PTRACE_POKEDATA: memory keeps its type, and changes only in the word.
LEMMA PokedMemory ==
  ASSUME TypeOK, NEW a \in Addr, NEW w \in Word
  PROVE  /\ Poked(a, w) \in [Addr -> Byte]
         /\ \A b \in Addr : Poked(a, w)[b] = IF b \in Window(a) THEN w[b - a] ELSE mem[b]
BY WindowHasItsAddress DEF Poked, TypeOK

\* Either no operation is under way or it is a proper one.
LEMMA PendingOperation ==
  ASSUME TypeOK, op # Idle
  PROVE  op \in Operation
BY DEF TypeOK

\* The variables have their types initially.
LEMMA InitType == Init => TypeOK
BY BytesAssumption DEF Init, TypeOK, Entry

-----------------------------------------------------------------------------
(* Type correctness, action by action *)

\* A new entry is a disabled one: the table keeps its type, and the answers of
\* lookup_breakpoint do not change.
LEMMA CreatedType ==
  ASSUME TypeOK, NEW a \in Addr, CreateEntry(a)
  PROVE  /\ entries' \in SUBSET Addr
         /\ table' \in [Addr -> Entry]
         /\ \A b \in Addr : Lookup(b)' = Lookup(b)
         /\ \A b \in Addr : Lookup(b) => table'[b] = table[b]
         /\ a \in entries' /\ entries \subseteq entries'
<1>1. [is_enabled |-> FALSE, orig_data |-> ZeroByte] \in Entry
  BY BytesAssumption DEF Entry
<1> QED BY <1>1 DEF TypeOK, CreateEntry

\* The read half of an operation keeps the types.
LEMMA ReadKeepsType ==
  ASSUME TypeOK, NEW a \in Addr, EnableRead(a) \/ DisableRead(a)
  PROVE  TypeOK'
<1>1. CASE op' = Idle /\ res' \in {"SP_OK", "SP_ERR"}
  BY <1>1, CreatedType DEF TypeOK, EnableRead, DisableRead
<1>2. CASE /\ CanPeek(a) /\ UNCHANGED res
           /\ \E k \in {"enable", "disable"} :
                op' = [kind |-> k, addr |-> a, word |-> ReadWord(a), raced |-> {}]
  <2>1. ReadWord(a) \in Word
    BY <1>2, ReadWordType
  <2>2. op' \in Operation
    BY <1>2, <2>1 DEF Operation
  <2> QED BY <1>2, <2>2, CreatedType DEF TypeOK, EnableRead, DisableRead
<1> QED BY <1>1, <1>2 DEF EnableRead, DisableRead

\* The write half keeps the types.
LEMMA WriteKeepsType ==
  ASSUME TypeOK, EnableWrite \/ DisableWrite
  PROVE  TypeOK'
<1>1. op \in Operation
  BY PendingOperation DEF EnableWrite, DisableWrite
<1>2. CASE UNCHANGED <<mem, table, forfeit>>
  BY <1>2 DEF TypeOK, EnableWrite, DisableWrite
<1>3. CASE EnableWrite /\ CanPoke(op.addr)
  <2>1. op.word[0] \in Byte
    BY <1>1, SizesAssumption DEF Operation
  <2>2. mem' \in [Addr -> Byte]
    BY <1>1, <1>3, LowByteOnly, PokedMemory, BytesAssumption DEF EnableWrite, Operation
  <2>3. op.addr \in Addr /\ op.raced \in SUBSET Addr
    BY <1>1 DEF Operation
  <2>4. [is_enabled |-> TRUE, orig_data |-> op.word[0]] \in Entry
    BY <2>1 DEF Entry
  <2>5. table' \in [Addr -> Entry]
    BY <1>3, <2>3, <2>4 DEF EnableWrite, TypeOK
  <2>6. forfeit' \in SUBSET Addr
    BY <1>3, <2>3 DEF EnableWrite, TypeOK
  <2>7. table' \in [Addr -> Entry] /\ forfeit' \in SUBSET Addr
    BY <2>5, <2>6
  <2> QED BY <1>3, <2>2, <2>7 DEF EnableWrite, TypeOK
<1>4. CASE DisableWrite /\ CanPoke(op.addr)
  <2>1. table[op.addr].orig_data \in Byte
    BY <1>1 DEF TypeOK, Entry, Operation
  <2>2. mem' \in [Addr -> Byte]
    BY <1>1, <1>4, <2>1, LowByteOnly, PokedMemory DEF DisableWrite, Operation
  <2>3. op.addr \in Addr /\ op.raced \in SUBSET Addr
    BY <1>1 DEF Operation
  <2>4. [table[op.addr] EXCEPT !.is_enabled = FALSE] \in Entry
    BY <2>3 DEF Entry, TypeOK
  <2>5. table' \in [Addr -> Entry]
    BY <1>4, <2>3, <2>4 DEF DisableWrite, TypeOK
  <2>6. forfeit' \in SUBSET Addr
    BY <1>4, <2>3 DEF DisableWrite, TypeOK
  <2>7. table' \in [Addr -> Entry] /\ forfeit' \in SUBSET Addr
    BY <2>5, <2>6
  <2> QED BY <1>4, <2>2, <2>7 DEF DisableWrite, TypeOK
<1> QED BY <1>2, <1>3, <1>4 DEF EnableWrite, DisableWrite

\* A store keeps the types of the three variables it changes.
LEMMA StoredKeepsType ==
  ASSUME TypeOK, NEW S \in SUBSET Addr, NEW new \in [S -> Byte], Stored(S, new)
  PROVE  /\ mem' \in [Addr -> Byte]
         /\ program' \in [Addr -> Byte]
         /\ forfeit' \in SUBSET Addr
BY DEF TypeOK, Stored

\* A word written by `set' lies in memory.
LEMMA PokeWindow ==
  ASSUME NEW a \in Addr, CanPoke(a)
  PROVE  Window(a) \in SUBSET Addr
BY MappingAssumption DEF CanPoke

\* The other actors keep the types.
LEMMA OthersKeepType ==
  ASSUME TypeOK,
         \/ \E a \in Addr, w \in Word : SetMemory(a, w)
         \/ \E a \in Addr, byte \in Byte : TraceeStore(a, byte)
         \/ \E image \in [Addr -> Byte] : TraceeExec(image)
         \/ TraceeDies
  PROVE  TypeOK'
<1>1. ASSUME NEW a \in Addr, NEW w \in Word, SetMemory(a, w)
      PROVE  TypeOK'
  <2>1. CASE CanPoke(a)
    <3>1. [b \in Window(a) |-> w[b - a]] \in [Window(a) -> Byte]
      BY WindowHasItsAddress
    <3> QED BY <1>1, <2>1, <3>1, PokeWindow, StoredKeepsType DEF SetMemory, TypeOK
  <2>2. CASE ~CanPoke(a)
    BY <1>1, <2>2 DEF SetMemory, TypeOK
  <2> QED BY <2>1, <2>2
<1>2. ASSUME NEW a \in Addr, NEW byte \in Byte, TraceeStore(a, byte)
      PROVE  TypeOK'
  <2>1. op' \in {Idle} \union Operation
    <3>1. CASE op = Idle
      BY <1>2, <3>1 DEF TraceeStore
    <3>2. CASE op # Idle
      BY <1>2, <3>2, PendingOperation DEF TraceeStore, Operation
    <3> QED BY <3>1, <3>2
  <2>2. [b \in {a} |-> byte] \in [{a} -> Byte]
    OBVIOUS
  <2> QED BY <1>2, <2>1, <2>2, StoredKeepsType DEF TraceeStore, TypeOK
<1>3. ASSUME NEW image \in [Addr -> Byte], TraceeExec(image)
      PROVE  TypeOK'
  BY <1>3 DEF TraceeExec, TypeOK
<1>4. ASSUME TraceeDies
      PROVE  TypeOK'
  BY <1>4 DEF TraceeDies, TypeOK
<1> QED BY <1>1, <1>2, <1>3, <1>4

\* Every variable of breakpoints.c keeps its type in every behaviour.
THEOREM TypeCorrect == Spec => []TypeOK
<1>1. TypeOK /\ [Next]_vars => TypeOK'
  <2> SUFFICES ASSUME TypeOK, [Next]_vars
               PROVE  TypeOK'
    OBVIOUS
  <2>1. CASE UNCHANGED vars
    BY <2>1 DEF vars, TypeOK
  <2>2. CASE Next
    BY <2>2, ReadKeepsType, WriteKeepsType, OthersKeepType DEF Next
  <2> QED BY <2>1, <2>2
<1> QED BY InitType, <1>1, PTL DEF Spec
-----------------------------------------------------------------------------
(* The inductive invariant, action by action *)

\* Nothing is armed or pending initially.
LEMMA InitIInv == Init => IInv
BY InitType DEF Init, IInv, TrapsCoherent, ReadStaysFresh

\* Reading changes neither memory nor what lookup_breakpoint answers.
LEMMA EnableReadKeepsIInv ==
  ASSUME IInv, NEW a \in Addr, EnableRead(a)
  PROVE  IInv'
<1>1. TypeOK'
  BY ReadKeepsType DEF IInv
<1>2. /\ \A b \in Addr : Lookup(b)' = Lookup(b)
      /\ \A b \in Addr : Lookup(b) => table'[b] = table[b]
      /\ a \in entries'
  BY CreatedType DEF IInv, EnableRead
<1>3. Armed' = Armed
  BY <1>2
<1>4. TrapsCoherent'
  BY <1>2, <1>3 DEF EnableRead, IInv, TrapsCoherent
<1>5. ReadStaysFresh'
  <2>1. CASE op' = Idle
    BY <2>1 DEF ReadStaysFresh
  <2>2. CASE /\ ~Lookup(a) /\ CanPeek(a)
             /\ op' = [kind |-> "enable", addr |-> a, word |-> ReadWord(a), raced |-> {}]
    <3>1. Window(a) \subseteq Addr
      BY <2>2, MappingAssumption DEF CanPeek
    <3>2. \A b \in Window(a) : ReadWord(a)[b - a] = mem[b]
      BY <2>2, ReadWordType DEF IInv
    <3>3. mem' = mem /\ ~Lookup(a)'
      BY <1>2, <2>2 DEF EnableRead
    <3> QED BY <1>2, <2>2, <3>1, <3>2, <3>3 DEF ReadStaysFresh
  <2> QED BY <2>1, <2>2 DEF EnableRead
<1> QED BY <1>1, <1>4, <1>5 DEF IInv

\* The same for the read of disable_breakpoint.
LEMMA DisableReadKeepsIInv ==
  ASSUME IInv, NEW a \in Addr, DisableRead(a)
  PROVE  IInv'
<1>1. TypeOK'
  BY ReadKeepsType DEF IInv
<1>2. TrapsCoherent'
  BY DEF DisableRead, IInv, TrapsCoherent
<1>3. ReadStaysFresh'
  <2>1. CASE op' = Idle
    BY <2>1 DEF ReadStaysFresh
  <2>2. CASE /\ Lookup(a) /\ CanPeek(a)
             /\ op' = [kind |-> "disable", addr |-> a, word |-> ReadWord(a), raced |-> {}]
    <3>1. Window(a) \subseteq Addr
      BY <2>2, MappingAssumption DEF CanPeek
    <3>2. \A b \in Window(a) : ReadWord(a)[b - a] = mem[b]
      BY <2>2, ReadWordType DEF IInv
    <3>3. mem' = mem /\ Lookup(a)' /\ a \in entries'
      BY <2>2 DEF DisableRead
    <3> QED BY <2>2, <3>1, <3>2, <3>3 DEF ReadStaysFresh
  <2> QED BY <2>1, <2>2 DEF DisableRead
<1> QED BY <1>1, <1>2, <1>3 DEF IInv

\* What the write of an operation does to memory: the low byte goes to the
\* address, and a byte of the word that nobody raced for stays what it is.
LEMMA WriteEffect ==
  ASSUME IInv, op # Idle, NEW byte \in Byte,
         mem' = Poked(op.addr, WithLowByte(op.word, byte))
  PROVE  /\ mem'[op.addr] = byte
         /\ \A b \in Addr \ (op.raced \union {op.addr}) : mem'[b] = mem[b]
<1>1. op \in Operation
  BY PendingOperation DEF IInv
<1>2. op.addr \in Addr /\ op.word \in Word
  BY <1>1 DEF Operation
<1> DEFINE w == WithLowByte(op.word, byte)
<1>3. /\ w \in Word
      /\ w[0] = byte
      /\ \A i \in 0 .. (WordSize - 1) : i # 0 => w[i] = op.word[i]
  BY <1>2, LowByteOnly
<1>4. \A b \in Addr : mem'[b] = IF b \in Window(op.addr) THEN w[b - op.addr] ELSE mem[b]
  BY <1>2, <1>3, PokedMemory DEF IInv
<1> HIDE DEF w
<1>5. mem'[op.addr] = byte
  <2>1. op.addr \in Window(op.addr) /\ op.addr - op.addr = 0
    BY <1>2, WindowHasItsAddress DEF Addr
  <2> QED BY <1>2, <1>3, <1>4, <2>1
<1>6. ASSUME NEW b \in Addr, b \notin op.raced, b # op.addr
      PROVE  mem'[b] = mem[b]
  <2>1. CASE b \notin Window(op.addr)
    BY <1>4, <2>1
  <2>2. CASE b \in Window(op.addr)
    <3>1. b - op.addr \in 0 .. (WordSize - 1) /\ b - op.addr # 0
      BY <1>2, <1>6, <2>2, WindowHasItsAddress DEF Addr
    <3>2. mem'[b] = op.word[b - op.addr]
      BY <1>3, <1>4, <2>2, <3>1
    <3>3. mem[b] = op.word[b - op.addr]
      BY <1>6, <2>2 DEF IInv, ReadStaysFresh
    <3> QED BY <3>2, <3>3
  <2> QED BY <2>1, <2>2
<1> QED BY <1>5, <1>6

\* A trap written is recorded with the byte it replaced.
LEMMA EnableWriteKeepsIInv ==
  ASSUME IInv, EnableWrite
  PROVE  IInv'
<1>1. TypeOK'
  BY WriteKeepsType DEF IInv
<1>2. ReadStaysFresh'
  BY DEF EnableWrite, ReadStaysFresh
<1>3. op # Idle /\ op \in Operation
  BY PendingOperation DEF IInv, EnableWrite
<1>4. op.addr \in Addr /\ op.addr \in entries /\ ~Lookup(op.addr)
  BY <1>3 DEF IInv, ReadStaysFresh, EnableWrite, Operation
<1>5. TrapsCoherent'
  <2>1. CASE ~CanPoke(op.addr)
    BY <2>1 DEF EnableWrite, IInv, TrapsCoherent
  <2>2. CASE CanPoke(op.addr)
    <3>1. /\ mem' = Poked(op.addr, WithLowByte(op.word, INT3))
          /\ table' = [table EXCEPT ![op.addr] =
                         [is_enabled |-> TRUE, orig_data |-> op.word[0]]]
          /\ forfeit' = forfeit \union op.raced
          /\ entries' = entries /\ program' = program
      BY <2>2 DEF EnableWrite
    <3>2. /\ mem'[op.addr] = INT3
          /\ \A b \in Addr \ (op.raced \union {op.addr}) : mem'[b] = mem[b]
      BY <1>3, <3>1, WriteEffect, BytesAssumption
    <3>3. op.addr \in Armed' /\ table'[op.addr].orig_data = op.word[0]
      <4>1. table'[op.addr] = [is_enabled |-> TRUE, orig_data |-> op.word[0]]
        BY <1>4, <3>1 DEF IInv, TypeOK
      <4>2. table'[op.addr].is_enabled = TRUE /\ table'[op.addr].orig_data = op.word[0]
        BY <4>1
      <4> QED BY <1>4, <3>1, <4>2
    <3>4. \A b \in Addr \ {op.addr} : Lookup(b)' = Lookup(b) /\ table'[b] = table[b]
      BY <1>4, <3>1 DEF IInv, TypeOK
    <3>5. op.addr \notin forfeit' => op.word[0] = program[op.addr]
      <4>1. SUFFICES ASSUME op.addr \notin forfeit, op.addr \notin op.raced
                     PROVE  op.word[0] = program[op.addr]
        BY <3>1
      <4>2. op.addr \in Window(op.addr) /\ op.addr - op.addr = 0
        BY <1>4, WindowHasItsAddress DEF Addr
      <4>3. mem[op.addr] = op.word[0]
        BY <1>3, <4>1, <4>2 DEF IInv, ReadStaysFresh
      <4>4. mem[op.addr] = program[op.addr]
        BY <1>4, <4>1 DEF IInv, TrapsCoherent
      <4> QED BY <4>3, <4>4
    <3>6. ASSUME NEW b \in Addr \ forfeit'
          PROVE  /\ mem'[b] = IF b \in Armed' THEN INT3 ELSE program'[b]
                 /\ b \in Armed' => table'[b].orig_data = program'[b]
      <4>1. CASE b = op.addr
        <5>1. mem'[b] = INT3 /\ b \in Armed'
          BY <3>2, <3>3, <4>1
        <5>2. table'[b].orig_data = program'[b]
          BY <3>1, <3>3, <3>5, <3>6, <4>1
        <5> QED BY <5>1, <5>2
      <4>2. CASE b # op.addr
        <5>1. b \notin forfeit /\ b \notin op.raced
          BY <3>1, <3>6
        <5>2. mem'[b] = mem[b] /\ Lookup(b)' = Lookup(b) /\ table'[b] = table[b]
          BY <3>2, <3>4, <4>2, <5>1
        <5> QED BY <3>1, <5>1, <5>2 DEF IInv, TrapsCoherent
      <4> QED BY <4>1, <4>2
    <3> QED BY <3>6 DEF TrapsCoherent
  <2> QED BY <2>1, <2>2
<1> QED BY <1>1, <1>2, <1>5 DEF IInv

\* Disabling puts the saved byte back, which is the program's.
LEMMA DisableWriteKeepsIInv ==
  ASSUME IInv, DisableWrite
  PROVE  IInv'
<1>1. TypeOK'
  BY WriteKeepsType DEF IInv
<1>2. ReadStaysFresh'
  BY DEF DisableWrite, ReadStaysFresh
<1>3. op # Idle /\ op \in Operation
  BY PendingOperation DEF IInv, DisableWrite
<1>4. op.addr \in Addr /\ Lookup(op.addr)
  BY <1>3 DEF IInv, ReadStaysFresh, DisableWrite, Operation
<1>5. TrapsCoherent'
  <2>1. CASE ~CanPoke(op.addr)
    BY <2>1 DEF DisableWrite, IInv, TrapsCoherent
  <2>2. CASE CanPoke(op.addr)
    <3> DEFINE saved == table[op.addr].orig_data
    <3>1. /\ mem' = Poked(op.addr, WithLowByte(op.word, saved))
          /\ table' = [table EXCEPT ![op.addr].is_enabled = FALSE]
          /\ forfeit' = forfeit \union op.raced
          /\ entries' = entries /\ program' = program
      BY <2>2 DEF DisableWrite
    <3>2. saved \in Byte
      BY <1>4 DEF IInv, TypeOK, Entry
    <3>3. /\ mem'[op.addr] = saved
          /\ \A b \in Addr \ (op.raced \union {op.addr}) : mem'[b] = mem[b]
      BY <1>3, <3>1, <3>2, WriteEffect
    <3>4. op.addr \notin Armed'
      <4>1. table'[op.addr] = [table[op.addr] EXCEPT !.is_enabled = FALSE]
        BY <1>4, <3>1 DEF IInv, TypeOK
      <4>2. table'[op.addr].is_enabled = FALSE
        BY <1>4, <4>1 DEF IInv, TypeOK, Entry
      <4> QED BY <4>2
    <3>5. \A b \in Addr \ {op.addr} : Lookup(b)' = Lookup(b) /\ table'[b] = table[b]
      BY <1>4, <3>1 DEF IInv, TypeOK
    <3>6. ASSUME NEW b \in Addr \ forfeit'
          PROVE  /\ mem'[b] = IF b \in Armed' THEN INT3 ELSE program'[b]
                 /\ b \in Armed' => table'[b].orig_data = program'[b]
      <4>1. b \notin forfeit /\ b \notin op.raced
        BY <3>1, <3>6
      <4>2. CASE b = op.addr
        <5>1. saved = program[b]
          BY <1>4, <4>1, <4>2 DEF IInv, TrapsCoherent
        <5>2. mem'[b] = program'[b] /\ b \notin Armed'
          BY <3>1, <3>3, <3>4, <4>2, <5>1
        <5> QED BY <5>2
      <4>3. CASE b # op.addr
        <5>1. mem'[b] = mem[b] /\ Lookup(b)' = Lookup(b) /\ table'[b] = table[b]
          BY <3>3, <3>5, <4>1, <4>3
        <5> QED BY <3>1, <4>1, <5>1 DEF IInv, TrapsCoherent
      <4> QED BY <4>2, <4>3
    <3> QED BY <3>6 DEF TrapsCoherent
  <2> QED BY <2>1, <2>2
<1> QED BY <1>1, <1>2, <1>5 DEF IInv

\* A store keeps the traps coherent: what it puts under a trap is forfeit.
LEMMA StoredKeepsCoherence ==
  ASSUME IInv, NEW S \in SUBSET Addr, NEW new \in [S -> Byte], Stored(S, new),
         UNCHANGED <<entries, table>>
  PROVE  TrapsCoherent'
<1>1. Armed' = Armed
  OBVIOUS
<1>2. ASSUME NEW b \in Addr \ forfeit'
      PROVE  /\ mem'[b] = IF b \in Armed' THEN INT3 ELSE program'[b]
             /\ b \in Armed' => table'[b].orig_data = program'[b]
  <2>1. CASE b \in S
    BY <1>1, <1>2, <2>1 DEF Stored
  <2>2. CASE b \notin S
    <3>1. b \notin forfeit /\ mem'[b] = mem[b] /\ program'[b] = program[b]
      BY <1>2, <2>2 DEF Stored, IInv, TypeOK
    <3> QED BY <1>1, <3>1 DEF IInv, TrapsCoherent
  <2> QED BY <2>1, <2>2
<1> QED BY <1>2 DEF TrapsCoherent

\* The `set' command writes only between two operations.
LEMMA SetMemoryKeepsIInv ==
  ASSUME IInv, NEW a \in Addr, NEW w \in Word, SetMemory(a, w)
  PROVE  IInv'
<1>1. TypeOK'
  BY OthersKeepType DEF IInv
<1>2. ReadStaysFresh'
  BY DEF SetMemory, ReadStaysFresh
<1>3. TrapsCoherent'
  <2>1. CASE CanPoke(a)
    <3>1. [b \in Window(a) |-> w[b - a]] \in [Window(a) -> Byte]
      BY WindowHasItsAddress
    <3> QED BY <2>1, <3>1, PokeWindow, StoredKeepsCoherence DEF SetMemory
  <2>2. CASE ~CanPoke(a)
    BY <2>2 DEF SetMemory, IInv, TrapsCoherent
  <2> QED BY <2>1, <2>2
<1> QED BY <1>1, <1>2, <1>3 DEF IInv

\* A store of the tracee during an operation is recorded as a race.
LEMMA TraceeStoreKeepsIInv ==
  ASSUME IInv, NEW a \in Addr, NEW byte \in Byte, TraceeStore(a, byte)
  PROVE  IInv'
<1>1. TypeOK'
  BY OthersKeepType DEF IInv
<1>2. [b \in {a} |-> byte] \in [{a} -> Byte]
  OBVIOUS
<1>3. TrapsCoherent'
  BY <1>2, StoredKeepsCoherence DEF TraceeStore
<1>4. ReadStaysFresh'
  <2>1. CASE op = Idle
    BY <2>1 DEF TraceeStore, ReadStaysFresh
  <2>2. CASE op # Idle
    <3>1. op \in Operation
      BY <2>2, PendingOperation DEF IInv
    <3>2. /\ op'.kind = op.kind /\ op'.addr = op.addr /\ op'.word = op.word
          /\ op'.raced = op.raced \union ({a} \intersect Window(op.addr))
      BY <2>2, <3>1 DEF TraceeStore, Operation
    <3>3. \A b \in Addr : b # a => mem'[b] = mem[b]
      BY DEF TraceeStore, Stored
    <3>4. entries' = entries /\ table' = table
      BY DEF TraceeStore
    <3>5. /\ Window(op.addr) \subseteq Addr
          /\ op.raced \subseteq Window(op.addr)
          /\ \A b \in Window(op.addr) \ op.raced : mem[b] = op.word[b - op.addr]
          /\ op.addr \in entries
          /\ Lookup(op.addr) <=> op.kind = "disable"
      BY <2>2 DEF IInv, ReadStaysFresh
    <3>6. \A b \in Window(op.addr) \ op'.raced : mem'[b] = op.word[b - op.addr]
      BY <3>2, <3>3, <3>5
    <3> QED BY <3>2, <3>4, <3>5, <3>6 DEF ReadStaysFresh
  <2> QED BY <2>1, <2>2
<1> QED BY <1>1, <1>3, <1>4 DEF IInv

\* execve forfeits every armed byte; death changes nothing anyone looks at.
LEMMA ExecAndDeathKeepIInv ==
  ASSUME IInv, (\E image \in [Addr -> Byte] : TraceeExec(image)) \/ TraceeDies
  PROVE  IInv'
<1>1. TypeOK'
  BY OthersKeepType DEF IInv
<1>2. ReadStaysFresh'
  BY DEF TraceeExec, TraceeDies, IInv, ReadStaysFresh
<1>3. TrapsCoherent'
  <2>1. CASE \E image \in [Addr -> Byte] : TraceeExec(image)
    BY <2>1 DEF TraceeExec, TrapsCoherent
  <2>2. CASE TraceeDies
    BY <2>2 DEF TraceeDies, IInv, TrapsCoherent
  <2> QED BY <2>1, <2>2
<1> QED BY <1>1, <1>2, <1>3 DEF IInv

\* Every step keeps the inductive invariant.
LEMMA NextKeepsIInv == IInv /\ [Next]_vars => IInv'
<1> SUFFICES ASSUME IInv, [Next]_vars
             PROVE  IInv'
  OBVIOUS
<1>1. CASE UNCHANGED vars
  BY <1>1 DEF vars, IInv, TypeOK, TrapsCoherent, ReadStaysFresh
<1>2. CASE Next
  BY <1>2, EnableReadKeepsIInv, DisableReadKeepsIInv, EnableWriteKeepsIInv,
     DisableWriteKeepsIInv, SetMemoryKeepsIInv, TraceeStoreKeepsIInv,
     ExecAndDeathKeepIInv DEF Next
<1> QED BY <1>1, <1>2

\* The inductive invariant holds in every reachable state.
THEOREM InductiveInvariant == Spec => []IInv
BY InitIInv, NextKeepsIInv, PTL DEF Spec

\* Outside forfeit bytes the tracee sees a trap exactly where the table says,
\* and the saved bytes are the program's (enable_breakpoint and
\* disable_breakpoint, for every size of memory and word).
THEOREM TrapsStayCoherent == Spec => []TrapsCoherent
<1>1. IInv => TrapsCoherent
  BY DEF IInv
<1> QED BY <1>1, InductiveInvariant, PTL

\* What an operation read is still what it is about to write back.
THEOREM ReadsStayFresh == Spec => []ReadStaysFresh
<1>1. IInv => ReadStaysFresh
  BY DEF IInv
<1> QED BY <1>1, InductiveInvariant, PTL

\* The write of an operation changes one byte and those that raced with it.
THEOREM NeighboursAreKept == Spec => NeighboursKept
<1>1. IInv /\ [Next]_vars =>
        [(EnableWrite \/ DisableWrite) =>
           \A b \in Addr : mem'[b] # mem[b] => b \in {op.addr} \union op.raced]_vars
  <2> SUFFICES ASSUME IInv, EnableWrite \/ DisableWrite
               PROVE  \A b \in Addr \ (op.raced \union {op.addr}) : mem'[b] = mem[b]
    OBVIOUS
  <2>1. op # Idle /\ op \in Operation
    BY PendingOperation DEF IInv, EnableWrite, DisableWrite
  <2>2. CASE mem' = mem
    BY <2>2
  <2>3. CASE mem' = Poked(op.addr, WithLowByte(op.word, INT3))
    BY <2>1, <2>3, WriteEffect, BytesAssumption
  <2>4. CASE mem' = Poked(op.addr, WithLowByte(op.word, table[op.addr].orig_data))
    <3>1. table[op.addr].orig_data \in Byte
      BY <2>1 DEF IInv, TypeOK, Entry, Operation
    <3> QED BY <2>1, <2>4, <3>1, WriteEffect
  <2> QED BY <2>2, <2>3, <2>4 DEF EnableWrite, DisableWrite
<1> QED BY <1>1, InductiveInvariant, PTL DEF Spec, NeighboursKept

\* An operation that fails between its read and its write has changed neither
\* memory nor the answers of lookup_breakpoint (breakpoints.h's contract).
THEOREM ErrorsChangeNothing == Spec => ErrorChangesNothing
<1>1. IInv /\ [Next]_vars =>
        [(op # Idle /\ op' = Idle /\ res' = "SP_ERR") => UNCHANGED mem /\ Armed' = Armed]_vars
  <2> SUFFICES ASSUME IInv, Next, op # Idle, op' = Idle, res' = "SP_ERR"
               PROVE  UNCHANGED mem /\ Armed' = Armed
    OBVIOUS
  <2>1. EnableWrite \/ DisableWrite
    <3>1. ASSUME NEW a \in Addr, NEW byte \in Byte, TraceeStore(a, byte)
          PROVE  FALSE
      <4>1. op'.kind = op.kind /\ op.kind # "idle"
        BY <3>1, PendingOperation DEF TraceeStore, IInv, Operation
      <4> QED BY <4>1
    <3> QED BY <3>1 DEF Next, EnableRead, DisableRead, SetMemory, TraceeExec, TraceeDies
  <2>2. UNCHANGED <<mem, table, entries>>
    BY <2>1 DEF EnableWrite, DisableWrite
  <2> QED BY <2>2
<1> QED BY <1>1, InductiveInvariant, PTL DEF Spec, ErrorChangesNothing

-----------------------------------------------------------------------------
(* Refinement *)

\* A successful write half adds its address to the armed set, or removes it.
LEMMA ArmedByWrite ==
  ASSUME IInv, CanPoke(op.addr)
  PROVE  /\ EnableWrite => op.addr \notin Armed /\ Armed' = Armed \union {op.addr}
         /\ DisableWrite => op.addr \in Armed /\ Armed' = Armed \ {op.addr}
<1>1. SUFFICES ASSUME EnableWrite \/ DisableWrite
               PROVE  /\ EnableWrite => op.addr \notin Armed /\ Armed' = Armed \union {op.addr}
                      /\ DisableWrite => op.addr \in Armed /\ Armed' = Armed \ {op.addr}
  OBVIOUS
<1>2. op # Idle /\ op.addr \in Addr /\ op.addr \in entries
      /\ (Lookup(op.addr) <=> op.kind = "disable")
  BY <1>1, PendingOperation DEF IInv, ReadStaysFresh, EnableWrite, DisableWrite, Operation
<1>3. ASSUME EnableWrite
      PROVE  op.addr \notin Armed /\ Armed' = Armed \union {op.addr}
  <2>1. /\ table' = [table EXCEPT ![op.addr] = [is_enabled |-> TRUE, orig_data |-> op.word[0]]]
        /\ entries' = entries
    BY <1>3 DEF EnableWrite
  <2>2. table'[op.addr].is_enabled = TRUE
    BY <1>2, <2>1 DEF IInv, TypeOK
  <2>3. \A b \in Addr \ {op.addr} : Lookup(b)' = Lookup(b)
    BY <1>2, <2>1 DEF IInv, TypeOK
  <2>4. op.addr \notin Armed
    BY <1>2, <1>3 DEF EnableWrite
  <2> QED BY <1>2, <2>1, <2>2, <2>3, <2>4
<1>4. ASSUME DisableWrite
      PROVE  op.addr \in Armed /\ Armed' = Armed \ {op.addr}
  <2>1. table' = [table EXCEPT ![op.addr].is_enabled = FALSE] /\ entries' = entries
    BY <1>4 DEF DisableWrite
  <2>2. table'[op.addr] = [table[op.addr] EXCEPT !.is_enabled = FALSE]
    BY <1>2, <2>1 DEF IInv, TypeOK
  <2>3. table'[op.addr].is_enabled = FALSE
    BY <1>2, <2>2 DEF IInv, TypeOK, Entry
  <2>4. \A b \in Addr \ {op.addr} : Lookup(b)' = Lookup(b)
    BY <1>2, <2>1 DEF IInv, TypeOK
  <2>5. op.addr \in Armed
    BY <1>2, <1>4 DEF DisableWrite
  <2> QED BY <1>2, <2>1, <2>3, <2>4, <2>5
<1> QED BY <1>3, <1>4

\* A store of breakpoints.c's callers and of the tracee is one of the overlay.
LEMMA StoredIsOverlayStore ==
  ASSUME IInv, NEW S \in SUBSET Addr, NEW new \in [S -> Byte], Stored(S, new),
         UNCHANGED <<entries, table>>
  PROVE  Overlay!Store(S)
BY DEF Stored, Overlay!Store

\* Every step maps to a step of the overlay or to a stutter.
LEMMA StepRefines ==
  ASSUME IInv, IInv', [Next]_vars
  PROVE  [Overlay!Next]_(Overlay!vars)
<1>1. mem' \in [Addr -> Byte] /\ Overlay!Coherent'
  <2>1. mem' \in [Addr -> Byte]
    BY DEF IInv, TypeOK
  <2>2. Overlay!Coherent'
    BY DEF IInv, TrapsCoherent, Overlay!Coherent, Overlay!Promised
  <2> QED BY <2>1, <2>2
<1>2. CASE UNCHANGED vars
  BY <1>2 DEF vars, Overlay!vars
<1>3. ASSUME NEW a \in Addr, EnableRead(a) \/ DisableRead(a)
      PROVE  UNCHANGED Overlay!vars
  <2>1. Armed' = Armed
    BY <1>3, CreatedType DEF EnableRead, DisableRead, IInv
  <2> QED BY <1>3, <2>1 DEF EnableRead, DisableRead, Overlay!vars
<1>4. ASSUME EnableWrite \/ DisableWrite
      PROVE  [Overlay!Next]_(Overlay!vars)
  <2>1. op.addr \in Addr /\ op.raced \in SUBSET Window(op.addr)
    BY <1>4, PendingOperation DEF IInv, ReadStaysFresh, EnableWrite, DisableWrite, Operation
  <2>2. CASE ~CanPoke(op.addr)
    <3>1. UNCHANGED <<mem, table, forfeit, entries, program>>
      BY <1>4, <2>2 DEF EnableWrite, DisableWrite
    <3> QED BY <3>1 DEF Overlay!vars
  <2>3. CASE CanPoke(op.addr) /\ EnableWrite
    <3>1. PICK a \in Addr : a = op.addr
      BY <2>1
    <3>2. Overlay!Arm(a)
      BY <2>1, <2>3, <3>1, ArmedByWrite DEF EnableWrite, Overlay!Arm
    <3> QED BY <1>1, <3>2 DEF Overlay!Next
  <2>4. CASE CanPoke(op.addr) /\ DisableWrite
    <3>1. PICK a \in Addr : a = op.addr
      BY <2>1
    <3>2. Overlay!Disarm(a)
      BY <2>1, <2>4, <3>1, ArmedByWrite DEF DisableWrite, Overlay!Disarm
    <3> QED BY <1>1, <3>2 DEF Overlay!Next
  <2> QED BY <1>4, <2>2, <2>3, <2>4
<1>5. ASSUME NEW a \in Addr, NEW w \in Word, SetMemory(a, w)
      PROVE  [Overlay!Next]_(Overlay!vars)
  <2>1. CASE CanPoke(a)
    <3>1. [b \in Window(a) |-> w[b - a]] \in [Window(a) -> Byte]
      BY WindowHasItsAddress
    <3>2. Overlay!Store(Window(a))
      BY <1>5, <2>1, <3>1, PokeWindow, StoredIsOverlayStore DEF SetMemory
    <3> QED BY <1>1, <2>1, <3>2, PokeWindow DEF Overlay!Next
  <2>2. CASE ~CanPoke(a)
    BY <1>5, <2>2 DEF SetMemory, Overlay!vars
  <2> QED BY <2>1, <2>2
<1>6. ASSUME NEW a \in Addr, NEW byte \in Byte, TraceeStore(a, byte)
      PROVE  [Overlay!Next]_(Overlay!vars)
  <2>1. [b \in {a} |-> byte] \in [{a} -> Byte]
    OBVIOUS
  <2>2. Overlay!Store({a})
    BY <1>6, <2>1, StoredIsOverlayStore DEF TraceeStore
  <2> QED BY <1>1, <2>2 DEF Overlay!Next
<1>7. ASSUME NEW image \in [Addr -> Byte], TraceeExec(image)
      PROVE  [Overlay!Next]_(Overlay!vars)
  <2>1. Overlay!Replace
    BY <1>7 DEF TraceeExec, Overlay!Replace
  <2> QED BY <1>1, <2>1 DEF Overlay!Next
<1>8. ASSUME TraceeDies
      PROVE  UNCHANGED Overlay!vars
  BY <1>8 DEF TraceeDies, Overlay!vars
<1> QED BY <1>2, <1>3, <1>4, <1>5, <1>6, <1>7, <1>8 DEF Next

\* breakpoints.c over ptrace words implements the plain overlay of traps.
THEOREM Refinement == Spec => RefinesOverlay
<1>1. Init => Overlay!Init
  BY DEF Init, Overlay!Init
<1>2. IInv /\ IInv' /\ [Next]_vars => [Overlay!Next]_(Overlay!vars)
  BY StepRefines
<1> QED BY <1>1, <1>2, InductiveInvariant, PTL DEF Spec, RefinesOverlay, Overlay!Spec

=============================================================================
