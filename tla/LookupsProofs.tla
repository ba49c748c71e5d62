--------------------------- MODULE LookupsProofs ---------------------------
(***************************************************************************)
(* For any layout of units, rows and functions: break, next and every      *)
(* position that is shown go where the line tables of the program say.     *)
(***************************************************************************)
EXTENDS Lookups, FirstProofs, SequenceTheorems, TLAPS

-----------------------------------------------------------------------------
(* What the searches find. *)

\* get_line_table_index_of_pc, by the first row at or behind pc.
LEMMA IndexOfPcIs ==
  ASSUME NEW rows, NEW pc, NEW i \in Nat, Len(rows) \in Nat,
         IsFirst(i, {j \in 1 .. Len(rows) : rows[j].addr >= pc})
  PROVE  IndexOfPc(rows, pc) =
           IF i # NotFound /\ (i = Len(rows) \/ pc < rows[i + 1].addr) THEN i ELSE NotFound
<1> DEFINE I == {j \in 1 .. Len(rows) : rows[j].addr >= pc}
           first == SelectInSeq(rows, LAMBDA r : r.addr >= pc)
<1>1. first = IF I # {} THEN Min(I) ELSE 0
  BY DEF SelectInSeq
<1>2. I \in SUBSET Nat
  OBVIOUS
<1> HIDE DEF I
<1>3. IsFirst(first, I)
  BY <1>1, <1>2, FirstOf
<1>4. first = i
  BY <1>2, <1>3, FirstUnique DEF I
<1> QED BY <1>4 DEF IndexOfPc

\* get_line_table_index_of_line
LEMMA IndexOfLineIs ==
  ASSUME NEW rows, NEW l, Len(rows) \in Nat
  PROVE  IsFirst(IndexOfLine(rows, l), {j \in 1 .. Len(rows) : rows[j].ln >= l})
<1> DEFINE I == {j \in 1 .. Len(rows) : rows[j].ln >= l}
<1>1. IndexOfLine(rows, l) = IF I # {} THEN Min(I) ELSE 0
  BY DEF IndexOfLine, SelectInSeq
<1>2. I \in SUBSET Nat
  OBVIOUS
<1> HIDE DEF I
<1> QED BY <1>1, <1>2, FirstOf DEF I

\* The exact row of sd_line_entry_from_pc.
LEMMA ExactRowIs ==
  ASSUME NEW rows, NEW pc, Len(rows) \in Nat
  PROVE  IsFirst(SelectInSeq(rows, LAMBDA r : r.addr = pc),
                 {j \in 1 .. Len(rows) : rows[j].addr = pc})
<1> DEFINE I == {j \in 1 .. Len(rows) : rows[j].addr = pc}
           first == SelectInSeq(rows, LAMBDA r : r.addr = pc)
<1>1. first = IF I # {} THEN Min(I) ELSE 0
  BY DEF SelectInSeq
<1>2. I \in SUBSET Nat
  OBVIOUS
<1> HIDE DEF I
<1> QED BY <1>1, <1>2, FirstOf DEF I

\* sd_filepath_from_pc
LEMMA UnitOfPcIs ==
  ASSUME NEW units, NEW pc, Len(units) \in Nat
  PROVE  IsFirst(UnitOfPc(units, pc),
                 {j \in 1 .. Len(units) : units[j].low <= pc /\ pc <= units[j].high})
<1> DEFINE I == {j \in 1 .. Len(units) : units[j].low <= pc /\ pc <= units[j].high}
<1>1. UnitOfPc(units, pc) = IF I # {} THEN Min(I) ELSE 0
  BY DEF UnitOfPc, SelectInSeq
<1>2. I \in SUBSET Nat
  OBVIOUS
<1> HIDE DEF I
<1> QED BY <1>1, <1>2, FirstOf DEF I

\* se_symbol_from_addr
LEMMA SymbolFromAddrIs ==
  ASSUME NEW symbols, NEW addr, Len(symbols) \in Nat
  PROVE  IsFirst(SymbolFromAddr(symbols, addr),
                 {j \in 1 .. Len(symbols) : symbols[j].low <= addr /\ addr <= symbols[j].high})
<1> DEFINE I == {j \in 1 .. Len(symbols) : symbols[j].low <= addr /\ addr <= symbols[j].high}
<1>1. SymbolFromAddr(symbols, addr) = IF I # {} THEN Min(I) ELSE 0
  BY DEF SymbolFromAddr, SelectInSeq
<1>2. I \in SUBSET Nat
  OBVIOUS
<1> HIDE DEF I
<1> QED BY <1>1, <1>2, FirstOf DEF I

\* se_symbol_from_name and sd_get_subprog_pc_range
LEMMA OfNameIs ==
  ASSUME NEW objects, NEW name, Len(objects) \in Nat
  PROVE  LET I == {j \in 1 .. Len(objects) : objects[j].name = name}
         IN  /\ IsFirst(SymbolFromName(objects, name), I)
             /\ IsFirst(SubprogOfName(objects, name), I)
<1> DEFINE I == {j \in 1 .. Len(objects) : objects[j].name = name}
<1>1. /\ SymbolFromName(objects, name) = IF I # {} THEN Min(I) ELSE 0
      /\ SubprogOfName(objects, name) = IF I # {} THEN Min(I) ELSE 0
  BY DEF SymbolFromName, SubprogOfName, SelectInSeq
<1>2. I \in SUBSET Nat
  OBVIOUS
<1> HIDE DEF I
<1> QED BY <1>1, <1>2, FirstOf DEF I

\* sd_get_line_table, by the index of the unit.
UnitOfFile(units, path) == SelectInSeq(units, LAMBDA x : IsFromFile(x, path))

LEMMA RowsOfIs ==
  ASSUME NEW units, NEW path, Len(units) \in Nat
  PROVE  /\ IsFirst(UnitOfFile(units, path), {j \in 1 .. Len(units) : IsFromFile(units[j], path)})
         /\ RowsOf(units, path) = IF UnitOfFile(units, path) = NotFound THEN <<>>
                                  ELSE units[UnitOfFile(units, path)].rows
<1> DEFINE I == {j \in 1 .. Len(units) : IsFromFile(units[j], path)}
<1>1. UnitOfFile(units, path) = IF I # {} THEN Min(I) ELSE 0
  BY DEF UnitOfFile, SelectInSeq
<1>2. I \in SUBSET Nat
  OBVIOUS
<1>3. IsFirst(UnitOfFile(units, path), I)
  <2> HIDE DEF I
  <2> QED BY <1>1, <1>2, FirstOf
<1> QED BY <1>3 DEF RowsOf, UnitOfFile

-----------------------------------------------------------------------------
(* What the layout says. *)

LEMMA UnitsThere ==
  ASSUME prog \in Programs
  PROVE  /\ Len(prog.units) \in Nat /\ DOMAIN prog.units = 1 .. Len(prog.units)
         /\ \A u \in Range(prog.units) : \E i \in DOMAIN prog.units : prog.units[i] = u
         /\ \A i \in DOMAIN prog.units : prog.units[i] \in Range(prog.units)
         /\ \A i, j \in DOMAIN prog.units : i # j =>
              \/ prog.units[i].high <= prog.units[j].low
              \/ prog.units[j].high <= prog.units[i].low
<1>1. prog.units \in Seq(CompUnit)
  BY ProgramsAssumption DEF UnitsLaidOut
<1>2. \A i, j \in DOMAIN prog.units : i # j =>
        prog.units[i].high <= prog.units[j].low \/ prog.units[j].high <= prog.units[i].low
  BY ProgramsAssumption DEF UnitsLaidOut
<1> QED BY <1>1, <1>2 DEF Range

\* One unit: its range and its rows.
UnitFacts(u) ==
  /\ u.low \in Nat /\ u.high \in Nat /\ u.low < u.high
  /\ \E s \in Range(prog.symbols) : s.high = u.high
  /\ u.rows \in Seq(LineRow)
  /\ Len(u.rows) \in Nat \ {0} /\ DOMAIN u.rows = 1 .. Len(u.rows)
  /\ \A k \in 1 .. Len(u.rows) :
       /\ u.rows[k].addr \in Nat \ {0} /\ u.rows[k].ln \in Nat
       /\ u.rows[k].stmt \in BOOLEAN /\ u.rows[k].prologue_end \in BOOLEAN
       /\ IF k = Len(u.rows) THEN u.rows[k].addr = u.high ELSE Covers(u, u.rows[k].addr)
       /\ \A l \in 1 .. Len(u.rows) : k < l => u.rows[k].addr <= u.rows[l].addr

LEMMA UnitLaid ==
  ASSUME prog \in Programs, NEW i \in DOMAIN prog.units
  PROVE  UnitFacts(prog.units[i])
<1> DEFINE u == prog.units[i]
<1>1. prog.units \in Seq(CompUnit)
  BY ProgramsAssumption DEF UnitsLaidOut
<1>2. u \in CompUnit
  BY <1>1
<1>3. /\ u.low < u.high /\ \E s \in Range(prog.symbols) : s.high = u.high
      /\ u.rows # <<>>
      /\ \A k \in DOMAIN u.rows :
           IF k = Len(u.rows) THEN u.rows[k].addr = u.high ELSE Covers(u, u.rows[k].addr)
      /\ \A k, l \in DOMAIN u.rows : k < l => u.rows[k].addr <= u.rows[l].addr
  BY ProgramsAssumption DEF UnitsLaidOut
<1> HIDE DEF u
<1>4. u.low \in Nat /\ u.high \in Nat /\ u.rows \in Seq(LineRow)
  BY <1>2 DEF CompUnit
<1>5. Len(u.rows) \in Nat \ {0} /\ DOMAIN u.rows = 1 .. Len(u.rows)
  BY <1>3, <1>4
<1>6. \A k \in 1 .. Len(u.rows) : u.rows[k] \in LineRow
  BY <1>4
<1>7. \A k \in 1 .. Len(u.rows) :
        /\ u.rows[k].addr \in Nat \ {0} /\ u.rows[k].ln \in Nat
        /\ u.rows[k].stmt \in BOOLEAN /\ u.rows[k].prologue_end \in BOOLEAN
  BY <1>6 DEF LineRow
<1> QED BY <1>3, <1>4, <1>5, <1>7 DEF UnitFacts, u

\* A unit is in one place.
LEMMA UnitOnce ==
  ASSUME prog \in Programs, NEW i \in DOMAIN prog.units, NEW j \in DOMAIN prog.units,
         NEW a \in Nat, Covers(prog.units[i], a), Covers(prog.units[j], a)
  PROVE  i = j
<1>1. /\ prog.units[i].low \in Nat /\ prog.units[i].high \in Nat
      /\ prog.units[j].low \in Nat /\ prog.units[j].high \in Nat
  BY UnitLaid DEF UnitFacts
<1>2. /\ prog.units[i].low <= a /\ a < prog.units[i].high
      /\ prog.units[j].low <= a /\ a < prog.units[j].high
  BY DEF Covers
<1>3. i # j => \/ prog.units[i].high <= prog.units[j].low
               \/ prog.units[j].high <= prog.units[i].low
  BY UnitsThere
<1> QED BY <1>1, <1>2, <1>3

LEMMA FunctionsThere ==
  ASSUME prog \in Programs
  PROVE  /\ Len(prog.symbols) \in Nat /\ DOMAIN prog.symbols = 1 .. Len(prog.symbols)
         /\ Len(prog.subprograms) \in Nat
         /\ DOMAIN prog.subprograms = 1 .. Len(prog.subprograms)
         /\ Range(prog.subprograms) = Range(prog.symbols)
         /\ \A s \in Range(prog.symbols) :
              /\ \E i \in DOMAIN prog.symbols : prog.symbols[i] = s
              /\ \E i \in DOMAIN prog.subprograms : prog.subprograms[i] = s
              /\ s.func /\ s.low \in Nat /\ s.high \in Nat /\ s.low < s.high
              /\ \E i \in DOMAIN prog.units : FunctionLaidOut(s, prog.units[i])
         /\ \A i \in DOMAIN prog.symbols : prog.symbols[i] \in Range(prog.symbols)
         /\ \A i \in DOMAIN prog.subprograms : prog.subprograms[i] \in Range(prog.symbols)
         /\ \A i, j \in DOMAIN prog.symbols : i # j =>
              \/ prog.symbols[i].high <= prog.symbols[j].low
              \/ prog.symbols[j].high <= prog.symbols[i].low
<1>1. /\ prog.symbols \in Seq(Function) /\ prog.subprograms \in Seq(Function)
      /\ Range(prog.subprograms) = Range(prog.symbols)
      /\ \A i, j \in DOMAIN prog.symbols : i # j =>
           prog.symbols[i].high <= prog.symbols[j].low \/ prog.symbols[j].high <= prog.symbols[i].low
      /\ \A s \in Range(prog.symbols) : \E u \in Range(prog.units) : FunctionLaidOut(s, u)
  BY ProgramsAssumption DEF FunctionsLaidOut
<1>2. /\ Len(prog.symbols) \in Nat /\ DOMAIN prog.symbols = 1 .. Len(prog.symbols)
      /\ Len(prog.subprograms) \in Nat /\ DOMAIN prog.subprograms = 1 .. Len(prog.subprograms)
      /\ \A i \in DOMAIN prog.symbols : prog.symbols[i] \in Function
  BY <1>1
<1>3. ASSUME NEW s \in Range(prog.symbols)
      PROVE  /\ \E i \in DOMAIN prog.symbols : prog.symbols[i] = s
             /\ \E i \in DOMAIN prog.subprograms : prog.subprograms[i] = s
             /\ s.func /\ s.low \in Nat /\ s.high \in Nat /\ s.low < s.high
             /\ \E i \in DOMAIN prog.units : FunctionLaidOut(s, prog.units[i])
  <2>1. PICK i \in DOMAIN prog.symbols : prog.symbols[i] = s
    BY DEF Range
  <2>2. s \in Function
    BY <1>2, <2>1
  <2>3. s.func /\ s.low \in Nat /\ s.high \in Nat
    BY <2>2 DEF Function
  <2>4. \E j \in DOMAIN prog.subprograms : prog.subprograms[j] = s
    BY <1>1 DEF Range
  <2>5. PICK u \in Range(prog.units) : FunctionLaidOut(s, u)
    BY <1>1
  <2>6. s.low < s.high
    BY <2>5 DEF FunctionLaidOut
  <2>7. \E j \in DOMAIN prog.units : FunctionLaidOut(s, prog.units[j])
    BY <2>5, UnitsThere
  <2> QED BY <2>1, <2>3, <2>4, <2>6, <2>7
<1>4. /\ \A i \in DOMAIN prog.symbols : prog.symbols[i] \in Range(prog.symbols)
      /\ \A i \in DOMAIN prog.subprograms : prog.subprograms[i] \in Range(prog.subprograms)
  BY DEF Range
<1> QED BY <1>1, <1>2, <1>3, <1>4

\* Where the files can be told apart, the rows for the path of a unit are those
\* of the unit.
LEMMA OwnRows ==
  ASSUME prog \in Programs, FilesTellable, NEW u \in Range(prog.units)
  PROVE  RowsOf(prog.units, u.file) = u.rows
<1> DEFINE i == UnitOfFile(prog.units, u.file)
<1>1. PICK k \in DOMAIN prog.units : prog.units[k] = u
  BY UnitsThere
<1>2. IsFromFile(prog.units[k], u.file)
  BY <1>1, UnitsThere DEF FilesTellable, IsFromFile
<1>3. i \in DOMAIN prog.units /\ IsFromFile(prog.units[i], u.file)
  BY <1>2, UnitsThere, RowsOfIs DEF IsFirst
<1>4. prog.units[i] \in Range(prog.units)
  BY <1>3, UnitsThere
<1>5. prog.units[i] = u
  <2>1. u.file.real \in {Missing, u.file.dir}
    BY DEF FilesTellable
  <2> QED BY <1>3, <1>4, <2>1 DEF FilesTellable, IsFromFile
<1>6. i # NotFound
  BY <1>3, UnitsThere DEF NotFound
<1>7. RowsOf(prog.units, u.file) = IF i = NotFound THEN <<>> ELSE prog.units[i].rows
  BY UnitsThere, RowsOfIs
<1> HIDE DEF i
<1> QED BY <1>5, <1>6, <1>7

\* The unit of an address in a function is that of the whole function.
LEMMA UnitAtIs ==
  ASSUME prog \in Programs, NEW a \in Nat, NEW i \in DOMAIN prog.units, Covers(prog.units[i], a)
  PROVE  UnitAt(a) = prog.units[i]
<1>1. prog.units[i] \in Range(prog.units)
  BY UnitsThere
<1>2. \A u \in Range(prog.units) : Covers(u, a) => u = prog.units[i]
  BY UnitsThere, UnitOnce
<1> QED BY <1>1, <1>2 DEF UnitAt

\* The rows at the start of a function: the first row at or behind it is at it.
LEMMA RowAtStart ==
  ASSUME prog \in Programs, NEW s \in Range(prog.symbols), NEW i \in DOMAIN prog.units,
         FunctionLaidOut(s, prog.units[i]), OneFirstRow(s)
  PROVE  LET rows == prog.units[i].rows
             k == IndexOfPc(rows, s.low)
         IN  /\ RowsAt(s.low) = rows
             /\ k \in 1 .. Len(rows) - 1 /\ rows[k].addr = s.low
             /\ s.low < rows[k + 1].addr
             /\ \A j \in 1 .. Len(rows) : rows[j].addr >= s.low => k <= j
<1> DEFINE u == prog.units[i]
           rows == u.rows
           n == Len(rows)
           I == {j \in 1 .. n : rows[j].addr >= s.low}
<1>1. UnitFacts(u) /\ s.low \in Nat /\ s.high \in Nat
  BY UnitLaid, FunctionsThere
<1>2. s.low < s.high /\ u.low <= s.low /\ s.high <= u.high
  BY DEF FunctionLaidOut
<1>3. RowsAt(s.low) = rows
  <2>1. Covers(u, s.low)
    BY <1>1, <1>2 DEF Covers, UnitFacts
  <2> QED BY <1>1, <2>1, UnitAtIs DEF RowsAt
<1>4. PICK m \in 1 .. n : Covers(s, rows[m].addr) /\ rows[m].addr = s.low
  BY <1>1 DEF FunctionLaidOut, UnitFacts
<1>5. PICK k \in I : \A j \in I : k <= j
  <2>1. I \in SUBSET Nat
    OBVIOUS
  <2>2. m \in I
    BY <1>1, <1>4
  <2> HIDE DEF I
  <2> QED BY <2>1, <2>2, Least
<1> HIDE DEF u
<1>6. k \in 1 .. n /\ n \in Nat /\ k <= m
  BY <1>1, <1>4, <1>5 DEF UnitFacts
<1>7. rows[k].addr = s.low
  <2>1. rows[k].addr >= s.low /\ rows[k].addr \in Nat /\ (k < m => rows[k].addr <= rows[m].addr)
    BY <1>1, <1>5, <1>6 DEF UnitFacts
  <2>2. CASE k = m
    BY <1>4, <2>2
  <2>3. CASE k < m
    BY <1>1, <1>4, <2>1, <2>3
  <2> QED BY <1>6, <2>2, <2>3
<1>8. k # n
  BY <1>1, <1>2, <1>6, <1>7 DEF UnitFacts
<1>9. k + 1 \in 1 .. n
  BY <1>6, <1>8
<1>10. s.low < rows[k + 1].addr
  <2>1. rows[k + 1].addr \in Nat /\ s.low <= rows[k + 1].addr
    <3>1. k < k + 1
      BY <1>6
    <3> QED BY <1>1, <1>6, <1>7, <1>9, <3>1 DEF UnitFacts
  <2>2. rows[k + 1].addr # s.low
    <3>1. SUFFICES ASSUME rows[k + 1].addr = s.low
                   PROVE  FALSE
      OBVIOUS
    <3>2. Covers(s, s.low)
      BY <1>1, <1>2 DEF Covers
    <3>3. k \in Within(s) /\ k + 1 \in Within(s)
      BY <1>1, <1>3, <1>6, <1>7, <1>9, <3>1, <3>2 DEF Within, UnitFacts
    <3>4. k = k + 1
      BY <1>3, <1>7, <3>1, <3>3 DEF OneFirstRow
    <3> QED BY <1>6, <3>4
  <2> QED BY <1>1, <2>1, <2>2
<1>11. IsFirst(k, I)
  BY <1>5 DEF IsFirst
<1>12. IndexOfPc(rows, s.low) = k
  <2>1. k \in Nat /\ k # NotFound /\ k # n
    BY <1>6, <1>8 DEF NotFound
  <2> QED BY <1>6, <1>10, <1>11, <2>1, IndexOfPcIs
<1>13. \A j \in 1 .. n : rows[j].addr >= s.low => k <= j
  BY <1>5
<1> QED BY <1>3, <1>6, <1>7, <1>8, <1>10, <1>12, <1>13 DEF u

-----------------------------------------------------------------------------
(* The questions and their answers. *)

\* The answer is the one that info.c gives to the question asked.
Answered ==
  /\ prog \in Programs
  /\ asked.kind = "start" =>
       /\ asked.func \in Range(prog.symbols)
       /\ answer = FunctionStart(prog.units, prog.symbols, asked.func.name)
  /\ asked.kind = "line" =>
       /\ \E u \in Range(prog.units) : asked.path = u.file
       /\ asked.line \in Nat
       /\ answer = AddrAt(prog.units, asked.path, asked.line)
  /\ asked.kind = "position" =>
       /\ asked.addr \in Code
       /\ answer = Position(prog.units, prog.symbols, asked.addr)
  /\ asked.kind = "lines" =>
       /\ asked.addr \in Code
       /\ answer = LinesAround(prog.units, prog.symbols, prog.subprograms, asked.addr)

LEMMA NextAnswered ==
  ASSUME Answered, [Next]_vars
  PROVE  Answered'
<1>1. ASSUME NEW s \in Range(prog.symbols), AskStart(s)
      PROVE  Answered'
  BY <1>1 DEF AskStart, Answered
<1>2. ASSUME NEW u \in Range(prog.units), NEW l \in LineNumbers, AskLine(u.file, l)
      PROVE  Answered'
  BY <1>2, ProgramsAssumption DEF AskLine, Answered
<1>3. ASSUME NEW a \in Code, AskPosition(a) \/ AskLines(a)
      PROVE  Answered'
  <2>1. prog' = prog /\ Code' = Code
    BY <1>3 DEF AskPosition, AskLines, Code
  <2> QED BY <1>3, <2>1 DEF AskPosition, AskLines, Answered
<1>4. CASE UNCHANGED vars
  BY <1>4 DEF vars, Answered, Code
<1> QED BY <1>1, <1>2, <1>3, <1>4 DEF Next

LEMMA AnswersToQuestions == Spec => []Answered
<1>1. Init => Answered
  BY DEF Init, Answered
<1>2. Answered /\ [Next]_vars => Answered'
  BY NextAnswered
<1> QED BY <1>1, <1>2, PTL DEF Spec

\* An address in the code is in a function, which is in a unit.
LEMMA CodeLies ==
  ASSUME prog \in Programs, NEW a \in Code
  PROVE  /\ a \in Nat
         /\ \E s \in Range(prog.symbols), i \in DOMAIN prog.units :
              /\ Covers(s, a) /\ FunctionLaidOut(s, prog.units[i])
              /\ Covers(prog.units[i], a)
<1>1. PICK s \in Range(prog.symbols) : a \in s.low .. s.high - 1
  BY DEF Code
<1>2. PICK i \in DOMAIN prog.units : FunctionLaidOut(s, prog.units[i])
  BY FunctionsThere
<1>3. s.low \in Nat /\ s.high \in Nat /\ UnitFacts(prog.units[i])
  BY FunctionsThere, UnitLaid
<1>4. a \in Nat /\ Covers(s, a)
  BY <1>1, <1>3 DEF Covers
<1>5. Covers(prog.units[i], a)
  <2>1. prog.units[i].low <= s.low /\ s.high <= prog.units[i].high
    BY <1>2 DEF FunctionLaidOut
  <2>2. prog.units[i].low \in Nat /\ prog.units[i].high \in Nat
    BY <1>3 DEF UnitFacts
  <2>3. s.low <= a /\ a < s.high
    BY <1>4 DEF Covers
  <2> QED BY <1>3, <1>4, <2>1, <2>2, <2>3 DEF Covers
<1> QED BY <1>2, <1>4, <1>5

-----------------------------------------------------------------------------
(* break <file>:<line> *)

LEMMA LineFound ==
  ASSUME Answered, asked.kind = "line", FilesTellable
  PROVE  BreaksInFile
<1>1. PICK u \in Range(prog.units) : asked.path = u.file
  BY DEF Answered
<1> DEFINE v == CHOOSE x \in Range(prog.units) : x.file = asked.path
           l == asked.line
           I == {j \in 1 .. Len(v.rows) : v.rows[j].ln >= l}
           i == IndexOfLine(v.rows, l)
           from == {r \in Range(v.rows) : r.ln >= l}
           ascending == \A j, k \in DOMAIN v.rows : j < k => v.rows[j].ln <= v.rows[k].ln
<1>2. v \in Range(prog.units) /\ v.file = asked.path
  BY <1>1
<1>3. RowsOf(prog.units, asked.path) = v.rows
  BY <1>2, OwnRows DEF Answered
<1> HIDE DEF v
<1>4. UnitFacts(v)
  BY <1>2, UnitsThere, UnitLaid DEF Answered
<1>5. l \in Nat /\ answer = IF i = NotFound THEN NotFound ELSE v.rows[i].addr
  BY <1>3 DEF Answered, AddrAt
<1>6. IsFirst(i, I)
  BY <1>4, IndexOfLineIs DEF UnitFacts
<1> HIDE DEF i, l
<1>7. from = {v.rows[j] : j \in I}
  BY <1>4 DEF UnitFacts, Range
<1>8. CASE I = {}
  <2>1. from = {} /\ answer = NotFound
    BY <1>5, <1>6, <1>7, <1>8 DEF IsFirst, NotFound
  <2> QED BY <2>1 DEF BreaksInFile, v, l
<1>9. CASE I # {}
  <2>1. i \in I /\ \A j \in I : i <= j
    BY <1>6, <1>9 DEF IsFirst
  <2>2. v.rows[i] \in from /\ answer = v.rows[i].addr /\ answer # NotFound
    BY <1>4, <1>5, <1>7, <2>1 DEF UnitFacts, NotFound
  <2>3. ASSUME ascending, NEW x \in from
        PROVE  v.rows[i].ln <= x.ln /\ v.rows[i].addr <= x.addr
    <3>1. PICK j \in I : x = v.rows[j]
      BY <1>7
    <3>2. CASE i = j
      BY <1>4, <2>1, <3>1, <3>2 DEF UnitFacts
    <3>3. CASE i < j
      BY <1>4, <2>1, <2>3, <3>1, <3>3 DEF UnitFacts
    <3> QED BY <1>4, <2>1, <3>1, <3>2, <3>3 DEF UnitFacts
  <2> QED BY <2>2, <2>3 DEF BreaksInFile, v, l
<1> QED BY <1>8, <1>9

\* break <file>:<line> goes to the first code of the line or the next one in
\* that file, in every layout.
THEOREM BreakGoesToLine == Spec => []BreaksInFile
<1>1. Answered => BreaksInFile
  <2>1. asked.kind # "line" \/ ~FilesTellable => BreaksInFile
    BY DEF BreaksInFile
  <2> QED BY <2>1, LineFound
<1> QED BY <1>1, AnswersToQuestions, PTL

-----------------------------------------------------------------------------
(* Positions. *)

LEMMA PositionFound ==
  ASSUME Answered, asked.kind = "position", FilesTellable, ~EndsAt(prog.units, asked.addr)
  PROVE  ExactMeansRow
<1> DEFINE a == asked.addr
           rows == RowsAt(a)
           here == {r.ln : r \in {x \in Range(rows) : x.addr = a}}
<1>1. a \in Nat /\ prog \in Programs
  BY CodeLies DEF Answered
<1>2. PICK s \in Range(prog.symbols), k \in DOMAIN prog.units :
        Covers(s, a) /\ Covers(prog.units[k], a)
  BY CodeLies DEF Answered
<1>3. answer = EntryFromPc(prog.units, a)
  <2>1. PICK j \in DOMAIN prog.symbols : prog.symbols[j] = s
    BY <1>1, FunctionsThere
  <2>2. s.low <= a /\ a <= s.high
    BY <1>1, <1>2, FunctionsThere DEF Covers
  <2>3. SymbolFromAddr(prog.symbols, a) \in 1 .. Len(prog.symbols)
    BY <1>1, <2>1, <2>2, FunctionsThere, SymbolFromAddrIs DEF IsFirst
  <2>4. SymbolFromAddr(prog.symbols, a) # NotFound
    BY <1>1, <2>3, FunctionsThere DEF NotFound
  <2> QED BY <2>4 DEF Answered, Position
<1> DEFINE u == UnitOfPc(prog.units, a)
<1>4. u \in DOMAIN prog.units /\ u # NotFound /\ prog.units[u] = UnitAt(a)
  <2>1. prog.units[k].low <= a /\ a <= prog.units[k].high
    BY <1>1, <1>2, UnitLaid DEF Covers, UnitFacts
  <2>2. u \in DOMAIN prog.units /\ prog.units[u].low <= a /\ a <= prog.units[u].high
    BY <1>1, <2>1, UnitsThere, UnitOfPcIs DEF IsFirst
  <2>3. Covers(prog.units[u], a)
    <3>1. prog.units[u].high # a
      BY <1>1, <2>2, UnitsThere DEF EndsAt
    <3> QED BY <1>1, <2>2, <3>1, UnitLaid DEF Covers, UnitFacts
  <2>4. u # NotFound
    BY <1>1, <2>2, UnitsThere DEF NotFound
  <2> HIDE DEF u
  <2> QED BY <1>1, <2>2, <2>3, <2>4, UnitAtIs
<1> HIDE DEF u
<1>5. RowsOf(prog.units, prog.units[u].file) = rows /\ UnitFacts(prog.units[u])
  <2>1. prog.units[u] \in Range(prog.units)
    BY <1>1, <1>4, UnitsThere
  <2> QED BY <1>1, <1>4, <2>1, OwnRows, UnitLaid DEF RowsAt
<1> DEFINE I == {j \in 1 .. Len(rows) : rows[j].addr = a}
           i == SelectInSeq(rows, LAMBDA r : r.addr = a)
<1>6. Len(rows) \in Nat /\ DOMAIN rows = 1 .. Len(rows)
  BY <1>4, <1>5 DEF RowsAt, UnitFacts
<1>7. IsFirst(i, I)
  BY <1>6, ExactRowIs
<1>8. here = {rows[j].ln : j \in I}
  BY <1>6 DEF Range
<1>9. /\ i # NotFound => answer = [ok |-> TRUE, ln |-> rows[i].ln, exact |-> TRUE]
      /\ i = NotFound => ~(answer.ok /\ answer.exact)
  BY <1>3, <1>4, <1>5 DEF EntryFromPc, NoPosition, u
<1> HIDE DEF rows, i
<1>10. CASE I = {}
  <2>1. here = {} /\ i = NotFound
    BY <1>7, <1>8, <1>10 DEF IsFirst, NotFound
  <2> QED BY <1>9, <2>1 DEF ExactMeansRow, rows
<1>11. CASE I # {}
  <2>1. i \in I
    BY <1>7, <1>11 DEF IsFirst
  <2>2. rows[i].ln \in here
    BY <1>8, <2>1
  <2>3. i # NotFound
    BY <1>6, <2>1 DEF NotFound
  <2> QED BY <1>9, <2>2, <2>3 DEF ExactMeansRow, rows
<1> QED BY <1>10, <1>11

\* A position is exact where a row begins, and only there, in every layout.
THEOREM ExactPositions == Spec => []ExactMeansRow
<1>1. Answered => ExactMeansRow
  <2>1. asked.kind # "position" \/ ~FilesTellable \/ EndsAt(prog.units, asked.addr) => ExactMeansRow
    BY DEF ExactMeansRow
  <2> QED BY <2>1, PositionFound
<1> QED BY <1>1, AnswersToQuestions, PTL

-----------------------------------------------------------------------------
(* next *)

\* The loops over the rows of a function end where one is behind high.
LEMMA LastOfRangeIs ==
  ASSUME NEW u, UnitFacts(u), NEW high \in Nat, NEW k \in 1 .. Len(u.rows)
  PROVE  LET last == LastOfRange(u.rows, k, high)
         IN  /\ last \in Int /\ last <= Len(u.rows)
             /\ \A j \in k .. Len(u.rows) : j \in k .. last <=> u.rows[j].addr <= high
<1> DEFINE rows == u.rows
           n == Len(rows)
           I == {j \in k .. n : rows[j].addr > high}
           behind == SelectInSubSeq(rows, k, n, LAMBDA r : r.addr > high)
           last == IF behind = NotFound THEN n ELSE behind - 1
<1>1. IsFirst(behind, I)
  <2>1. behind = IF I # {} THEN Min(I) ELSE 0
    BY DEF SelectInSubSeq
  <2>2. I \in SUBSET Nat
    BY DEF UnitFacts
  <2> HIDE DEF I
  <2> QED BY <2>1, <2>2, FirstOf
<1>2. n \in Nat /\ k \in Nat
  BY DEF UnitFacts
<1>3. LastOfRange(rows, k, high) = last
  BY DEF LastOfRange
<1> HIDE DEF behind
<1>4. ASSUME NEW j \in k .. n
      PROVE  j \in k .. last <=> rows[j].addr <= high
  <2>0. j \in 1 .. n /\ rows[j].addr \in Nat
    BY <1>2 DEF UnitFacts
  <2>1. CASE I = {}
    <3>1. last = n
      BY <1>1, <2>1 DEF IsFirst, NotFound
    <3>2. ~(rows[j].addr > high)
      BY <2>1
    <3> QED BY <2>0, <3>1, <3>2
  <2>2. CASE I # {}
    <3>1. behind \in I /\ \A x \in I : behind <= x
      BY <1>1, <2>2 DEF IsFirst
    <3>2. behind \in Nat /\ last = behind - 1 /\ behind \in 1 .. n /\ rows[behind].addr > high
      BY <1>2, <3>1 DEF NotFound
    <3>3. CASE j < behind
      <4>1. ~(rows[j].addr > high)
        BY <1>2, <3>1, <3>2, <3>3
      <4> QED BY <1>2, <2>0, <3>2, <3>3, <4>1
    <3>4. CASE behind <= j
      <4>1. rows[behind].addr <= rows[j].addr /\ rows[behind].addr \in Nat
        <5>1. CASE behind = j
          BY <2>0, <5>1
        <5>2. CASE behind < j
          BY <2>0, <3>2, <5>2 DEF UnitFacts
        <5> QED BY <1>2, <2>0, <3>2, <3>4, <5>1, <5>2
      <4> QED BY <1>2, <2>0, <3>2, <3>4, <4>1
    <3> QED BY <1>2, <2>0, <3>2, <3>3, <3>4
  <2> QED BY <2>1, <2>2
<1>5. last \in Int /\ last <= n
  BY <1>1, <1>2 DEF IsFirst, NotFound
<1> QED BY <1>3, <1>4, <1>5

\* sd_for_each_line, from the first row of a function to the first one behind
\* its end.
LEMMA LinesOfRangeIs ==
  ASSUME NEW u, UnitFacts(u), NEW low \in Nat, NEW high \in Nat,
         NEW k \in 1 .. Len(u.rows), IndexOfPc(u.rows, low) = k, u.rows[k].addr = low,
         \A j \in 1 .. Len(u.rows) : u.rows[j].addr >= low => k <= j
  PROVE  LET lines == LinesOfRange(u.rows, low, high)
             rows == {r \in Range(u.rows) : r.stmt}
         IN  /\ {r \in rows : low <= r.addr /\ r.addr < high} \subseteq lines
             /\ lines \subseteq {r \in rows : low <= r.addr /\ r.addr <= high}
<1> DEFINE rows == u.rows
           n == Len(rows)
           last == LastOfRange(rows, k, high)
           lines == LinesOfRange(rows, low, high)
<1>2. n \in Nat /\ k \in Nat /\ k # NotFound
  BY DEF UnitFacts, NotFound
<1>3. lines = {rows[j] : j \in {x \in k .. last : rows[x].stmt}}
  BY <1>2 DEF LinesOfRange
<1>4. /\ last \in Int /\ last <= n
      /\ \A j \in k .. n : j \in k .. last <=> rows[j].addr <= high
  BY LastOfRangeIs
<1> HIDE DEF last, lines
<1>6. ASSUME NEW r \in Range(rows), r.stmt, low <= r.addr, r.addr < high
      PROVE  r \in lines
  <2>1. PICK j \in 1 .. n : r = rows[j]
    BY DEF Range, UnitFacts
  <2>2. rows[j].addr \in Nat
    BY DEF UnitFacts
  <2>3. j \in k .. n
    BY <1>2, <1>6, <2>1, <2>2
  <2>4. j \in k .. last
    BY <1>4, <1>6, <2>1, <2>2, <2>3
  <2> QED BY <1>3, <1>6, <2>1, <2>4
<1>7. ASSUME NEW r \in lines
      PROVE  r \in Range(rows) /\ r.stmt /\ low <= r.addr /\ r.addr <= high
  <2>1. PICK j \in k .. last : r = rows[j] /\ rows[j].stmt
    BY <1>3, <1>7
  <2>3. j \in k .. n /\ j \in 1 .. n
    BY <1>2, <1>4, <2>1
  <2>4. rows[j].addr <= high
    BY <1>4, <2>1, <2>3
  <2>5. low <= rows[j].addr
    <3>1. CASE j = k
      BY <3>1
    <3>2. CASE k < j
      BY <1>2, <2>3, <3>2 DEF UnitFacts
    <3> QED BY <1>2, <2>3, <3>1, <3>2
  <2>6. r \in Range(rows)
    BY <2>1, <2>3 DEF Range, UnitFacts
  <2> QED BY <2>1, <2>4, <2>5, <2>6
<1> QED BY <1>6, <1>7 DEF lines

\* The function at an address, if no other one ends there.
LEMMA FunctionAtIs ==
  ASSUME prog \in Programs, NEW a \in Nat, NEW s \in Range(prog.symbols), Covers(s, a),
         ~EndsAt(prog.symbols, a)
  PROVE  /\ FunctionAt(a) = s
         /\ SymbolFromAddr(prog.symbols, a) \in DOMAIN prog.symbols
         /\ prog.symbols[SymbolFromAddr(prog.symbols, a)] = s
<1>1. PICK i \in DOMAIN prog.symbols : prog.symbols[i] = s
  BY FunctionsThere
<1>2. ASSUME NEW j \in DOMAIN prog.symbols, Covers(prog.symbols[j], a)
      PROVE  prog.symbols[j] = s
  <2>1. prog.symbols[j] \in Range(prog.symbols)
    BY FunctionsThere
  <2>2. /\ prog.symbols[j].low \in Nat /\ prog.symbols[j].high \in Nat
        /\ s.low \in Nat /\ s.high \in Nat
    BY <2>1, FunctionsThere
  <2>3. prog.symbols[j].low <= a /\ a < prog.symbols[j].high /\ s.low <= a /\ a < s.high
    BY <1>2 DEF Covers
  <2>4. i # j => prog.symbols[i].high <= prog.symbols[j].low
                 \/ prog.symbols[j].high <= prog.symbols[i].low
    BY FunctionsThere
  <2> QED BY <1>1, <2>2, <2>3, <2>4
<1>3. FunctionAt(a) = s
  BY <1>2, FunctionsThere DEF FunctionAt
<1> DEFINE k == SymbolFromAddr(prog.symbols, a)
<1>4. s.low <= a /\ a <= s.high
  BY FunctionsThere DEF Covers
<1>5. k \in DOMAIN prog.symbols /\ prog.symbols[k].low <= a /\ a <= prog.symbols[k].high
  BY <1>1, <1>4, FunctionsThere, SymbolFromAddrIs DEF IsFirst
<1> HIDE DEF k
<1>6. Covers(prog.symbols[k], a)
  <2>1. prog.symbols[k] \in Range(prog.symbols)
    BY <1>5, FunctionsThere
  <2>2. prog.symbols[k].high # a
    BY <2>1 DEF EndsAt
  <2>3. prog.symbols[k].high \in Nat
    BY <2>1, FunctionsThere
  <2> QED BY <1>5, <2>2, <2>3 DEF Covers
<1>7. prog.symbols[k] = s
  BY <1>2, <1>5, <1>6
<1> QED BY <1>3, <1>5, <1>7 DEF k

LEMMA LinesFound ==
  ASSUME Answered, asked.kind = "lines", FilesTellable, NamesTellable,
         OneFirstRow(FunctionAt(asked.addr)), ~EndsAt(prog.symbols, asked.addr)
  PROVE  NextSeesFunction
<1> DEFINE a == asked.addr
<1>1. a \in Nat /\ prog \in Programs
  BY CodeLies DEF Answered
<1>2. PICK s \in Range(prog.symbols), i \in DOMAIN prog.units :
        Covers(s, a) /\ FunctionLaidOut(s, prog.units[i]) /\ Covers(prog.units[i], a)
  BY CodeLies DEF Answered
<1>3. /\ FunctionAt(a) = s
      /\ prog.symbols[SymbolFromAddr(prog.symbols, a)] = s
  BY <1>1, <1>2, FunctionAtIs
<1> DEFINE u == prog.units[i]
           sub == SubprogOfName(prog.subprograms, s.name)
           w == UnitOfPc(prog.units, a)
<1>4. sub # NotFound /\ prog.subprograms[sub] = s
  <2>1. PICK j \in DOMAIN prog.subprograms : prog.subprograms[j] = s
    BY <1>1, FunctionsThere
  <2>2. sub \in DOMAIN prog.subprograms /\ prog.subprograms[sub].name = s.name
    BY <1>1, <2>1, FunctionsThere, OfNameIs DEF IsFirst
  <2>3. PICK k \in DOMAIN prog.symbols : prog.symbols[k] = s
    BY <1>1, FunctionsThere
  <2>4. PICK l \in DOMAIN prog.symbols : prog.symbols[l] = prog.subprograms[sub]
    BY <1>1, <2>2, FunctionsThere
  <2>5. k = l
    BY <2>2, <2>3, <2>4 DEF NamesTellable
  <2>6. sub # NotFound
    BY <1>1, <2>2, FunctionsThere DEF NotFound
  <2> QED BY <2>3, <2>4, <2>5, <2>6
<1>5. prog.units[w] = u /\ w \in DOMAIN prog.units
  <2>1. prog.units[i].low <= a /\ a <= prog.units[i].high
    BY <1>1, <1>2, UnitLaid DEF Covers, UnitFacts
  <2>2. w \in DOMAIN prog.units /\ prog.units[w].low <= a /\ a <= prog.units[w].high
    BY <1>1, <1>2, <2>1, UnitsThere, UnitOfPcIs DEF IsFirst
  <2> HIDE DEF w
  <2>3. Covers(prog.units[w], a)
    <3>1. prog.units[w].high # a
      <4>1. PICK x \in Range(prog.symbols) : x.high = prog.units[w].high
        BY <1>1, <2>2, UnitLaid DEF UnitFacts
      <4>2. x.high # a
        BY DEF EndsAt
      <4> QED BY <4>1, <4>2
    <3>2. prog.units[w].high \in Nat
      BY <1>1, <2>2, UnitLaid DEF UnitFacts
    <3> QED BY <1>1, <2>2, <3>1, <3>2 DEF Covers
  <2> QED BY <1>1, <1>2, <2>2, <2>3, UnitOnce
<1>6. RowsOf(prog.units, prog.units[w].file) = u.rows
  BY <1>1, <1>2, <1>5, UnitsThere, OwnRows
<1>7. answer = LinesOfRange(u.rows, s.low, s.high)
  BY <1>3, <1>4, <1>6 DEF Answered, LinesAround
<1>8. RowsAt(a) = u.rows
  BY <1>1, <1>2, UnitAtIs DEF RowsAt
<1> DEFINE k == IndexOfPc(u.rows, s.low)
           rows == {r \in Range(u.rows) : r.stmt}
<1>9. /\ UnitFacts(u) /\ s.low \in Nat /\ s.high \in Nat
  BY <1>1, <1>2, UnitLaid, FunctionsThere
<1>10. /\ k \in 1 .. Len(u.rows) - 1 /\ u.rows[k].addr = s.low
       /\ \A j \in 1 .. Len(u.rows) : u.rows[j].addr >= s.low => k <= j
  BY <1>1, <1>2, <1>3, RowAtStart
<1> HIDE DEF u, k
<1>11. k \in 1 .. Len(u.rows)
  BY <1>9, <1>10 DEF UnitFacts
<1>12. /\ {r \in rows : s.low <= r.addr /\ r.addr < s.high} \subseteq answer
       /\ answer \subseteq {r \in rows : s.low <= r.addr /\ r.addr <= s.high}
  BY <1>7, <1>9, <1>10, <1>11, LinesOfRangeIs DEF k
<1>13. \A r \in rows : r.addr \in Nat
  BY <1>9 DEF UnitFacts, Range
<1> HIDE DEF rows
<1>14. /\ {r \in rows : Covers(s, r.addr)} \subseteq answer
       /\ answer \subseteq {r \in rows : Covers(s, r.addr)} \union
                           {r \in rows : r.addr = s.high}
  <2>1. \A r \in rows : r.addr <= s.high => r.addr < s.high \/ r.addr = s.high
    BY <1>9, <1>13
  <2> QED BY <1>12, <2>1 DEF Covers
<1>15. {r \in Range(RowsAt(a)) : r.stmt /\ r.addr = s.high} = {r \in rows : r.addr = s.high}
  BY <1>8 DEF rows
<1>16. rows = {r \in Range(RowsAt(a)) : r.stmt}
  BY <1>8 DEF rows
<1> QED BY <1>3, <1>14, <1>16 DEF NextSeesFunction

\* next sees each statement of its function, and no other than what begins
\* right behind it, in every layout.
THEOREM NextSeesAll == Spec => []NextSeesFunction
<1>1. Answered => NextSeesFunction
  <2>1. \/ asked.kind # "lines" \/ ~FilesTellable \/ ~NamesTellable
        \/ ~OneFirstRow(FunctionAt(asked.addr)) \/ EndsAt(prog.symbols, asked.addr)
        => NextSeesFunction
    BY DEF NextSeesFunction
  <2> QED BY <2>1, LinesFound
<1> QED BY <1>1, AnswersToQuestions, PTL

-----------------------------------------------------------------------------
(* break <function> *)

\* The end of sd_effective_start_addr, in the table it found.
StartIn(rows, low, high) ==
  LET first == IndexOfPc(rows, low)
      ends == SelectInSubSeq(rows, first, LastOfRange(rows, first, high),
                             LAMBDA r : r.prologue_end)
  IN  CASE ends # NotFound -> rows[ends].addr
        [] ends = NotFound /\ first < Len(rows) -> rows[first + 1].addr
        [] OTHER -> rows[first].addr

\* That table is the first one of a unit that has a row for the start.
LEMMA EffectiveStartIs ==
  ASSUME prog \in Programs, FilesTellable, NEW low \in Nat, NEW high \in Nat,
         NEW t \in DOMAIN prog.units,
         IsFirst(t, {j \in DOMAIN prog.units : IndexOfPc(prog.units[j].rows, low) # NotFound})
  PROVE  EffectiveStart(prog.units, low, high) = StartIn(prog.units[t].rows, low, high)
<1> DEFINE units == prog.units
           n == Len(units)
           Hit(x) == IndexOfPc(RowsOf(units, x), low) # NotFound
           files == units[t].files
           U == {j \in 1 .. n : \E i \in DOMAIN units[j].files : Hit(units[j].files[i])}
           F == {i \in 1 .. Len(files) : Hit(files[i])}
           u == SelectInSeq(units, LAMBDA x : \E i \in DOMAIN x.files :
                  IndexOfPc(RowsOf(units, x.files[i]), low) # NotFound)
           f == SelectInSeq(files, LAMBDA x : IndexOfPc(RowsOf(units, x), low) # NotFound)
           path == FirstFilePath(units, low)
<1>1. n \in Nat /\ DOMAIN units = 1 .. n /\ Len(files) \in Nat /\ DOMAIN files = 1 .. Len(files)
  <2>1. units \in Seq(CompUnit)
    BY ProgramsAssumption DEF UnitsLaidOut
  <2>2. units[t] \in CompUnit
    BY <2>1
  <2>3. files \in Seq(FilePath)
    <3> HIDE DEF units
    <3> QED BY <2>2 DEF CompUnit
  <2> QED BY <2>1, <2>3
<1>2. ASSUME NEW j \in DOMAIN units, NEW i \in DOMAIN units[j].files, Hit(units[j].files[i])
      PROVE  units[j].files[i] = units[j].file
  <2>1. SUFFICES ASSUME units[j].files[i] # units[j].file
                 PROVE  FALSE
    OBVIOUS
  <2>2. \A k \in DOMAIN units : ~IsFromFile(units[k], units[j].files[i])
    BY <2>1, ProgramsAssumption DEF UnitsLaidOut
  <2> DEFINE x == units[j].files[i]
  <2> HIDE DEF x
  <2>3. RowsOf(units, x) = <<>>
    BY <2>2, <1>1, RowsOfIs DEF IsFirst, NotFound, x
  <2>4. IndexOfPc(<<>>, low) = NotFound
    <3>1. IsFirst(0, {l \in 1 .. Len(<<>>) : <<>>[l].addr >= low})
      BY DEF IsFirst
    <3> QED BY <3>1, IndexOfPcIs DEF NotFound
  <2> QED BY <1>2, <2>3, <2>4 DEF x
<1>3. ASSUME NEW j \in DOMAIN units
      PROVE  /\ Hit(units[j].file) <=> IndexOfPc(units[j].rows, low) # NotFound
             /\ \E i \in DOMAIN units[j].files : units[j].files[i] = units[j].file
  <2>1. RowsOf(units, units[j].file) = units[j].rows
    BY UnitsThere, OwnRows
  <2> QED BY <2>1, ProgramsAssumption DEF UnitsLaidOut
<1>4. U = {j \in DOMAIN units : IndexOfPc(units[j].rows, low) # NotFound}
  BY <1>1, <1>2, <1>3
<1>5. u = t
  <2>1. u = IF U # {} THEN Min(U) ELSE 0
    BY DEF SelectInSeq
  <2>2. U \in SUBSET Nat
    OBVIOUS
  <2>3. IsFirst(t, U)
    BY <1>4
  <2> HIDE DEF u, U
  <2> QED BY <2>1, <2>2, <2>3, FirstOf, FirstUnique
<1>6. f \in 1 .. Len(files) /\ Hit(files[f])
  <2>1. f = IF F # {} THEN Min(F) ELSE 0
    BY DEF SelectInSeq
  <2>2. F \in SUBSET Nat
    OBVIOUS
  <2>3. F # {}
    <3>1. PICK i \in DOMAIN files : files[i] = units[t].file
      BY <1>3
    <3>2. t # 0
      BY <1>1
    <3>3. IndexOfPc(units[t].rows, low) # NotFound
      BY <3>2 DEF IsFirst
    <3>4. Hit(files[i])
      BY <1>3, <3>1, <3>3
    <3> QED BY <1>1, <3>4
  <2>4. f \in F
    <3> HIDE DEF f, F
    <3> QED BY <2>1, <2>2, <2>3, FirstOf DEF IsFirst
  <2> QED BY <2>4
<1>7. path = IF u = NotFound THEN <<>>
             ELSE <<units[u].files[SelectInSeq(units[u].files,
                      LAMBDA x : IndexOfPc(RowsOf(units, x), low) # NotFound)]>>
  BY DEF FirstFilePath
<1>8. path = <<files[f]>>
  <2>1. u # NotFound
    BY <1>1, <1>5 DEF NotFound
  <2> HIDE DEF u
  <2>2. SelectInSeq(units[u].files, LAMBDA x : IndexOfPc(RowsOf(units, x), low) # NotFound) = f
    BY <1>5 DEF SelectInSeq
  <2> QED BY <1>5, <1>7, <2>1, <2>2
<1>9. EffectiveStart(units, low, high) =
        IF path = <<>> THEN NotFound ELSE StartIn(RowsOf(units, path[1]), low, high)
  BY DEF EffectiveStart, StartIn
<1>10. RowsOf(units, files[f]) = units[t].rows
  <2>1. files[f] = units[t].file
    BY <1>1, <1>2, <1>6
  <2> QED BY <2>1, UnitsThere, OwnRows
<1> HIDE DEF path
<1> QED BY <1>8, <1>9, <1>10

\* Only the last row of a unit answers for the address behind the unit, and
\* none for those beyond.
LEMMA BehindUnit ==
  ASSUME NEW u, UnitFacts(u), NEW pc \in Nat
  PROVE  /\ pc = u.high => IndexOfPc(u.rows, pc) = Len(u.rows)
         /\ u.high < pc => IndexOfPc(u.rows, pc) = NotFound
<1> DEFINE n == Len(u.rows)
           I == {j \in 1 .. n : u.rows[j].addr >= pc}
<1>1. n \in Nat \ {0} /\ u.high \in Nat /\ u.rows[n].addr = u.high
  BY DEF UnitFacts
<1>2. ASSUME NEW j \in 1 .. n
      PROVE  u.rows[j].addr \in Nat /\ IF j = n THEN u.rows[j].addr = u.high
                                       ELSE u.rows[j].addr < u.high
  BY DEF UnitFacts, Covers
<1>3. CASE pc = u.high
  <2>1. I = {n}
    BY <1>1, <1>2, <1>3
  <2>2. IsFirst(n, I)
    BY <1>1, <2>1 DEF IsFirst
  <2> HIDE DEF n
  <2> QED BY <1>1, <1>3, <2>2, IndexOfPcIs DEF NotFound, n
<1>4. CASE u.high < pc
  <2>1. I = {}
    BY <1>1, <1>2, <1>4
  <2>2. IsFirst(0, I)
    BY <2>1 DEF IsFirst
  <2>3. IndexOfPc(u.rows, pc) = NotFound
    BY <1>1, <2>2, IndexOfPcIs DEF NotFound
  <2> QED BY <1>1, <1>4, <2>3
<1> QED BY <1>1, <1>3, <1>4

\* There the start is the end of the unit.
LEMMA StartBehindUnit ==
  ASSUME NEW u, UnitFacts(u), NEW high \in Nat, u.high <= high
  PROVE  StartIn(u.rows, u.high, high) = u.high
<1> DEFINE n == Len(u.rows)
           I == {j \in n .. LastOfRange(u.rows, n, high) : u.rows[j].prologue_end}
           ends == SelectInSubSeq(u.rows, n, LastOfRange(u.rows, n, high),
                                  LAMBDA r : r.prologue_end)
<1>1. n \in Nat \ {0} /\ u.high \in Nat /\ u.rows[n].addr = u.high /\ n \in 1 .. n
  BY DEF UnitFacts
<1>2. IndexOfPc(u.rows, u.high) = n
  BY <1>1, BehindUnit
<1>3. LastOfRange(u.rows, n, high) \in Int /\ LastOfRange(u.rows, n, high) <= n
  BY <1>1, LastOfRangeIs
<1>4. IsFirst(ends, I)
  <2>1. ends = IF I # {} THEN Min(I) ELSE 0
    BY DEF SelectInSubSeq
  <2>2. I \in SUBSET Nat
    BY <1>1, <1>3
  <2> HIDE DEF ends, I
  <2> QED BY <2>1, <2>2, FirstOf
<1>5. ends \in {0, n}
  <2> HIDE DEF ends
  <2> QED BY <1>1, <1>3, <1>4 DEF IsFirst
<1>6. StartIn(u.rows, u.high, high) =
        CASE ends # NotFound -> u.rows[ends].addr
          [] ends = NotFound /\ n < n -> u.rows[n + 1].addr
          [] OTHER -> u.rows[n].addr
  BY <1>2 DEF StartIn, SelectInSubSeq
<1> HIDE DEF ends
<1> QED BY <1>1, <1>5, <1>6 DEF NotFound

\* In its own table the start of a function is behind the prologue.
LEMMA StartInFunction ==
  ASSUME prog \in Programs, NEW s \in Range(prog.symbols), NEW i \in DOMAIN prog.units,
         FunctionLaidOut(s, prog.units[i]), OneFirstRow(s), \E x, y \in Within(s) : x # y
  PROVE  LET rows == prog.units[i].rows
             start == StartIn(rows, s.low, s.high)
             ends == {rows[x].addr : x \in {y \in Within(s) : rows[y].prologue_end}}
         IN  IF ends = {} THEN s.low < start /\ start < s.high ELSE start \in ends
<1> DEFINE u == prog.units[i]
           rows == u.rows
           n == Len(rows)
           k == IndexOfPc(rows, s.low)
           last == LastOfRange(rows, k, s.high)
           I == {j \in k .. last : rows[j].prologue_end}
           e == SelectInSubSeq(rows, k, last, LAMBDA r : r.prologue_end)
           W == {y \in Within(s) : rows[y].prologue_end}
<1>1. UnitFacts(u) /\ s.low \in Nat /\ s.high \in Nat
  BY UnitLaid, FunctionsThere
<1>2. /\ RowsAt(s.low) = rows
      /\ k \in 1 .. n - 1 /\ rows[k].addr = s.low
      /\ s.low < rows[k + 1].addr
      /\ \A j \in 1 .. n : rows[j].addr >= s.low => k <= j
  BY RowAtStart
<1>3. Within(s) = {j \in 1 .. n : s.low <= rows[j].addr /\ rows[j].addr < s.high}
  BY <1>1, <1>2 DEF Within, Covers, UnitFacts
<1>4. \/ \A j \in 1 .. n : rows[j].addr = s.high => ~rows[j].prologue_end
      \/ \E x \in Within(s) : rows[x].prologue_end
  BY <1>1, <1>2 DEF FunctionLaidOut, Within, UnitFacts
<1>5. StartIn(rows, s.low, s.high) =
        CASE e # NotFound -> rows[e].addr
          [] e = NotFound /\ k < n -> rows[k + 1].addr
          [] OTHER -> rows[k].addr
  BY DEF StartIn
<1>6. n \in Nat /\ k \in 1 .. n /\ k + 1 \in 1 .. n
  BY <1>1, <1>2 DEF UnitFacts
<1> HIDE DEF u, k
<1>7. /\ last \in Int /\ last <= n
      /\ \A j \in k .. n : j \in k .. last <=> rows[j].addr <= s.high
  BY <1>1, <1>6, LastOfRangeIs
<1>8. IsFirst(e, I)
  <2>1. e = IF I # {} THEN Min(I) ELSE 0
    BY DEF SelectInSubSeq
  <2>2. I \in SUBSET Nat
    BY <1>6, <1>7
  <2> HIDE DEF e, I
  <2> QED BY <2>1, <2>2, FirstOf
<1> HIDE DEF e, last
<1>9. \A j \in Within(s) : j \in k .. last /\ j \in 1 .. n /\ k <= j
  <2> SUFFICES ASSUME NEW j \in Within(s)
               PROVE  j \in k .. last /\ j \in 1 .. n /\ k <= j
    OBVIOUS
  <2>1. /\ j \in 1 .. n /\ rows[j].addr \in Nat
        /\ s.low <= rows[j].addr /\ rows[j].addr < s.high
    BY <1>1, <1>3 DEF UnitFacts
  <2>2. k <= j
    BY <1>1, <1>2, <2>1
  <2> QED BY <1>1, <1>6, <1>7, <2>1, <2>2
<1>10. \A j \in k .. n : rows[j].addr \in Nat /\ s.low <= rows[j].addr
  <2> SUFFICES ASSUME NEW j \in k .. n
               PROVE  rows[j].addr \in Nat /\ s.low <= rows[j].addr
    OBVIOUS
  <2>1. j \in 1 .. n
    BY <1>6
  <2>2. CASE j = k
    BY <1>1, <1>2, <2>1, <2>2 DEF UnitFacts
  <2>3. CASE k < j
    BY <1>1, <1>2, <1>6, <2>1, <2>3 DEF UnitFacts
  <2> QED BY <1>6, <2>2, <2>3
<1>11. CASE I = {}
  <2>1. W = {} /\ e = NotFound
    BY <1>8, <1>9, <1>11 DEF IsFirst, NotFound
  <2>2. StartIn(rows, s.low, s.high) = rows[k + 1].addr
    <3>1. k < n
      BY <1>6
    <3> QED BY <1>5, <2>1, <3>1
  <2>3. PICK x \in Within(s) : x # k
    OBVIOUS
  <2>4. x \in 1 .. n /\ k < x /\ rows[x].addr \in Nat /\ rows[x].addr < s.high
    BY <1>1, <1>3, <1>6, <1>9, <2>3 DEF UnitFacts
  <2>5. rows[k + 1].addr <= rows[x].addr /\ rows[k + 1].addr \in Nat
    <3>1. CASE x = k + 1
      BY <2>4, <3>1
    <3>2. CASE k + 1 < x
      BY <1>1, <1>6, <2>4, <3>2 DEF UnitFacts
    <3> QED BY <1>6, <2>4, <3>1, <3>2
  <2>6. s.low < StartIn(rows, s.low, s.high) /\ StartIn(rows, s.low, s.high) < s.high
    BY <1>1, <1>2, <2>2, <2>4, <2>5
  <2> QED BY <2>1, <2>6 DEF u
<1>12. CASE I # {}
  <2>1. e \in I /\ \A j \in I : e <= j
    BY <1>8, <1>12 DEF IsFirst
  <2>2. e \in k .. n /\ e \in 1 .. n /\ e # NotFound
    BY <1>6, <1>7, <2>1 DEF NotFound
  <2>3. rows[e].addr \in Nat /\ s.low <= rows[e].addr /\ rows[e].addr <= s.high
    BY <1>7, <1>10, <2>1, <2>2
  <2>4. rows[e].addr # s.high
    <3>1. SUFFICES ASSUME rows[e].addr = s.high
                   PROVE  FALSE
      OBVIOUS
    <3>2. rows[e].prologue_end
      BY <2>1
    <3>3. PICK x \in Within(s) : rows[x].prologue_end
      BY <1>4, <2>2, <3>1, <3>2
    <3>4. x \in I /\ x \in 1 .. n /\ rows[x].addr \in Nat /\ rows[x].addr < s.high
      BY <1>1, <1>3, <1>9, <3>3 DEF UnitFacts
    <3>5. e <= x
      BY <2>1, <3>4
    <3>6. rows[e].addr <= rows[x].addr
      <4>1. CASE e = x
        BY <3>4, <4>1
      <4>2. CASE e < x
        BY <1>1, <2>2, <3>4, <4>2 DEF UnitFacts
      <4> QED BY <2>2, <3>4, <3>5, <4>1, <4>2
    <3> QED BY <1>1, <3>1, <3>4, <3>6
  <2>5. e \in Within(s)
    BY <1>1, <1>3, <2>2, <2>3, <2>4
  <2>6. e \in W
    BY <2>1, <2>5
  <2>7. StartIn(rows, s.low, s.high) = rows[e].addr
    BY <1>5, <2>2
  <2> QED BY <2>6, <2>7 DEF u
<1> QED BY <1>11, <1>12

\* The table that is found: that of the unit that ends where the function
\* begins, if there is one, or the function's own.
LEMMA TableOfStart ==
  ASSUME prog \in Programs, InOrder,
         NEW s \in Range(prog.symbols), NEW i \in DOMAIN prog.units,
         FunctionLaidOut(s, prog.units[i]), OneFirstRow(s)
  PROVE  \E t \in DOMAIN prog.units :
           /\ IsFirst(t, {j \in DOMAIN prog.units :
                            IndexOfPc(prog.units[j].rows, s.low) # NotFound})
           /\ IF EndsAt(prog.units, s.low) THEN prog.units[t].high = s.low ELSE t = i
<1> DEFINE units == prog.units
           T == {j \in DOMAIN units : IndexOfPc(units[j].rows, s.low) # NotFound}
<1>1. /\ s.low \in Nat /\ s.high \in Nat /\ s.low < s.high
      /\ DOMAIN units \subseteq Nat /\ 0 \notin DOMAIN units
      /\ \A j \in DOMAIN units : UnitFacts(units[j])
  BY UnitsThere, UnitLaid, FunctionsThere
<1>2. units[i].low <= s.low /\ s.high <= units[i].high
  BY DEF FunctionLaidOut
<1>3. i \in T
  <2>1. Len(units[i].rows) \in Nat
    BY <1>1 DEF UnitFacts
  <2>2. IndexOfPc(units[i].rows, s.low) \in 1 .. Len(units[i].rows) - 1
    BY RowAtStart
  <2> QED BY <2>1, <2>2 DEF NotFound
<1>4. ASSUME NEW j \in DOMAIN units, j < i
      PROVE  units[j].high <= s.low
  <2>1. units[j].low < units[i].low
    BY <1>4 DEF InOrder
  <2>2. units[j].high <= units[i].low \/ units[i].high <= units[j].low
    BY <1>1, <1>4, UnitsThere
  <2>3. /\ units[j].low \in Nat /\ units[j].high \in Nat
        /\ units[i].low \in Nat /\ units[i].high \in Nat /\ units[i].low < units[i].high
    BY <1>1 DEF UnitFacts
  <2> QED BY <1>1, <1>2, <2>1, <2>2, <2>3
<1>5. ASSUME NEW j \in T, j < i
      PROVE  units[j].high = s.low
  <2>1. units[j].high <= s.low /\ ~(units[j].high < s.low)
    BY <1>1, <1>4, <1>5, BehindUnit
  <2>2. units[j].high \in Nat
    BY <1>1 DEF UnitFacts
  <2> QED BY <1>1, <2>1, <2>2
<1>6. PICK t \in T : \A j \in T : t <= j
  <2>1. T \in SUBSET Nat
    BY <1>1
  <2> HIDE DEF T
  <2> QED BY <1>3, <2>1, Least
<1>7. t \in Nat /\ i \in Nat /\ t <= i
  BY <1>1, <1>3, <1>6
<1>8. IsFirst(t, T)
  BY <1>6 DEF IsFirst
<1>9. CASE EndsAt(units, s.low)
  <2>1. PICK j \in DOMAIN units : units[j].high = s.low
    BY <1>9, UnitsThere DEF EndsAt
  <2>2. j < i
    <3>1. /\ units[j].low \in Nat /\ units[j].low < units[j].high
          /\ units[i].low \in Nat /\ units[i].high \in Nat
      BY <1>1 DEF UnitFacts
    <3>2. i # j
      BY <1>1, <1>2, <2>1, <3>1
    <3>3. ~(i < j)
      <4>1. i < j => units[i].low < units[j].low
        BY DEF InOrder
      <4>2. units[i].high <= units[j].low \/ units[j].high <= units[i].low
        BY <3>2, UnitsThere
      <4> QED BY <1>1, <1>2, <2>1, <3>1, <4>1, <4>2
    <3> QED BY <1>1, <3>2, <3>3
  <2>3. j \in T
    <3>1. IndexOfPc(units[j].rows, s.low) = Len(units[j].rows) /\ Len(units[j].rows) # 0
      BY <1>1, <2>1, BehindUnit DEF UnitFacts
    <3> QED BY <3>1 DEF NotFound
  <2>4. t < i
    BY <1>1, <1>6, <1>7, <2>2, <2>3
  <2> QED BY <1>5, <1>8, <1>9, <2>4
<1>10. CASE ~EndsAt(units, s.low)
  <2>1. ~(t < i)
    BY <1>5, <1>10, UnitsThere DEF EndsAt
  <2>2. t = i
    BY <1>7, <2>1
  <2> QED BY <1>8, <1>10, <2>2
<1> QED BY <1>9, <1>10

LEMMA StartFound ==
  ASSUME Answered, asked.kind = "start", FilesTellable, NamesTellable, InOrder,
         OneFirstRow(asked.func), \E x, y \in Within(asked.func) : x # y
  PROVE  BreaksBehindPrologue
<1> DEFINE s == asked.func
           n == SymbolFromName(prog.symbols, s.name)
<1>1. prog \in Programs /\ s \in Range(prog.symbols)
  BY DEF Answered
<1>2. n # NotFound /\ prog.symbols[n] = s
  <2>1. PICK j \in DOMAIN prog.symbols : prog.symbols[j] = s
    BY <1>1, FunctionsThere
  <2> DEFINE I == {k \in 1 .. Len(prog.symbols) : prog.symbols[k].name = s.name}
  <2>2. n \in DOMAIN prog.symbols /\ prog.symbols[n].name = s.name
    <3>1. IsFirst(n, I)
      BY <1>1, FunctionsThere, OfNameIs
    <3>2. j \in I
      BY <1>1, <2>1, FunctionsThere
    <3>3. n \in I
      BY <3>1, <3>2 DEF IsFirst
    <3> QED BY <1>1, <3>3, FunctionsThere
  <2>3. n = j
    BY <2>1, <2>2 DEF NamesTellable
  <2>4. n # NotFound
    BY <1>1, <2>2, FunctionsThere DEF NotFound
  <2> QED BY <2>1, <2>3, <2>4
<1>3. s.func /\ s.low \in Nat /\ s.high \in Nat /\ s.low < s.high
  BY <1>1, FunctionsThere
<1>4. answer = EffectiveStart(prog.units, s.low, s.high)
  BY <1>2, <1>3 DEF Answered, FunctionStart
<1> HIDE DEF n
<1>5. PICK i \in DOMAIN prog.units : FunctionLaidOut(s, prog.units[i])
  BY <1>1, FunctionsThere
<1>6. PICK t \in DOMAIN prog.units :
        /\ IsFirst(t, {j \in DOMAIN prog.units :
                         IndexOfPc(prog.units[j].rows, s.low) # NotFound})
        /\ IF EndsAt(prog.units, s.low) THEN prog.units[t].high = s.low ELSE t = i
  BY <1>1, <1>5, TableOfStart
<1>7. answer = StartIn(prog.units[t].rows, s.low, s.high)
  BY <1>1, <1>3, <1>4, <1>6, EffectiveStartIs
<1>8. CASE EndsAt(prog.units, s.low)
  <2>1. UnitFacts(prog.units[t]) /\ prog.units[t].high = s.low
    BY <1>1, <1>6, <1>8, UnitLaid
  <2>2. answer = s.low
    BY <1>3, <1>7, <2>1, StartBehindUnit
  <2> QED BY <1>8, <2>2 DEF BreaksBehindPrologue
<1>9. CASE ~EndsAt(prog.units, s.low)
  <2> DEFINE rows == prog.units[i].rows
             ends == {rows[x].addr : x \in {y \in Within(s) : rows[y].prologue_end}}
  <2>1. answer = StartIn(rows, s.low, s.high)
    BY <1>6, <1>7, <1>9
  <2>2. IF ends = {} THEN s.low < answer /\ answer < s.high ELSE answer \in ends
    BY <1>1, <1>5, <2>1, StartInFunction
  <2>3. RowsAt(s.low) = rows
    BY <1>1, <1>5, RowAtStart
  <2> QED BY <1>9, <2>2, <2>3 DEF BreaksBehindPrologue
<1> QED BY <1>8, <1>9

\* break <function> goes behind the prologue of that function, in every layout
\* with the units in order.
THEOREM BreakSkipsPrologue == Spec => []BreaksBehindPrologue
<1>1. Answered => BreaksBehindPrologue
  <2>1. \/ asked.kind # "start" \/ ~FilesTellable \/ ~NamesTellable \/ ~InOrder
        \/ ~OneFirstRow(asked.func) \/ ~(\E x, y \in Within(asked.func) : x # y)
        => BreaksBehindPrologue
    BY DEF BreaksBehindPrologue
  <2> QED BY <2>1, StartFound
<1> QED BY <1>1, AnswersToQuestions, PTL

=============================================================================
