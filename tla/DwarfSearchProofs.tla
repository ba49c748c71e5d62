------------------------- MODULE DwarfSearchProofs -------------------------
(***************************************************************************)
(* For files with any number of units and any trees of entries, and with   *)
(* failures anywhere: a search keeps its types, answers only at the start  *)
(* of both sections unless it fails, holds no two handles that are the     *)
(* same and none that is released, but by the callback, and leaks none of  *)
(* them when it finds nothing.                                             *)
(***************************************************************************)
EXTENDS DwarfSearch, SequenceTheorems, TLAPS

\* libdwarf's position stays inside its section, and behind its start while
\* the unit there is looked at.
Positions ==
  /\ \A s \in BOOLEAN : Start(s) <= at[s] /\ at[s] <= End(s)
  /\ phase = "cu" => Start(is_info) < at[is_info]

\* What .debug_info leaves behind when the search goes on in .debug_types.
InfoLeft == answer = "pending" /\ ~is_info => at[TRUE] = Start(TRUE)

\* The handles of one activation.
Handles(f) == {f.in, f.cur} \cup IF f.step = "call" THEN {f.child} ELSE {}

\* The activations fs, called with the entry c of the unit, are nested in the
\* order of the file, each with the child that its caller waits for, and all
\* their handles are among l.  The order is what keeps them apart.
Nested(fs, c, l) ==
  /\ c \in l
  /\ fs # <<>> => fs[1].in = c
  /\ \A i \in 1 .. Len(fs) :
       /\ Handles(fs[i]) \subseteq l /\ c <= fs[i].in /\ fs[i].in <= fs[i].cur
       /\ fs[i].step = "call" => fs[i].cur < fs[i].child
  /\ \A i, j \in 1 .. Len(fs) : i < j =>
       fs[i].step = "call" /\ fs[i].cur < fs[j].in /\ fs[i].child <= fs[j].in
  /\ \A i \in 1 .. Len(fs) - 1 : fs[i].child = fs[i + 1].in

\* No other handle is in l.
Covered(fs, c, l) ==
  \A e \in l : e = c \/ \E i \in 1 .. Len(fs) : e \in Handles(fs[i])

\* The handles that are allocated, or that the callback has released.
Known == live \cup types

\* HandlesHeld alone is not inductive: that a release hits nobody else's
\* handle follows from the nesting.
Chain ==
  answer = "pending" =>
    IF phase = "walk" THEN cu \in Entry /\ Nested(frames, cu, Known)
    ELSE frames = <<>> /\ ret = "none"

\* As long as nothing was found and nothing has failed, the walk knows every
\* handle.
NoLeak ==
  answer = "pending" /\ ~search_finished /\ ret \in {"none", "no_entry"} =>
    IF phase = "walk" THEN Covered(frames, cu, live) ELSE live = {}

\* The callback has released the handle of each entry whose type it builds, and
\* as long as nothing was found, it has turned all of them down.
TurnedDown ==
  /\ live \cap types = {} /\ typed \subseteq types
  /\ answer = "pending" /\ ~search_finished /\ ret \in {"none", "no_entry"} =>
       typed \cap want = {}

IInv == TypeOK /\ Positions /\ InfoLeft /\ Chain /\ NoLeak /\ TurnedDown

-----------------------------------------------------------------------------
(* Lemmas about the file. *)

\* The sections are consecutive ranges of units.
LEMMA SectionBounds ==
  ASSUME NEW s \in BOOLEAN
  PROVE  /\ Start(s) \in 0 .. NUnits /\ End(s) \in 0 .. NUnits /\ Start(s) <= End(s)
         /\ Start(s) \in Nat /\ End(s) \in Nat
BY SizesAssumption DEF Start, End

\* dwarf_siblingof_b yields the entry of the unit, which comes before the
\* other ones.
LEMMA CuEntryType ==
  ASSUME NEW u \in Unit
  PROVE  CuEntry(u) \in Entry
<1>1. \E e \in Entry : UnitOf[e] = u /\ Level[e] = 0
  BY TreeAssumption
<1> QED BY <1>1 DEF CuEntry

-----------------------------------------------------------------------------
(* Lemmas about the activations of sd_search_dwarf_die. *)

\* A frame can be replaced on top, put on top, and removed from there.
LEMMA FramesType ==
  ASSUME frames \in Seq(Frame)
  PROVE  /\ Callers \in Seq(Frame)
         /\ \A f \in Frame : Append(frames, f) \in Seq(Frame)
         /\ frames # <<>> =>
              /\ Len(frames) \in DOMAIN frames /\ Top \in Frame
              /\ \A f \in Frame : SetTop(f) \in Seq(Frame)
<1>1. /\ Len(frames) \in Nat /\ DOMAIN frames = 1 .. Len(frames)
      /\ \A i \in 1 .. Len(frames) : frames[i] \in Frame
  BY ElementOfSeq, LenProperties
<1>2. Callers \in Seq(Frame)
  BY <1>1, SubSeqProperties DEF Callers
<1>3. \A f \in Frame : Append(frames, f) \in Seq(Frame)
  OBVIOUS
<1>4. ASSUME frames # <<>>
      PROVE  /\ Len(frames) \in DOMAIN frames /\ Top \in Frame
             /\ \A f \in Frame : SetTop(f) \in Seq(Frame)
  <2>1. Len(frames) \in 1 .. Len(frames)
    BY <1>1, <1>4, EmptySeq
  <2>2. ASSUME NEW f \in Frame PROVE SetTop(f) \in Seq(Frame)
    BY <2>1, ExceptSeq DEF SetTop
  <2> QED BY <1>1, <2>1, <2>2 DEF Top
<1> QED BY <1>2, <1>3, <1>4

\* The fields of a frame keep their types when they are updated.
LEMMA FrameUpdates ==
  ASSUME NEW f \in Frame
  PROVE  /\ f.in \in Entry /\ f.cur \in Entry /\ f.child \in Entry \cup {Nobody}
         /\ f.level \in Nat /\ f.step \in {"child", "call", "sibling"}
         /\ [f EXCEPT !.step = "sibling"] \in Frame
         /\ [f EXCEPT !.step = "sibling", !.child = Nobody] \in Frame
         /\ \A e \in Entry : /\ [f EXCEPT !.step = "call", !.child = e] \in Frame
                             /\ [f EXCEPT !.cur = e, !.step = "child"] \in Frame
BY DEF Frame

\* The handles in a frame are numbered.
LEMMA FrameNumbers ==
  ASSUME NEW f \in Frame
  PROVE  f.in \in Int /\ f.cur \in Int /\ f.child \in Int
<1>1. Entry \subseteq Int /\ Nobody \in Int
  BY DEF Entry, Nobody
<1> QED BY <1>1, FrameUpdates

\* The same for the results of the call that enters an entry.
LEMMA EnterType ==
  ASSUME TypeOK, NEW e \in Entry, NEW l \in Nat, NEW callers \in Seq(Frame),
         Enter(callers, e, l)
  PROVE  /\ frames' \in Seq(Frame) /\ ret' \in Result \cup {"none"}
         /\ visited' \subseteq Entry /\ level' \in Nat /\ found' \in Entry \cup {Nobody}
         /\ from' \subseteq Unit /\ typed' \subseteq Entry
<1>1. [in |-> e, cur |-> e, child |-> Nobody, level |-> l, step |-> "child"] \in Frame
  BY DEF Frame
<1>2. frames' \in Seq(Frame)
  BY <1>1 DEF Enter
<1>3. ret' \in Result \cup {"none"}
  BY DEF Enter, Result
<1> QED BY <1>2, <1>3 DEF Enter, Callback, TypeOK

\* A call that fails counts at most one failure more.
LEMMA FailuresType ==
  ASSUME failures \in Nat, NEW c, Fails(c) \/ Succeeds(c)
  PROVE  failures' \in Nat
BY DEF Fails, Succeeds

-----------------------------------------------------------------------------
(* Type correctness. *)

\* What the actions leave alone keeps its type.
LEMMA InitType == Init => TypeOK
<1> SUFFICES ASSUME Init PROVE TypeOK
  OBVIOUS
<1>1. at \in [BOOLEAN -> 0 .. NUnits]
  BY SectionBounds DEF Init
<1>2. <<>> \in Seq(Frame)
  OBVIOUS
<1>3. broken \subseteq Calls
  BY DamagesAssumption DEF Init
<1> QED BY <1>1, <1>2, <1>3 DEF Init, TypeOK

\* dwarf_next_cu_header_d and the end of a section.
LEMMA HeaderType ==
  ASSUME TypeOK, Positions, HeaderFails \/ HeaderFound \/ InfoExhausted \/ TypesExhausted
  PROVE  TypeOK'
<1>1. failures' \in Nat
  BY FailuresType DEF TypeOK, HeaderFails, HeaderFound, InfoExhausted, TypesExhausted
<1>2. at' \in [BOOLEAN -> 0 .. NUnits]
  <2>1. CASE HeaderFails
    BY <2>1 DEF TypeOK, HeaderFails
  <2>2. CASE HeaderFound
    <3>1. is_info \in BOOLEAN /\ at[is_info] \in 0 .. NUnits
      BY DEF TypeOK
    <3>2. at[is_info] + 1 \in 0 .. NUnits
      BY <2>2, <3>1, SectionBounds, SizesAssumption DEF HeaderFound
    <3> QED BY <2>2, <3>1, <3>2 DEF TypeOK, HeaderFound
  <2>3. CASE InfoExhausted \/ TypesExhausted
    <3>1. Start(TRUE) \in 0 .. NUnits /\ Start(FALSE) \in 0 .. NUnits
      BY SectionBounds
    <3> QED BY <2>3, <3>1 DEF TypeOK, InfoExhausted, TypesExhausted
  <2> QED BY <2>1, <2>2, <2>3
<1>3. answer' \in Result \cup {"none", "pending"}
  BY DEF TypeOK, Result, HeaderFails, HeaderFound, InfoExhausted, TypesExhausted, Answer
<1>4. is_info' \in BOOLEAN /\ phase' \in {"header", "cu", "walk"}
  BY DEF TypeOK, HeaderFails, HeaderFound, InfoExhausted, TypesExhausted
<1> QED BY <1>1, <1>2, <1>3, <1>4
        DEF TypeOK, HeaderFails, HeaderFound, InfoExhausted, TypesExhausted,
            fileVars, callVars, histVars

\* The entry of the unit.
LEMMA CuType ==
  ASSUME TypeOK, Positions, CuFails \/ CuFound \/ CuReturns
  PROVE  TypeOK'
<1>1. failures' \in Nat
  BY FailuresType DEF TypeOK, CuFails, CuFound, CuReturns
<1>2. CASE CuFails
  BY <1>1, <1>2 DEF TypeOK, CuFails, Answer, Result, fileVars, callVars, histVars
<1>3. CASE CuFound
  <2>1. at[is_info] \in Unit
    BY <1>3, SectionBounds DEF TypeOK, Positions, CuFound, Unit
  <2>2. cu' \in Entry
    BY <1>3, <2>1, CuEntryType DEF CuFound
  <2>3. Enter(<<>>, cu', 0)
    BY <1>3 DEF CuFound
  <2>4. /\ frames' \in Seq(Frame) /\ ret' \in Result \cup {"none"}
        /\ visited' \subseteq Entry /\ level' \in Nat /\ found' \in Entry \cup {Nobody}
        /\ from' \subseteq Unit /\ typed' \subseteq Entry
    <3>1. <<>> \in Seq(Frame) /\ 0 \in Nat
      OBVIOUS
    <3> QED BY <2>2, <2>3, <3>1, EnterType
  <2>5. live' \subseteq Entry
    BY <1>3, <2>2 DEF CuFound, TypeOK, AfterCallback
  <2> QED BY <1>1, <1>3, <2>2, <2>4, <2>5 DEF TypeOK, CuFound, fileVars, callVars
<1>4. CASE CuReturns
  <2>1. /\ answer' \in Result \cup {"none", "pending"} /\ search_finished' \in BOOLEAN
        /\ cu' = Nobody /\ ret' = "none" /\ phase' = "header" /\ live' \subseteq Entry
    BY <1>4 DEF CuReturns, TypeOK, Result
  <2> QED BY <1>1, <1>4, <2>1 DEF TypeOK, CuReturns, fileVars, callVars, histVars
<1> QED BY <1>2, <1>3, <1>4

\* The search of the children of an entry.
LEMMA ChildType ==
  ASSUME TypeOK, ChildFails \/ ChildNone \/ ChildFound \/ ChildReturns
  PROVE  TypeOK'
<1>1. failures' \in Nat
  BY FailuresType DEF TypeOK, ChildFails, ChildNone, ChildFound, ChildReturns
<1>2. /\ frames # <<>> /\ frames \in Seq(Frame) /\ Callers \in Seq(Frame)
      /\ Top \in Frame /\ \A f \in Frame : SetTop(f) \in Seq(Frame)
  BY FramesType DEF TypeOK, Walking, ChildFails, ChildNone, ChildFound, ChildReturns
<1>3. CASE ChildFails
  BY <1>1, <1>2, <1>3 DEF TypeOK, ChildFails, Return, Result, fileVars, callVars, histVars
<1>4. CASE ChildNone
  <2>1. frames' \in Seq(Frame)
    BY <1>2, <1>4, FrameUpdates DEF ChildNone
  <2> QED BY <1>1, <1>4, <2>1 DEF TypeOK, ChildNone, fileVars, callVars, histVars
<1>5. CASE ChildFound
  <2>1. PICK c \in Children(Top.cur) :
          /\ live' = AfterCallback(live, c)
          /\ Enter(SetTop([Top EXCEPT !.step = "call", !.child = c]), c, Top.level + 1)
    BY <1>5 DEF ChildFound
  <2>2. c \in Entry /\ Top.level + 1 \in Nat
    <3>1. c \in Entry
      BY DEF Children
    <3>2. Top.level \in Nat
      BY <1>2, FrameUpdates
    <3> QED BY <3>1, <3>2
  <2>3. SetTop([Top EXCEPT !.step = "call", !.child = c]) \in Seq(Frame)
    BY <1>2, <2>2, FrameUpdates
  <2>4. /\ frames' \in Seq(Frame) /\ ret' \in Result \cup {"none"}
        /\ visited' \subseteq Entry /\ level' \in Nat /\ found' \in Entry \cup {Nobody}
        /\ from' \subseteq Unit /\ typed' \subseteq Entry
    BY <2>1, <2>2, <2>3, EnterType
  <2>5. live' \subseteq Entry
    BY <2>1, <2>2 DEF TypeOK, AfterCallback
  <2> QED BY <1>1, <1>5, <2>4, <2>5 DEF TypeOK, ChildFound, fileVars, callVars
<1>6. CASE ChildReturns
  <2>1. frames' \in Seq(Frame)
    BY <1>2, <1>6, FrameUpdates DEF ChildReturns
  <2>2. live' \subseteq Entry /\ ret' \in Result \cup {"none"}
    BY <1>6 DEF TypeOK, ChildReturns
  <2> QED BY <1>1, <1>6, <2>1, <2>2 DEF TypeOK, ChildReturns, fileVars, callVars, histVars
<1> QED BY <1>3, <1>4, <1>5, <1>6

\* The search of the siblings of an entry.
LEMMA SiblingType ==
  ASSUME TypeOK, SiblingFails \/ SiblingNone \/ SiblingFound
  PROVE  TypeOK'
<1>1. failures' \in Nat
  BY FailuresType DEF TypeOK, SiblingFails, SiblingNone, SiblingFound
<1>2. /\ frames # <<>> /\ frames \in Seq(Frame) /\ Callers \in Seq(Frame)
      /\ Top \in Frame /\ \A f \in Frame : SetTop(f) \in Seq(Frame)
  BY FramesType DEF TypeOK, Walking, SiblingFails, SiblingNone, SiblingFound
<1>3. WithoutCur \subseteq Entry
  BY DEF TypeOK, WithoutCur
<1>4. CASE SiblingFails
  BY <1>1, <1>2, <1>3, <1>4 DEF TypeOK, SiblingFails, Return, Result, fileVars, callVars, histVars
<1>5. CASE SiblingNone
  BY <1>1, <1>2, <1>3, <1>5 DEF TypeOK, SiblingNone, Return, Result, fileVars, callVars, histVars
<1>6. CASE SiblingFound
  <2>1. PICK s \in Siblings(Top.cur) :
          /\ live' = AfterCallback(WithoutCur, s)
          /\ Callback(s, Top.level)
          /\ IF s \in want THEN Return("ok")
             ELSE /\ frames' = SetTop([Top EXCEPT !.cur = s, !.step = "child"])
                  /\ UNCHANGED ret
    BY <1>6 DEF SiblingFound
  <2>2. s \in Entry /\ Top.level \in Nat
    BY <1>2, FrameUpdates DEF Siblings
  <2>3. [Top EXCEPT !.cur = s, !.step = "child"] \in Frame
    BY <1>2, <2>2, FrameUpdates
  <2>4. frames' \in Seq(Frame) /\ ret' \in Result \cup {"none"}
    BY <1>2, <2>1, <2>3 DEF Return, Result, TypeOK
  <2>5. live' \subseteq Entry
    BY <1>3, <2>1, <2>2 DEF AfterCallback
  <2>6. /\ visited' \subseteq Entry /\ level' \in Nat /\ found' \in Entry \cup {Nobody}
        /\ from' \subseteq Unit /\ typed' \subseteq Entry
    BY <2>1, <2>2 DEF Callback, TypeOK
  <2> QED BY <1>1, <1>6, <2>4, <2>5, <2>6 DEF TypeOK, SiblingFound, fileVars, callVars
<1> QED BY <1>4, <1>5, <1>6

\* The callers of the search.
LEMMA CallerType ==
  ASSUME TypeOK, IsValidCompiler \/ DwarfInit \/ Ask \/ Refused
  PROVE  TypeOK'
<1>1. CASE DwarfInit \/ Refused
  BY <1>1 DEF TypeOK, DwarfInit, Refused, fileVars, histVars
<1>2. ASSUME NEW w \in [accepts : SUBSET Entry, types : SUBSET Entry], Search(w), dbg' \in {"closed", "opening", "open", "refused"}
      PROVE  TypeOK'
  <2>1. <<>> \in Seq(Frame)
    OBVIOUS
  <2>2. from' \subseteq Unit
    BY <1>2 DEF Search, Ahead
  <2> QED BY <1>2, <2>1, <2>2 DEF TypeOK, Search, Nobody
<1>3. CASE IsValidCompiler
  <2>1. [accepts |-> {CuEntry(u) : u \in foreign}, types |-> {}]
          \in [accepts : SUBSET Entry, types : SUBSET Entry]
    <3> DEFINE w == {CuEntry(u) : u \in foreign}
    <3>1. w \in SUBSET Entry
      BY CuEntryType, SizesAssumption DEF TypeOK, Unit
    <3> HIDE DEF w
    <3>2. [accepts |-> w, types |-> {}] \in [accepts : SUBSET Entry, types : SUBSET Entry]
      BY <3>1
    <3> QED BY <3>2 DEF w
  <2> QED BY <1>2, <1>3, <2>1 DEF IsValidCompiler
<1>4. CASE Ask
  BY <1>2, <1>4, WantedAssumption DEF Ask, TypeOK
<1> QED BY <1>1, <1>3, <1>4

\* Every step keeps the types.
LEMMA NextType == TypeOK /\ Positions /\ [Next]_vars => TypeOK'
<1>1. ASSUME TypeOK, UNCHANGED vars PROVE TypeOK'
  BY <1>1 DEF TypeOK, vars
<1> QED BY <1>1, HeaderType, CuType, ChildType, SiblingType, CallerType DEF Next, Step

-----------------------------------------------------------------------------
(* The position of libdwarf. *)

\* Initially libdwarf is at the start of both sections.
LEMMA InitPositions == Init => Positions /\ InfoLeft
BY SectionBounds DEF Init, Positions, InfoLeft

\* The search moves forward inside a section, and back to its start only when
\* it has read all of it.
LEMMA NextPositions ==
  ASSUME TypeOK, Positions, InfoLeft, [Next]_vars
  PROVE  Positions' /\ InfoLeft'
<1> USE DEF Positions, InfoLeft
<1>1. CASE HeaderFound
  <2>1. is_info \in BOOLEAN /\ at \in [BOOLEAN -> 0 .. NUnits]
    BY DEF TypeOK
  <2>2. at[is_info] < End(is_info) /\ at' = [at EXCEPT ![is_info] = @ + 1] /\ is_info' = is_info
    BY <1>1 DEF HeaderFound
  <2>3. Start(is_info) \in Nat /\ End(is_info) \in Nat /\ at[is_info] \in Nat
    BY <2>1, SectionBounds
  <2>4. /\ Start(is_info) < at'[is_info] /\ Start(is_info) <= at'[is_info]
        /\ at'[is_info] <= End(is_info)
    BY <2>1, <2>2, <2>3
  <2>5. ASSUME NEW s \in BOOLEAN PROVE Start(s) <= at'[s] /\ at'[s] <= End(s)
    <3>1. CASE s = is_info
      BY <2>4, <3>1, Zenon
    <3>2. CASE s # is_info
      <4>1. at'[s] = at[s]
        BY <2>1, <2>2, <3>2, Zenon
      <4> QED BY <4>1, Zenon
    <3> QED BY <3>1, <3>2
  <2>6. InfoLeft'
    <3>1. CASE is_info = FALSE
      <4>1. at'[TRUE] = at[TRUE] /\ answer' = answer
        BY <1>1, <2>1, <2>2, <3>1 DEF HeaderFound
      <4>2. ~is_info
        BY <3>1
      <4> QED BY <4>1, <4>2, Zenon
    <3>2. CASE is_info = TRUE
      BY <2>2, <3>2
    <3> QED BY <2>1, <3>1, <3>2
  <2> QED BY <2>2, <2>4, <2>5, <2>6
<1>2. CASE InfoExhausted
  <2>1. at' = [at EXCEPT ![TRUE] = Start(TRUE)] /\ phase' # "cu"
    BY <1>2 DEF InfoExhausted
  <2>2. at'[TRUE] = Start(TRUE) /\ at'[FALSE] = at[FALSE]
    BY <2>1 DEF TypeOK
  <2>3. Start(TRUE) <= Start(TRUE) /\ Start(TRUE) <= End(TRUE)
    BY SizesAssumption DEF Start, End
  <2>4. ASSUME NEW s \in BOOLEAN PROVE Start(s) <= at'[s] /\ at'[s] <= End(s)
    <3>1. CASE s = TRUE
      BY <2>2, <2>3, <3>1
    <3>2. CASE s = FALSE
      BY <2>2, <3>2
    <3> QED BY <3>1, <3>2
  <2> QED BY <2>1, <2>2, <2>4
<1>3. CASE TypesExhausted
  <2>1. at' = [at EXCEPT ![FALSE] = Start(FALSE)] /\ phase' # "cu" /\ answer' # "pending"
    BY <1>3 DEF TypesExhausted, Answer
  <2>2. at'[FALSE] = Start(FALSE) /\ at'[TRUE] = at[TRUE]
    BY <2>1 DEF TypeOK
  <2>3. Start(FALSE) <= Start(FALSE) /\ Start(FALSE) <= End(FALSE)
    BY SizesAssumption DEF Start, End
  <2>4. ASSUME NEW s \in BOOLEAN PROVE Start(s) <= at'[s] /\ at'[s] <= End(s)
    <3>1. CASE s = FALSE
      BY <2>2, <2>3, <3>1
    <3>2. CASE s = TRUE
      BY <2>2, <3>2
    <3> QED BY <3>1, <3>2
  <2> QED BY <2>1, <2>2, <2>4
<1>4. CASE HeaderFails \/ CuFails
  BY <1>4 DEF HeaderFails, CuFails, Answer
<1>5. CASE CuFound \/ CuReturns
  BY <1>5 DEF CuFound, CuReturns
<1>6. CASE ChildFails \/ ChildNone \/ ChildFound \/ ChildReturns
  BY <1>6 DEF ChildFails, ChildNone, ChildFound, ChildReturns
<1>7. CASE SiblingFails \/ SiblingNone \/ SiblingFound
  BY <1>7 DEF SiblingFails, SiblingNone, SiblingFound
<1>8. CASE IsValidCompiler \/ Ask
  BY <1>8 DEF IsValidCompiler, Ask, Search
<1>9. CASE DwarfInit \/ Refused
  BY <1>9 DEF DwarfInit, Refused
<1>10. CASE UNCHANGED vars
  BY <1>10 DEF vars
<1> QED BY <1>1, <1>2, <1>3, <1>4, <1>5, <1>6, <1>7, <1>8, <1>9, <1>10 DEF Next, Step

\* Both sections have been read to their ends when a search that has not
\* failed answers, and nobody moves libdwarf between two searches.
LEMMA NextAnswer ==
  ASSUME TypeOK, InfoLeft, AnswerLeavesStart, [Next]_vars
  PROVE  AnswerLeavesStart'
<1> USE DEF AnswerLeavesStart
<1>1. CASE TypesExhausted
  <2>1. at[TRUE] = Start(TRUE) /\ at' = [at EXCEPT ![FALSE] = Start(FALSE)]
    BY <1>1 DEF InfoLeft, TypesExhausted
  <2> QED BY <2>1 DEF TypeOK
<1>2. CASE HeaderFails \/ CuFails \/ HeaderFound \/ InfoExhausted \/ CuFound \/ CuReturns
  BY <1>2 DEF HeaderFails, CuFails, HeaderFound, InfoExhausted, CuFound, CuReturns, Answer
<1>3. CASE ChildFails \/ ChildNone \/ ChildFound \/ ChildReturns
  BY <1>3 DEF ChildFails, ChildNone, ChildFound, ChildReturns
<1>4. CASE SiblingFails \/ SiblingNone \/ SiblingFound
  BY <1>4 DEF SiblingFails, SiblingNone, SiblingFound
<1>5. CASE IsValidCompiler \/ Ask \/ DwarfInit \/ Refused
  BY <1>5 DEF IsValidCompiler, Ask, DwarfInit, Refused, Search
<1>6. CASE UNCHANGED vars
  BY <1>6 DEF vars
<1> QED BY <1>1, <1>2, <1>3, <1>4, <1>5, <1>6 DEF Next, Step

-----------------------------------------------------------------------------
(* Handles. *)

\* All activations but the innermost one.
LEMMA PopSeq ==
  ASSUME NEW fs \in Seq(Frame), fs # <<>>
  PROVE  /\ Len(SubSeq(fs, 1, Len(fs) - 1)) = Len(fs) - 1
         /\ \A i \in 1 .. Len(fs) - 1 : SubSeq(fs, 1, Len(fs) - 1)[i] = fs[i]
<1> DEFINE n == Len(fs)
           gs == SubSeq(fs, 1, n - 1)
<1>1. /\ n \in Nat /\ n >= 1
      /\ \A i \in 1 .. n : fs[i] \in Frame
  BY EmptySeq, ElementOfSeq, LenProperties
<1>2. 1 \in Int /\ n - 1 \in Int /\ \A i \in 1 .. n - 1 : fs[i] \in Frame
  BY <1>1
<1>3. /\ Len(gs) = IF 1 <= n - 1 THEN (n - 1) - 1 + 1 ELSE 0
      /\ \A i \in 1 .. (n - 1) - 1 + 1 : gs[i] = fs[1 + i - 1]
  BY <1>2, SubSeqProperties
<1>4. n \in Nat /\ n >= 1
  BY <1>1
<1> HIDE DEF gs, n
<1>5. Len(gs) = n - 1
  BY <1>3, <1>4
<1>6. ASSUME NEW i \in 1 .. n - 1 PROVE gs[i] = fs[i]
  <2>1. i \in 1 .. (n - 1) - 1 + 1 /\ 1 + i - 1 = i
    BY <1>4
  <2> QED BY <1>3, <2>1
<1> QED BY <1>5, <1>6 DEF gs, n

\* An activation returns and at most handles behind its first entry are
\* released.
LEMMA PopNested ==
  ASSUME NEW fs \in Seq(Frame), fs # <<>>, NEW c \in Entry, NEW l \in SUBSET Entry,
         NEW m \in SUBSET Entry, Nested(fs, c, l),
         \A e \in l : e \in m \/ fs[Len(fs)].in < e
  PROVE  Nested(SubSeq(fs, 1, Len(fs) - 1), c, m)
<1> DEFINE n == Len(fs)
           gs == SubSeq(fs, 1, n - 1)
<1>1. /\ n \in Nat /\ n >= 1
      /\ \A i \in 1 .. n : fs[i] \in Frame
  BY EmptySeq, ElementOfSeq, LenProperties
<1>2. Len(gs) = n - 1 /\ \A i \in 1 .. n - 1 : gs[i] = fs[i]
  BY PopSeq
<1>3. /\ \A i \in 1 .. n : fs[i].in \in Int /\ fs[i].cur \in Int /\ fs[i].child \in Int
      /\ c \in Int
  BY <1>1, FrameNumbers DEF Entry
<1>4. c \in m
  BY <1>1, <1>3 DEF Nested
<1>5. ASSUME NEW i \in 1 .. n - 1 PROVE Handles(gs[i]) \subseteq m
  <2>1. /\ fs[i].step = "call" /\ fs[i].cur < fs[n].in /\ fs[i].child <= fs[n].in
        /\ fs[i].in <= fs[i].cur /\ Handles(fs[i]) \subseteq l
    BY <1>1 DEF Nested
  <2>2. Handles(fs[i]) = {fs[i].in, fs[i].cur, fs[i].child}
    BY <2>1 DEF Handles
  <2>3. fs[i].in \in m /\ fs[i].cur \in m /\ fs[i].child \in m
    BY <1>1, <1>3, <2>1, <2>2
  <2> QED BY <1>2, <2>2, <2>3
<1>6. gs # <<>> => gs[1].in = c
  BY <1>1, <1>2 DEF Nested
<1> HIDE DEF gs
<1>7. /\ \A i \in 1 .. Len(gs) :
           /\ c <= gs[i].in /\ gs[i].in <= gs[i].cur
           /\ gs[i].step = "call" => gs[i].cur < gs[i].child
      /\ \A i, j \in 1 .. Len(gs) : i < j =>
           gs[i].step = "call" /\ gs[i].cur < gs[j].in /\ gs[i].child <= gs[j].in
      /\ \A i \in 1 .. Len(gs) - 1 : gs[i].child = gs[i + 1].in
  BY <1>1, <1>2 DEF Nested
<1>8. Nested(gs, c, m)
  BY <1>2, <1>4, <1>5, <1>6, <1>7 DEF Nested
<1> QED BY <1>8 DEF gs

\* The innermost activation goes on.
LEMMA ReplaceNested ==
  ASSUME NEW fs \in Seq(Frame), fs # <<>>, NEW c \in Entry, NEW l \in SUBSET Entry,
         NEW m \in SUBSET Entry, Nested(fs, c, l),
         \A e \in l : e \in m \/ fs[Len(fs)].in < e,
         NEW g \in Frame, g.in = fs[Len(fs)].in, g.in <= g.cur, g.cur \in m,
         g.step = "call" => g.cur < g.child /\ g.child \in m
  PROVE  Nested([fs EXCEPT ![Len(fs)] = g], c, m)
<1> DEFINE n == Len(fs)
           gs == [fs EXCEPT ![n] = g]
<1>1. /\ n \in Nat /\ n >= 1
      /\ \A i \in 1 .. n : fs[i] \in Frame
  BY EmptySeq, ElementOfSeq, LenProperties
<1>2. Len(gs) = n /\ \A i \in 1 .. n : gs[i] = IF i = n THEN g ELSE fs[i]
  BY <1>1, ExceptSeq
<1>3. /\ \A i \in 1 .. n : fs[i].in \in Int /\ fs[i].cur \in Int /\ fs[i].child \in Int
      /\ c \in Int
  BY <1>1, FrameNumbers DEF Entry
<1>4. c \in m
  BY <1>1, <1>3 DEF Nested
<1>5. ASSUME NEW i \in 1 .. n PROVE Handles(gs[i]) \subseteq m
  <2>1. CASE i = n
    <3>1. fs[n].in \in m
      <4>1. fs[n].in \in Handles(fs[n])
        BY DEF Handles
      <4>2. fs[n].in \in l /\ fs[n].in \in Int
        BY <1>1, <1>3, <4>1 DEF Nested
      <4> QED BY <4>2
    <3> QED BY <1>2, <2>1, <3>1 DEF Handles
  <2>2. CASE i # n
    <3>1. /\ fs[i].step = "call" /\ fs[i].cur < fs[n].in /\ fs[i].child <= fs[n].in
          /\ fs[i].in <= fs[i].cur /\ Handles(fs[i]) \subseteq l
      BY <1>1, <2>2 DEF Nested
    <3>2. Handles(fs[i]) = {fs[i].in, fs[i].cur, fs[i].child}
      BY <3>1 DEF Handles
    <3>3. fs[i].in \in m /\ fs[i].cur \in m /\ fs[i].child \in m
      BY <1>1, <1>3, <3>1, <3>2
    <3> QED BY <1>2, <2>2, <3>2, <3>3
  <2> QED BY <2>1, <2>2
<1>6. gs # <<>> => gs[1].in = c
  BY <1>1, <1>2 DEF Nested
<1> HIDE DEF gs
<1>7. \A i \in 1 .. Len(gs) :
        /\ c <= gs[i].in /\ gs[i].in <= gs[i].cur
        /\ gs[i].step = "call" => gs[i].cur < gs[i].child
  BY <1>1, <1>2 DEF Nested
<1>8. \A i, j \in 1 .. Len(gs) : i < j =>
        gs[i].step = "call" /\ gs[i].cur < gs[j].in /\ gs[i].child <= gs[j].in
  BY <1>1, <1>2 DEF Nested
<1>9. \A i \in 1 .. Len(gs) - 1 : gs[i].child = gs[i + 1].in
  BY <1>1, <1>2 DEF Nested
<1>10. Nested(gs, c, m)
  BY <1>2, <1>4, <1>5, <1>6, <1>7, <1>8, <1>9 DEF Nested
<1> QED BY <1>10 DEF gs

\* The innermost activation calls another one for its child.
LEMMA PushNested ==
  ASSUME NEW fs \in Seq(Frame), fs # <<>>, NEW c \in Entry, NEW l \in SUBSET Entry,
         Nested(fs, c, l), fs[Len(fs)].step = "call",
         NEW f \in Frame, f.in = fs[Len(fs)].child, f.cur = f.in, f.step # "call"
  PROVE  Nested(Append(fs, f), c, l)
<1> DEFINE n == Len(fs)
           gs == Append(fs, f)
<1>1. /\ n \in Nat /\ n >= 1
      /\ \A i \in 1 .. n : fs[i] \in Frame
  BY EmptySeq, ElementOfSeq, LenProperties
<1>2. Len(gs) = n + 1 /\ \A i \in 1 .. n + 1 : gs[i] = IF i = n + 1 THEN f ELSE fs[i]
  BY <1>1
<1>3. /\ \A i \in 1 .. n : fs[i].in \in Int /\ fs[i].cur \in Int /\ fs[i].child \in Int
      /\ c \in Int
  BY <1>1, FrameNumbers DEF Entry
<1>4. f.in \in l
  BY <1>1 DEF Nested, Handles
<1> HIDE DEF gs
<1>5. ASSUME NEW i \in 1 .. n + 1 PROVE Handles(gs[i]) \subseteq l
  <2>1. CASE i = n + 1
    BY <1>2, <1>4, <2>1 DEF Handles
  <2>2. CASE i # n + 1
    <3>1. i \in 1 .. n /\ gs[i] = fs[i]
      BY <1>1, <1>2, <2>2
    <3> QED BY <3>1 DEF Nested
  <2> QED BY <2>1, <2>2
<1>6. c \in l /\ (gs # <<>> => gs[1].in = c)
  BY <1>1, <1>2 DEF Nested
<1>7. /\ fs[n].in <= fs[n].cur /\ fs[n].cur < fs[n].child /\ c <= fs[n].in
      /\ \A i \in 1 .. n : i < n =>
           fs[i].step = "call" /\ fs[i].cur < fs[n].in /\ fs[i].child <= fs[n].in
  BY <1>1 DEF Nested
<1>8. ASSUME NEW i \in 1 .. n
      PROVE  fs[i].step = "call" /\ fs[i].cur < f.in /\ fs[i].child <= f.in
  <2>1. n \in 1 .. n /\ f.in \in Int
    BY <1>1, <1>3
  <2>2. CASE i = n
    BY <1>3, <1>7, <2>1, <2>2
  <2>3. CASE i # n
    <3>1. fs[i].step = "call" /\ fs[i].cur < fs[n].in /\ fs[i].child <= fs[n].in
      BY <1>1, <1>7, <2>3
    <3>2. /\ fs[i].cur \in Int /\ fs[i].child \in Int
          /\ fs[n].in \in Int /\ fs[n].cur \in Int
      BY <1>3, <2>1
    <3> QED BY <1>7, <2>1, <3>1, <3>2
  <2> QED BY <2>2, <2>3
<1>9. c <= f.in
  BY <1>1, <1>3, <1>7
<1>10. \A i \in 1 .. Len(gs) :
        /\ c <= gs[i].in /\ gs[i].in <= gs[i].cur
        /\ gs[i].step = "call" => gs[i].cur < gs[i].child
  BY <1>1, <1>2, <1>3, <1>9 DEF Nested
<1>11. \A i, j \in 1 .. Len(gs) : i < j =>
        gs[i].step = "call" /\ gs[i].cur < gs[j].in /\ gs[i].child <= gs[j].in
  BY <1>1, <1>2, <1>8 DEF Nested
<1>12. \A i \in 1 .. Len(gs) - 1 : gs[i].child = gs[i + 1].in
  BY <1>1, <1>2 DEF Nested
<1>13. Nested(gs, c, l)
  BY <1>2, <1>5, <1>6, <1>10, <1>11, <1>12 DEF Nested
<1> QED BY <1>13 DEF gs

\* The search of a unit starts with one activation.
LEMMA FirstNested ==
  ASSUME NEW c \in Entry, NEW l \in SUBSET Entry, c \in l,
         NEW f \in Frame, f.in = c, f.cur = c, f.step # "call"
  PROVE  Nested(<<>>, c, l) /\ Nested(Append(<<>>, f), c, l)
<1>1. Nested(<<>>, c, l)
  BY DEF Nested
<1> DEFINE gs == Append(<<>>, f)
<1>2. Len(gs) = 1 /\ gs[1] = f
  OBVIOUS
<1> HIDE DEF gs
<1>3. Handles(f) \subseteq l /\ c \in Int
  BY DEF Handles, Entry
<1>4. Nested(gs, c, l)
  BY <1>2, <1>3 DEF Nested
<1> QED BY <1>1, <1>4 DEF gs

\* An activation that returns without a child has left the handle that its
\* caller knows.
LEMMA PopCovered ==
  ASSUME NEW fs \in Seq(Frame), fs # <<>>, NEW c \in Entry, NEW l \in SUBSET Entry,
         NEW k \in SUBSET Entry,
         NEW m \in SUBSET l, Nested(fs, c, k), Covered(fs, c, l),
         fs[Len(fs)].step # "call",
         fs[Len(fs)].cur \in m => fs[Len(fs)].cur = fs[Len(fs)].in
  PROVE  Covered(SubSeq(fs, 1, Len(fs) - 1), c, m)
<1> DEFINE n == Len(fs)
           gs == SubSeq(fs, 1, n - 1)
<1>1. n \in Nat /\ n >= 1 /\ n \in 1 .. n
  BY EmptySeq, LenProperties
<1>2. Len(gs) = n - 1 /\ \A i \in 1 .. n - 1 : gs[i] = fs[i]
  BY PopSeq
<1> HIDE DEF gs, n
<1> SUFFICES ASSUME NEW e \in m, e # c
             PROVE  \E i \in 1 .. Len(gs) : e \in Handles(gs[i])
  BY DEF Covered, gs, n
<1>3. PICK i \in 1 .. n : e \in Handles(fs[i])
  BY DEF Covered, n
<1>4. CASE i = n
  <2>1. e = fs[n].in
    BY <1>3, <1>4 DEF Handles, n
  <2>2. n # 1
    BY <1>1, <2>1 DEF Nested, n
  <2>3. n - 1 \in 1 .. n - 1 /\ n - 1 \in 1 .. n /\ n - 1 < n /\ (n - 1) + 1 = n
    BY <1>1, <2>2
  <2>4. fs[n - 1].child = fs[n].in /\ fs[n - 1].step = "call"
    <3>1. \A h \in 1 .. n - 1 : fs[h].child = fs[h + 1].in
      BY DEF Nested, n
    <3>2. \A h, j \in 1 .. n : h < j => fs[h].step = "call"
      BY DEF Nested, n
    <3> QED BY <1>1, <2>3, <3>1, <3>2
  <2>5. e \in Handles(gs[n - 1])
    BY <1>2, <2>1, <2>3, <2>4 DEF Handles
  <2> QED BY <1>2, <2>3, <2>5
<1>5. CASE i # n
  <2>1. i \in 1 .. n - 1
    BY <1>1, <1>5
  <2> QED BY <1>2, <1>3, <2>1
<1> QED BY <1>4, <1>5

\* Only the handles of the innermost activation change.
LEMMA ReplaceCovered ==
  ASSUME NEW fs \in Seq(Frame), fs # <<>>, NEW c \in Entry, NEW l \in SUBSET Entry,
         NEW m \in SUBSET Entry, Covered(fs, c, l), NEW g \in Frame,
         \A e \in m : e \in Handles(g) \/ (e \in l /\ e \notin Handles(fs[Len(fs)]))
  PROVE  Covered([fs EXCEPT ![Len(fs)] = g], c, m)
<1> DEFINE n == Len(fs)
           gs == [fs EXCEPT ![n] = g]
<1>1. n \in Nat /\ n >= 1 /\ n \in 1 .. n /\ \A i \in 1 .. n : fs[i] \in Frame
  BY EmptySeq, ElementOfSeq, LenProperties
<1>2. Len(gs) = n /\ \A i \in 1 .. n : gs[i] = IF i = n THEN g ELSE fs[i]
  BY <1>1, ExceptSeq
<1> HIDE DEF gs, n
<1> SUFFICES ASSUME NEW e \in m, e # c
             PROVE  \E i \in 1 .. Len(gs) : e \in Handles(gs[i])
  BY DEF Covered, gs, n
<1>3. CASE e \in Handles(g)
  BY <1>1, <1>2, <1>3
<1>4. CASE e \in l /\ e \notin Handles(fs[n])
  <2>1. PICK i \in 1 .. n : e \in Handles(fs[i])
    BY <1>4 DEF Covered, n
  <2> QED BY <1>2, <1>4, <2>1
<1> QED BY <1>3, <1>4 DEF n

\* One activation more knows what the others know.
LEMMA PushCovered ==
  ASSUME NEW fs \in Seq(Frame), NEW c \in Entry, NEW l \in SUBSET Entry,
         Covered(fs, c, l), NEW f \in Frame
  PROVE  Covered(Append(fs, f), c, l)
<1> DEFINE n == Len(fs)
           gs == Append(fs, f)
<1>1. n \in Nat /\ Len(gs) = n + 1 /\ \A i \in 1 .. n : gs[i] = fs[i]
  OBVIOUS
<1> HIDE DEF gs, n
<1> SUFFICES ASSUME NEW e \in l, e # c
             PROVE  \E i \in 1 .. Len(gs) : e \in Handles(gs[i])
  BY DEF Covered, gs, n
<1>2. PICK i \in 1 .. n : e \in Handles(fs[i])
  BY DEF Covered, n
<1>3. i \in 1 .. n + 1
  BY <1>1
<1> QED BY <1>1, <1>2, <1>3

-----------------------------------------------------------------------------
(* The steps keep the chain of the handles. *)

\* The innermost activation holds its handles, and they are in the order of
\* the file.
LEMMA TopHandles ==
  ASSUME TypeOK, frames # <<>>, Nested(frames, cu, Known)
  PROVE  /\ Top \in Frame /\ Top = frames[Len(frames)]
         /\ Top.in \in Int /\ Top.cur \in Int /\ Top.child \in Int
         /\ Top.in \in Known /\ Top.cur \in Known /\ Top.in <= Top.cur
         /\ Top.step = "call" => Top.child \in Known /\ Top.cur < Top.child
<1>1. Top \in Frame /\ frames \in Seq(Frame)
  BY FramesType DEF TypeOK
<1>2. Len(frames) \in 1 .. Len(frames)
  BY <1>1, EmptySeq, LenProperties
<1>3. /\ Handles(Top) \subseteq Known /\ Top.in <= Top.cur
      /\ Top.step = "call" => Top.cur < Top.child
  BY <1>2 DEF Nested, Top
<1> QED BY <1>1, <1>3, FrameNumbers DEF Handles, Top

\* The innermost activation calls sd_search_dwarf_die: either the entry is the
\* one that is wanted, or there is one activation more.
LEMMA EnterChain ==
  ASSUME NEW callers \in Seq(Frame), NEW c \in Entry, NEW l \in SUBSET Entry,
         NEW m \in SUBSET Entry,
         NEW e \in Entry, NEW d \in Nat, Enter(callers, e, d),
         Nested(callers, c, l),
         \/ callers = <<>> /\ e = c
         \/ /\ callers # <<>>
            /\ callers[Len(callers)].step = "call" /\ callers[Len(callers)].child = e
  PROVE  /\ Nested(frames', c, l)
         /\ ret' = "none" /\ Covered(callers, c, m) => Covered(frames', c, m)
         /\ ret' \in {"none", "ok"}
<1> DEFINE f == [in |-> e, cur |-> e, child |-> Nobody, level |-> d, step |-> "child"]
<1>1. f \in Frame /\ f.in = e /\ f.cur = e /\ f.step # "call"
  BY DEF Frame
<1>2. frames' = IF e \in want THEN callers ELSE Append(callers, f)
  BY DEF Enter
<1>3. ret' = IF e \in want THEN "ok" ELSE "none"
  BY DEF Enter
<1> HIDE DEF f
<1>4. Nested(Append(callers, f), c, l)
  <2>1. CASE callers = <<>> /\ e = c
    BY <1>1, <2>1, FirstNested DEF Nested
  <2>2. CASE /\ callers # <<>>
             /\ callers[Len(callers)].step = "call" /\ callers[Len(callers)].child = e
    BY <1>1, <2>2, PushNested
  <2> QED BY <2>1, <2>2
<1>5. Covered(callers, c, m) => Covered(Append(callers, f), c, m)
  BY <1>1, PushCovered
<1> QED BY <1>2, <1>3, <1>4, <1>5

\* The search of a unit begins with one handle and ends with its release.
LEMMA CuChain ==
  ASSUME TypeOK, Positions, Chain, NoLeak, CuFound \/ CuReturns
  PROVE  Chain' /\ NoLeak'
<1>1. CASE CuFound
  <2>1. at[is_info] \in Unit
    BY <1>1, SectionBounds DEF TypeOK, Positions, CuFound, Unit
  <2>2. cu' \in Entry /\ live' = AfterCallback(live, cu') /\ Enter(<<>>, cu', 0)
    BY <1>1, <2>1, CuEntryType DEF CuFound
  <2>3. /\ <<>> \in Seq(Frame) /\ 0 \in Nat
        /\ live' \in SUBSET Entry /\ Known' \in SUBSET Entry /\ cu' \in Known'
    <3>1. types' = types
      BY <1>1 DEF CuFound, callVars
    <3> QED BY <2>2, <3>1 DEF TypeOK, AfterCallback, Known
  <2>4. Nested(<<>>, cu', Known')
    BY <2>3 DEF Nested
  <2>5. /\ Nested(frames', cu', Known')
        /\ ret' = "none" /\ Covered(<<>>, cu', live') => Covered(frames', cu', live')
        /\ ret' \in {"none", "ok"}
    BY <2>2, <2>3, <2>4, EnterChain
  <2>6. /\ phase' = "walk" /\ phase = "cu" /\ answer = "pending" /\ answer' = answer
        /\ search_finished' = search_finished
    BY <1>1 DEF CuFound
  <2>7. Chain'
    BY <2>2, <2>5, <2>6 DEF Chain
  <2>8. ASSUME ~search_finished PROVE Covered(<<>>, cu', live')
    <3>1. live = {}
      BY <2>6, <2>8 DEF Chain, NoLeak
    <3> QED BY <2>2, <3>1 DEF Covered, AfterCallback
  <2> QED BY <2>5, <2>6, <2>7, <2>8 DEF NoLeak
<1>2. CASE CuReturns
  <2>1. /\ answer = "pending" /\ phase = "walk" /\ frames = <<>> /\ frames' = <<>>
        /\ ret' = "none" /\ phase' = "header" /\ live' = live \ {cu}
        /\ answer' = IF ret = "error" THEN "error" ELSE answer
        /\ search_finished' = (search_finished \/ ret = "ok") /\ ret # "none"
    BY <1>2 DEF CuReturns
  <2>2. Chain'
    BY <2>1 DEF Chain
  <2>3. ASSUME answer' = "pending", ~search_finished' PROVE live' = {}
    <3>1. ret = "no_entry" /\ ~search_finished
      BY <2>1, <2>3 DEF TypeOK, Result
    <3>2. Covered(<<>>, cu, live)
      BY <2>1, <3>1 DEF NoLeak
    <3>3. \A e \in live : e = cu
      BY <3>2 DEF Covered
    <3> QED BY <2>1, <3>3
  <2> QED BY <2>1, <2>2, <2>3 DEF NoLeak
<1> QED BY <1>1, <1>2

\* The same for the search of the children.
LEMMA ChildChain ==
  ASSUME TypeOK, Chain, NoLeak, ChildFails \/ ChildNone \/ ChildFound \/ ChildReturns
  PROVE  Chain' /\ NoLeak'
<1>1. answer = "pending" /\ frames # <<>> /\ answer' = answer /\ phase' = phase /\ cu' = cu
      /\ search_finished' = search_finished /\ types' = types
  BY DEF Walking, ChildFails, ChildNone, ChildFound, ChildReturns, callVars
<1>2. /\ phase = "walk" /\ cu \in Entry /\ Nested(frames, cu, Known)
      /\ live \in SUBSET Entry /\ Known \in SUBSET Entry /\ frames \in Seq(Frame)
  BY <1>1 DEF Chain, TypeOK, Known
<1>3. /\ Top \in Frame /\ Top = frames[Len(frames)]
      /\ Top.in \in Int /\ Top.cur \in Int /\ Top.child \in Int
      /\ Top.in \in Known /\ Top.cur \in Known /\ Top.in <= Top.cur
      /\ Top.step = "call" => Top.child \in Known /\ Top.cur < Top.child
  BY <1>1, <1>2, TopHandles
<1>4. SUFFICES /\ Nested(frames', cu, Known')
               /\ ~search_finished /\ ret' \in {"none", "no_entry"} => Covered(frames', cu, live')
  BY <1>1, <1>2 DEF Chain, NoLeak
<1>5. ~search_finished /\ ret \in {"none", "no_entry"} => Covered(frames, cu, live)
  BY <1>1, <1>2 DEF NoLeak
<1>6. CASE ChildFails
  <2>1. frames' = SubSeq(frames, 1, Len(frames) - 1) /\ ret' = "error" /\ Known' = Known
    BY <1>1, <1>6 DEF ChildFails, Return, Callers, Known
  <2> QED BY <1>1, <1>2, <2>1, PopNested
<1>7. CASE ChildNone
  <2> DEFINE g == [Top EXCEPT !.step = "sibling"]
  <2>1. frames' = [frames EXCEPT ![Len(frames)] = g] /\ ret' = ret /\ live' = live
        /\ Top.step = "child" /\ Known' = Known
    BY <1>1, <1>7 DEF ChildNone, SetTop, Known
  <2>2. g \in Frame /\ g.in = Top.in /\ g.cur = Top.cur /\ g.step = "sibling"
    BY <1>3, FrameUpdates DEF Frame
  <2> HIDE DEF g
  <2>3. Nested(frames', cu, Known')
    BY <1>1, <1>2, <1>3, <2>1, <2>2, ReplaceNested
  <2>4. \A e \in live' : e \in Handles(g) \/ (e \in live /\ e \notin Handles(frames[Len(frames)]))
    BY <1>3, <2>1, <2>2 DEF Handles
  <2>5. Covered(frames, cu, live) => Covered(frames', cu, live')
    BY <1>1, <1>2, <2>1, <2>2, <2>4, ReplaceCovered
  <2> QED BY <1>5, <2>1, <2>3, <2>5
<1>8. CASE ChildFound
  <2>1. PICK c \in Children(Top.cur) :
          /\ live' = AfterCallback(live, c)
          /\ Enter(SetTop([Top EXCEPT !.step = "call", !.child = c]), c, Top.level + 1)
    BY <1>8 DEF ChildFound
  <2> DEFINE g == [Top EXCEPT !.step = "call", !.child = c]
             gs == [frames EXCEPT ![Len(frames)] = g]
  <2>2. c \in Entry /\ c = Top.cur + 1 /\ Top.level + 1 \in Nat /\ Top.step = "child"
        /\ ret = "none" /\ live' \in SUBSET Entry /\ Known' \in SUBSET Entry
        /\ Known' = Known \cup {c}
    <3>1. Top.level \in Nat
      BY <1>3, FrameUpdates
    <3>2. c \in Entry /\ c = Top.cur + 1
      BY DEF Children
    <3>3. Top.step = "child" /\ ret = "none"
      BY <1>8 DEF ChildFound, Walking
    <3>4. live' \in SUBSET Entry /\ Known' \in SUBSET Entry /\ Known' = Known \cup {c}
      BY <1>1, <1>2, <2>1, <3>2 DEF AfterCallback, Known
    <3> QED BY <3>1, <3>2, <3>3, <3>4
  <2>3. g \in Frame /\ g.in = Top.in /\ g.cur = Top.cur /\ g.step = "call" /\ g.child = c
    BY <1>3, <2>2, FrameUpdates DEF Frame
  <2>4. Enter(gs, c, Top.level + 1)
    BY <2>1 DEF SetTop
  <2> HIDE DEF g
  <2>5. gs \in Seq(Frame) /\ gs # <<>> /\ gs[Len(gs)] = g
    <3>1. Len(frames) \in 1 .. Len(frames)
      BY <1>1, <1>2, EmptySeq, LenProperties
    <3>2. gs \in Seq(Frame) /\ Len(gs) = Len(frames) /\ gs[Len(frames)] = g
      BY <1>2, <2>3, <3>1, ExceptSeq
    <3> QED BY <3>1, <3>2, EmptySeq
  <2>6. Nested(gs, cu, Known')
    <3>1. \A e \in Known : e \in Known' \/ frames[Len(frames)].in < e
      BY <2>2
    <3>2. g.in = frames[Len(frames)].in /\ g.in <= g.cur /\ g.cur \in Known'
      BY <1>3, <2>2, <2>3
    <3>3. g.step = "call" => g.cur < g.child /\ g.child \in Known'
      BY <1>3, <2>2, <2>3
    <3> QED BY <1>1, <1>2, <2>2, <2>3, <3>1, <3>2, <3>3, ReplaceNested
  <2>7. \A e \in live' : e \in Handles(g) \/ (e \in live /\ e \notin Handles(frames[Len(frames)]))
    BY <1>3, <2>1, <2>2, <2>3 DEF Handles, AfterCallback
  <2>8. Covered(frames, cu, live) => Covered(gs, cu, live')
    BY <1>1, <1>2, <2>2, <2>3, <2>7, ReplaceCovered
  <2> HIDE DEF gs
  <2>9. /\ Nested(frames', cu, Known')
        /\ ret' = "none" /\ Covered(gs, cu, live') => Covered(frames', cu, live')
        /\ ret' \in {"none", "ok"}
    BY <1>2, <2>2, <2>3, <2>4, <2>5, <2>6, EnterChain
  <2> QED BY <1>5, <2>2, <2>8, <2>9
<1>9. CASE ChildReturns
  <2>1. Top.step = "call" /\ live' = live \ {Top.child} /\ live' \in SUBSET Entry
        /\ Known \ {Top.child} \subseteq Known' /\ Known' \in SUBSET Entry
    BY <1>1, <1>2, <1>9 DEF ChildReturns, Known
  <2>2. \A e \in Known : e \in Known' \/ frames[Len(frames)].in < e
    BY <1>3, <2>1
  <2>3. CASE ret = "no_entry"
    <3> DEFINE g == [Top EXCEPT !.step = "sibling", !.child = Nobody]
    <3>1. frames' = [frames EXCEPT ![Len(frames)] = g] /\ ret' = "none"
      BY <1>9, <2>3 DEF ChildReturns, SetTop
    <3>2. g \in Frame /\ g.in = Top.in /\ g.cur = Top.cur /\ g.step = "sibling"
      BY <1>3, FrameUpdates DEF Frame
    <3> HIDE DEF g
    <3>3. Nested(frames', cu, Known')
      <4>1. g.in = frames[Len(frames)].in /\ g.in <= g.cur /\ g.cur \in Known'
        BY <1>3, <2>1, <3>2
      <4> QED BY <1>1, <1>2, <2>1, <2>2, <3>1, <3>2, <4>1, ReplaceNested
    <3>4. \A e \in live' : e \in Handles(g) \/ (e \in live /\ e \notin Handles(frames[Len(frames)]))
      BY <1>3, <2>1, <3>2 DEF Handles
    <3>5. Covered(frames, cu, live) => Covered(frames', cu, live')
      BY <1>1, <1>2, <2>1, <3>1, <3>2, <3>4, ReplaceCovered
    <3> QED BY <1>5, <2>3, <3>3, <3>5
  <2>4. CASE ret # "no_entry"
    <3>1. frames' = SubSeq(frames, 1, Len(frames) - 1) /\ ret' = ret /\ ret # "none"
      BY <1>9, <2>4 DEF ChildReturns, Callers
    <3> QED BY <1>1, <1>2, <2>1, <2>2, <2>4, <3>1, PopNested
  <2> QED BY <2>3, <2>4
<1> QED BY <1>6, <1>7, <1>8, <1>9

\* The same for the search of the siblings.
LEMMA SiblingChain ==
  ASSUME TypeOK, Chain, NoLeak, SiblingFails \/ SiblingNone \/ SiblingFound
  PROVE  Chain' /\ NoLeak'
<1>1. /\ answer = "pending" /\ frames # <<>> /\ answer' = answer /\ phase' = phase /\ cu' = cu
      /\ search_finished' = search_finished /\ types' = types /\ ret = "none" /\ Top.step = "sibling"
  BY DEF Walking, SiblingFails, SiblingNone, SiblingFound, callVars
<1>2. /\ phase = "walk" /\ cu \in Entry /\ Nested(frames, cu, Known)
      /\ live \in SUBSET Entry /\ Known \in SUBSET Entry /\ frames \in Seq(Frame)
  BY <1>1 DEF Chain, TypeOK, Known
<1>3. /\ Top \in Frame /\ Top = frames[Len(frames)]
      /\ Top.in \in Int /\ Top.cur \in Int /\ Top.child \in Int
      /\ Top.in \in Known /\ Top.cur \in Known /\ Top.in <= Top.cur
  BY <1>1, <1>2, TopHandles
<1>4. SUFFICES /\ Nested(frames', cu, Known')
               /\ ~search_finished /\ ret' \in {"none", "no_entry"} => Covered(frames', cu, live')
  BY <1>1, <1>2 DEF Chain, NoLeak
<1>5. ~search_finished => Covered(frames, cu, live)
  BY <1>1, <1>2 DEF NoLeak
<1>6. /\ WithoutCur \in SUBSET live
      /\ \A e \in Known : e \in WithoutCur \cup types \/ frames[Len(frames)].in < e
      /\ Top.in \in WithoutCur \cup types /\ (Top.cur \in WithoutCur => Top.cur = Top.in)
  BY <1>3 DEF WithoutCur, Known
<1>7. CASE SiblingFails
  <2>1. frames' = SubSeq(frames, 1, Len(frames) - 1) /\ ret' = "error" /\ live' = WithoutCur
    BY <1>7 DEF SiblingFails, Return, Callers
  <2>2. Known' = WithoutCur \cup types /\ Known' \in SUBSET Entry
    BY <1>1, <1>2, <1>6, <2>1 DEF Known
  <2>3. \A e \in Known : e \in Known' \/ frames[Len(frames)].in < e
    BY <1>6, <2>2
  <2>4. Nested(frames', cu, Known')
    BY <1>1, <1>2, <2>1, <2>2, <2>3, PopNested
  <2> QED BY <2>1, <2>4
<1>8. CASE SiblingNone
  <2>1. frames' = SubSeq(frames, 1, Len(frames) - 1) /\ live' = WithoutCur
    BY <1>8 DEF SiblingNone, Return, Callers
  <2>2. /\ Known' = WithoutCur \cup types /\ Known' \in SUBSET Entry
        /\ live' \in SUBSET live
    BY <1>1, <1>2, <1>6, <2>1 DEF Known
  <2>3. \A e \in Known : e \in Known' \/ frames[Len(frames)].in < e
    BY <1>6, <2>2
  <2>4. Nested(frames', cu, Known')
    BY <1>1, <1>2, <2>1, <2>2, <2>3, PopNested
  <2>5. /\ frames[Len(frames)].step # "call"
        /\ frames[Len(frames)].cur \in live' => frames[Len(frames)].cur = frames[Len(frames)].in
    BY <1>1, <1>3, <1>6, <2>1
  <2>6. Covered(frames, cu, live) => Covered(frames', cu, live')
    BY <1>1, <1>2, <2>1, <2>2, <2>5, PopCovered
  <2> QED BY <1>5, <2>4, <2>6
<1>9. CASE SiblingFound
  <2>1. PICK s \in Siblings(Top.cur) :
          /\ live' = AfterCallback(WithoutCur, s)
          /\ IF s \in want THEN Return("ok")
             ELSE /\ frames' = SetTop([Top EXCEPT !.cur = s, !.step = "child"])
                  /\ UNCHANGED ret
    BY <1>9 DEF SiblingFound
  <2>2. s \in Entry /\ s > Top.cur /\ s \in Int /\ live' \in SUBSET Entry
        /\ Known' = WithoutCur \cup types \cup {s} /\ Known' \in SUBSET Entry
    <3>1. s \in Entry /\ s > Top.cur
      BY DEF Siblings
    <3>2. s \in Int
      BY <3>1 DEF Entry
    <3> QED BY <1>1, <1>2, <1>6, <2>1, <3>1, <3>2 DEF AfterCallback, Known
  <2>3. \A e \in Known : e \in Known' \/ frames[Len(frames)].in < e
    BY <1>6, <2>2
  <2>4. CASE s \in want
    <3>1. frames' = SubSeq(frames, 1, Len(frames) - 1) /\ ret' = "ok"
      BY <2>1, <2>4 DEF Return, Callers
    <3>2. Nested(frames', cu, Known')
      BY <1>1, <1>2, <2>2, <2>3, <3>1, PopNested
    <3> QED BY <3>1, <3>2
  <2>5. CASE s \notin want
    <3> DEFINE g == [Top EXCEPT !.cur = s, !.step = "child"]
    <3>1. frames' = [frames EXCEPT ![Len(frames)] = g]
      BY <2>1, <2>5 DEF SetTop
    <3>2. g \in Frame /\ g.in = Top.in /\ g.cur = s /\ g.step = "child"
      BY <1>3, <2>2, FrameUpdates DEF Frame
    <3> HIDE DEF g
    <3>3. g.in = frames[Len(frames)].in /\ g.in <= g.cur /\ g.cur \in Known'
      BY <1>3, <2>1, <2>2, <3>2
    <3>4. Nested(frames', cu, Known')
      BY <1>1, <1>2, <2>2, <2>3, <3>1, <3>2, <3>3, ReplaceNested
    <3>5. Handles(frames[Len(frames)]) = {Top.in, Top.cur} /\ Handles(g) = {Top.in, s}
      BY <1>1, <1>3, <3>2 DEF Handles
    <3>6. \A e \in live' : e \in Handles(g) \/ (e \in live /\ e \notin Handles(frames[Len(frames)]))
      BY <1>6, <2>1, <3>5 DEF AfterCallback
    <3>7. Covered(frames, cu, live) => Covered(frames', cu, live')
      BY <1>1, <1>2, <2>2, <3>1, <3>2, <3>6, ReplaceCovered
    <3> QED BY <1>5, <3>4, <3>7
  <2> QED BY <2>4, <2>5
<1> QED BY <1>7, <1>8, <1>9

\* Nothing is held between the units, or between the searches.
LEMMA NextChain ==
  ASSUME TypeOK, Positions, Chain, NoLeak, [Next]_vars
  PROVE  Chain' /\ NoLeak'
<1>1. CASE HeaderFound \/ InfoExhausted
  <2>1. /\ answer = "pending" /\ answer' = answer /\ phase = "header" /\ phase' # "walk"
        /\ frames' = frames /\ ret' = ret /\ live' = live /\ search_finished' = search_finished
    BY <1>1 DEF HeaderFound, InfoExhausted
  <2> QED BY <2>1 DEF Chain, NoLeak
<1>2. CASE HeaderFails \/ TypesExhausted \/ CuFails
  <2>1. answer' # "pending"
    BY <1>2 DEF HeaderFails, TypesExhausted, CuFails, Answer
  <2> QED BY <2>1 DEF Chain, NoLeak
<1>3. CASE IsValidCompiler \/ Ask
  <2>1. phase' = "header" /\ frames' = <<>> /\ ret' = "none" /\ live' = {}
    BY <1>3 DEF IsValidCompiler, Ask, Search
  <2> QED BY <2>1 DEF Chain, NoLeak
<1>4. CASE DwarfInit \/ Refused \/ UNCHANGED vars
  <2>1. /\ answer' = answer /\ phase' = phase /\ frames' = frames /\ ret' = ret /\ live' = live
        /\ search_finished' = search_finished /\ cu' = cu /\ types' = types
    BY <1>4 DEF DwarfInit, Refused, vars
  <2>2. Known' = Known
    BY <2>1 DEF Known
  <2>3. Chain'
    BY <2>1, <2>2 DEF Chain
  <2> QED BY <2>1, <2>3 DEF NoLeak
<1> QED BY <1>1, <1>2, <1>3, <1>4, CuChain, ChildChain, SiblingChain DEF Next, Step

\* The callback releases the handle of each entry whose type it builds, and the
\* one that it accepts ends the search.
LEMMA NextTurnedDown ==
  ASSUME TypeOK, Chain, TurnedDown, [Next]_vars
  PROVE  TurnedDown'
<1> USE DEF TurnedDown
<1>1. CASE CuFound \/ ChildFound
  <2>1. PICK callers, e, l : Enter(callers, e, l) /\ live' = AfterCallback(live, e)
    BY <1>1 DEF CuFound, ChildFound
  <2>2. /\ UNCHANGED <<answer, search_finished, want, types>> /\ ret \in {"none", "no_entry"}
        /\ answer = "pending"
    BY <1>1 DEF CuFound, ChildFound, Walking, Chain, callVars
  <2>3. live' \cap types' = {} /\ typed' \subseteq types'
    BY <2>1, <2>2 DEF Enter, Callback, AfterCallback
  <2>4. ret' \in {"none", "no_entry"} => e \notin want
    BY <2>1 DEF Enter
  <2>5. typed' \subseteq typed \cup {e}
    BY <2>1 DEF Enter, Callback
  <2> QED BY <2>2, <2>3, <2>4, <2>5
<1>2. CASE SiblingFound
  <2>1. PICK e : /\ Callback(e, Top.level) /\ live' = AfterCallback(WithoutCur, e)
                 /\ IF e \in want THEN Return("ok")
                    ELSE /\ frames' = SetTop([Top EXCEPT !.cur = e, !.step = "child"])
                         /\ UNCHANGED ret
    BY <1>2 DEF SiblingFound
  <2>2. /\ UNCHANGED <<answer, search_finished, want, types>> /\ ret = "none"
        /\ answer = "pending"
    BY <1>2 DEF SiblingFound, Walking, callVars
  <2>3. live' \cap types' = {} /\ typed' \subseteq types'
    BY <2>1, <2>2 DEF Callback, AfterCallback, WithoutCur
  <2>4. ret' \in {"none", "no_entry"} => e \notin want
    BY <2>1 DEF Return
  <2>5. typed' \subseteq typed \cup {e}
    BY <2>1 DEF Callback
  <2> QED BY <2>2, <2>3, <2>4, <2>5
<1>3. CASE CuReturns
  <2>1. /\ UNCHANGED <<want, types, typed>> /\ live' \subseteq live
        /\ answer = "pending" /\ ret # "none"
        /\ answer' = IF ret = "error" THEN "error" ELSE answer
        /\ search_finished' = (search_finished \/ ret = "ok")
    BY <1>3 DEF CuReturns, callVars, histVars
  <2>2. answer' = "pending" /\ ~search_finished' => ~search_finished /\ ret = "no_entry"
    BY <2>1 DEF TypeOK, Result
  <2> QED BY <2>1, <2>2
<1>4. CASE ChildReturns
  <2>1. /\ UNCHANGED <<want, types, typed, answer, search_finished>> /\ live' \subseteq live
        /\ ret' = ret \/ ret = "no_entry"
    BY <1>4 DEF ChildReturns, callVars, histVars
  <2> QED BY <2>1
<1>5. CASE SiblingFails \/ SiblingNone
  <2>1. /\ UNCHANGED <<want, types, typed, answer, search_finished>> /\ live' \subseteq live
        /\ ret = "none"
    BY <1>5 DEF SiblingFails, SiblingNone, Walking, WithoutCur, callVars, histVars
  <2> QED BY <2>1
<1>6. CASE ChildFails \/ ChildNone
  <2>1. UNCHANGED <<want, types, typed, answer, search_finished, live>> /\ ret = "none"
    BY <1>6 DEF ChildFails, ChildNone, Walking, callVars, histVars
  <2> QED BY <2>1
<1>7. CASE HeaderFound \/ InfoExhausted
  <2>1. UNCHANGED <<want, types, typed, answer, search_finished, live, ret>>
    BY <1>7 DEF HeaderFound, InfoExhausted, callVars, histVars
  <2> QED BY <2>1
<1>8. CASE HeaderFails \/ TypesExhausted \/ CuFails
  <2>1. UNCHANGED <<types, typed, live>> /\ answer' # "pending"
    BY <1>8 DEF HeaderFails, TypesExhausted, CuFails, Answer, callVars, histVars
  <2> QED BY <2>1
<1>9. CASE IsValidCompiler \/ Ask
  BY <1>9 DEF IsValidCompiler, Ask, Search
<1>10. CASE DwarfInit \/ Refused \/ UNCHANGED vars
  BY <1>10 DEF DwarfInit, Refused, vars, histVars
<1> QED BY <1>1, <1>2, <1>3, <1>4, <1>5, <1>6, <1>7, <1>8, <1>9, <1>10 DEF Next, Step

\* Only the end of the file answers that there is no such entry.
LEMMA NextAbsent ==
  ASSUME TypeOK, Chain, NoLeak, TurnedDown, AbsentLeaksOnlyTypes, [Next]_vars
  PROVE  AbsentLeaksOnlyTypes'
<1> USE DEF AbsentLeaksOnlyTypes
<1>1. CASE TypesExhausted
  <2>1. /\ answer = "pending" /\ phase = "header" /\ UNCHANGED <<live, typed, types, want>>
        /\ answer' = IF search_finished THEN "ok" ELSE "no_entry"
    BY <1>1 DEF TypesExhausted, Answer, callVars, histVars
  <2>2. ~search_finished => live = {} /\ typed \subseteq types \ want
    BY <2>1 DEF Chain, NoLeak, TurnedDown
  <2> QED BY <2>1, <2>2
<1>2. CASE HeaderFails \/ CuFails \/ HeaderFound \/ InfoExhausted \/ CuFound \/ CuReturns
  BY <1>2 DEF HeaderFails, CuFails, HeaderFound, InfoExhausted, CuFound, CuReturns, Answer
<1>3. CASE ChildFails \/ ChildNone \/ ChildFound \/ ChildReturns
  BY <1>3 DEF ChildFails, ChildNone, ChildFound, ChildReturns, Walking
<1>4. CASE SiblingFails \/ SiblingNone \/ SiblingFound
  BY <1>4 DEF SiblingFails, SiblingNone, SiblingFound, Walking
<1>5. CASE IsValidCompiler \/ Ask
  BY <1>5 DEF IsValidCompiler, Ask, Search
<1>6. CASE DwarfInit \/ Refused \/ UNCHANGED vars
  BY <1>6 DEF DwarfInit, Refused, vars, histVars
<1> QED BY <1>1, <1>2, <1>3, <1>4, <1>5, <1>6 DEF Next, Step

\* What the activations know is what HandlesHeld asks for.
LEMMA ChainHolds == TypeOK /\ Chain /\ TurnedDown => HandlesHeld
<1> SUFFICES ASSUME TypeOK, Chain, TurnedDown, answer = "pending"
             PROVE  /\ phase = "walk" => Held(cu)
                    /\ \A i \in DOMAIN frames :
                         /\ Held(frames[i].in) /\ Held(frames[i].cur)
                         /\ frames[i].step = "call" => Held(frames[i].child)
                    /\ \A i, j \in DOMAIN frames : i < j =>
                         /\ frames[i].cur < frames[j].in
                         /\ frames[i].step = "call" /\ frames[i].child <= frames[j].in
  BY DEF HandlesHeld
<1>1. \A e \in Known : Held(e)
  BY DEF TurnedDown, Known, Held
<1>2. CASE phase = "walk"
  <2>1. Nested(frames, cu, Known) /\ DOMAIN frames = 1 .. Len(frames)
    BY <1>2 DEF Chain, TypeOK
  <2>2. \A i \in DOMAIN frames : Handles(frames[i]) \subseteq Known
    BY <2>1 DEF Nested
  <2>3. \A i \in DOMAIN frames :
          /\ frames[i].in \in Known /\ frames[i].cur \in Known
          /\ frames[i].step = "call" => frames[i].child \in Known
    BY <2>2 DEF Handles
  <2>4. cu \in Known
    BY <2>1 DEF Nested
  <2>5. \A i, j \in DOMAIN frames : i < j =>
          /\ frames[i].cur < frames[j].in
          /\ frames[i].step = "call" /\ frames[i].child <= frames[j].in
    BY <2>1 DEF Nested
  <2> QED BY <1>1, <2>3, <2>4, <2>5
<1>3. CASE phase # "walk"
  <2>1. frames = <<>>
    BY <1>3 DEF Chain
  <2>2. DOMAIN frames = {}
    BY <2>1
  <2> QED BY <1>3, <2>2
<1> QED BY <1>2, <1>3

-----------------------------------------------------------------------------
(* The theorems. *)

\* IInv is inductive: it holds initially and every step keeps it.
THEOREM Inductive == Spec => []IInv
<1>1. Init => IInv
  <2>1. Init => Chain /\ NoLeak /\ TurnedDown
    BY DEF Init, Chain, NoLeak, TurnedDown
  <2> QED BY <2>1, InitType, InitPositions DEF IInv
<1>2. IInv /\ [Next]_vars => IInv'
  BY NextType, NextPositions, NextChain, NextTurnedDown DEF IInv
<1> QED BY <1>1, <1>2, PTL DEF Spec

\* sd_search_dwarf_dbg and sd_search_dwarf_die keep their variables in their
\* types, however deep the recursion gets and wherever it fails.
THEOREM TypeCorrect == Spec => []TypeOK
<1>1. IInv => TypeOK
  BY DEF IInv
<1> QED BY <1>1, Inductive, PTL

\* When sd_search_dwarf_dbg answers SD_OK or SD_NO_ENTRY, libdwarf's hidden
\* position is back at the start of both sections.
THEOREM AnswersLeaveStart == Spec => []AnswerLeavesStart
<1>1. Init => AnswerLeavesStart
  BY DEF Init, AnswerLeavesStart
<1>2. IInv /\ AnswerLeavesStart /\ [Next]_vars => AnswerLeavesStart'
  BY NextAnswer DEF IInv
<1> QED BY <1>1, <1>2, Inductive, PTL DEF Spec

\* Of the walk's handles, sd_search_dwarf_dbg and sd_search_dwarf_die use none
\* after its release and release none twice, except those that the callback of
\* sd_runtime_variable has released: these are the ones of the variables whose
\* types it has built.
THEOREM HandlesStayHeld == Spec => []HandlesHeld
<1>1. IInv => HandlesHeld
  BY ChainHolds DEF IInv
<1> QED BY <1>1, Inductive, PTL

\* A search that answers SD_NO_ENTRY leaves nothing allocated but the entries
\* of the types of variables that the callback has turned down.
THEOREM AbsenceLeaksOnlyTypes == Spec => []AbsentLeaksOnlyTypes
<1>1. Init => AbsentLeaksOnlyTypes
  BY DEF Init, AbsentLeaksOnlyTypes
<1>2. IInv /\ AbsentLeaksOnlyTypes /\ [Next]_vars => AbsentLeaksOnlyTypes'
  BY NextAbsent DEF IInv
<1> QED BY <1>1, <1>2, Inductive, PTL DEF Spec

=============================================================================
