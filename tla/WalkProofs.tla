----------------------------- MODULE WalkProofs -----------------------------
(***************************************************************************)
(* For any file: the walk visits the entries one after another, a search   *)
(* finds the first one that is wanted (EntrySearch), and a file that was   *)
(* opened without damage being seen has none.                              *)
(***************************************************************************)
EXTENDS DwarfSearchProofs

\* The entries that the search was to visit: up to an entry, up to a unit, and
\* before it.
EntriesTo(e) == {d \in Entry : UnitOf[d] \in from /\ d <= e}
Through(u) == {d \in Entry : UnitOf[d] \in from /\ UnitOf[d] <= u}
Before(u) == {d \in Entry : UnitOf[d] \in from /\ UnitOf[d] < u}

\* The entries from d to e are at level l or below it, and the one behind e is
\* no deeper than l.
Deep(d, e, l) == \A x \in Entry : d <= x /\ x <= e => l <= Level[x]
Shallow(e, l) == \A d \in Entry : d = e + 1 /\ UnitOf[d] = UnitOf[e] => Level[d] <= l

\* Where an activation is when e is the last entry visited: on its level, which
\* nothing has left since it was called.
Reached(f, e) ==
  /\ f.cur <= e /\ UnitOf[f.cur] = UnitOf[e]
  /\ Level[f.in] = f.level /\ Level[f.cur] = f.level /\ Deep(f.in, e, f.level)
  /\ f.step = "call" => /\ f.child = f.cur + 1 /\ f.child <= e
                        /\ Level[f.child] = f.level + 1

Stack(fs, e) ==
  /\ fs # <<>> => fs[1].level = 0
  /\ \A i \in 1 .. Len(fs) : Reached(fs[i], e)

\* The innermost one is at an entry that it has just reached, or has seen all
\* that is below.
Resting(f, e) ==
  \/ f.step = "child" /\ f.cur = e
  \/ f.step = "sibling" /\ Deep(f.cur + 1, e, f.level + 1) /\ Shallow(e, f.level)

\* What it has called has returned without finding anything.
Returned(fs, e) ==
  IF fs = <<>> THEN \A d \in Entry : UnitOf[d] = UnitOf[e] => d <= e
  ELSE LET f == fs[Len(fs)]
       IN  f.step = "call" /\ Deep(f.child, e, f.level + 1) /\ Shallow(e, f.level)

\* The walk has come to e.
WalkedTo(e, fs, r) ==
  /\ UnitOf[e] = at[is_info] /\ visited = EntriesTo(e) /\ Stack(fs, e)
  /\ r = "none" => fs # <<>> /\ Resting(fs[Len(fs)], e)
  /\ r = "no_entry" => Returned(fs, e)

\* As long as nothing was found, and nothing has failed.
Seeking == answer = "pending" /\ ~search_finished /\ ret \in {"none", "no_entry"}

\* The entries visited are those before the place that the search has come to.
Walked ==
  Seeking =>
    /\ visited \cap want = {}
    /\ phase = "header" => visited = Through(at[is_info])
    /\ phase = "cu" => visited = Before(at[is_info])
    /\ phase = "walk" => \E e \in Entry : WalkedTo(e, frames, ret)

\* The units that are still to come are those the search has begun with.
Coming ==
  answer = "pending" =>
    /\ \A u \in Unit : at[is_info] < u => (u \in from <=> u <= NInfo \/ at[FALSE] < u)
    /\ phase # "header" => at[is_info] \in from

\* Of the entries that are wanted, e is the first one in those units.
IsAnswer(e) ==
  e \in want /\ UnitOf[e] \in from /\ \A d \in want : UnitOf[d] \in from => e <= d

FoundFirst ==
  /\ answer = "pending" /\ (search_finished \/ ret = "ok") => IsAnswer(found)
  /\ answer = "pending" /\ search_finished => phase = "header"

\* No search has been made before the file is opened.
Unread == dbg = "closed" => answer = "none" /\ at = [s \in BOOLEAN |-> Start(s)]

WInv == IInv /\ Coming /\ Walked /\ FoundFirst /\ Unread

-----------------------------------------------------------------------------
(* The trees. *)

LEMMA EntryFacts ==
  ASSUME NEW e \in Entry
  PROVE  e \in Nat /\ UnitOf[e] \in Unit /\ UnitOf[e] \in Nat /\ Level[e] \in Nat
BY TreeAssumption DEF Entry, Unit

\* The entries come unit by unit.
LEMMA Preorder ==
  ASSUME NEW d \in Entry, NEW e \in Entry
  PROVE  /\ d <= e => UnitOf[d] <= UnitOf[e]
         /\ UnitOf[d] < UnitOf[e] => d < e
<1>1. /\ d \in Nat /\ e \in Nat /\ UnitOf[d] \in Nat /\ UnitOf[e] \in Nat
  BY EntryFacts
<1>2. (d < e => UnitOf[d] <= UnitOf[e]) /\ (e < d => UnitOf[e] <= UnitOf[d])
  BY TreeAssumption
<1> QED BY <1>1, <1>2

\* A unit begins with its own entry.
LEMMA CuFirst ==
  ASSUME NEW u \in Unit
  PROVE  /\ CuEntry(u) \in Entry /\ UnitOf[CuEntry(u)] = u /\ Level[CuEntry(u)] = 0
         /\ \A d \in Entry : UnitOf[d] = u => CuEntry(u) <= d
<1>1. PICK e \in Entry :
        /\ UnitOf[e] = u /\ Level[e] = 0
        /\ \A d \in Entry : UnitOf[d] = u /\ d # e => e < d /\ Level[d] > 0
  BY TreeAssumption
<1>2. \A d \in Entry : UnitOf[d] = u /\ Level[d] = 0 => d = e
  BY <1>1, EntryFacts
<1>3. CuEntry(u) = e
  BY <1>1, <1>2 DEF CuEntry
<1>4. \A d \in Entry : UnitOf[d] = u => e <= d
  BY <1>1, EntryFacts
<1> QED BY <1>1, <1>3, <1>4

\* In between there is nothing but the unit's entries.
LEMMA Between ==
  ASSUME NEW d \in Entry, NEW e \in Entry, UnitOf[d] = UnitOf[e], NEW x \in Nat, d <= x, x <= e
  PROVE  x \in Entry /\ UnitOf[x] = UnitOf[d]
<1>1. x \in Entry
  BY EntryFacts, SizesAssumption DEF Entry
<1>2. UnitOf[d] <= UnitOf[x] /\ UnitOf[x] <= UnitOf[e] /\ UnitOf[x] \in Nat /\ UnitOf[d] \in Nat
  BY <1>1, Preorder, EntryFacts
<1> QED BY <1>1, <1>2

LEMMA EntriesToNext ==
  ASSUME NEW e \in Entry, e + 1 \in Entry, UnitOf[e + 1] \in from
  PROVE  EntriesTo(e + 1) = EntriesTo(e) \cup {e + 1} /\ e + 1 \notin EntriesTo(e)
<1>1. \A d \in Entry : d <= e + 1 <=> d <= e \/ d = e + 1
  BY EntryFacts
<1>2. ~(e + 1 <= e)
  BY EntryFacts
<1> HIDE DEF Entry
<1> QED BY <1>1, <1>2 DEF EntriesTo

-----------------------------------------------------------------------------
(* The activations. *)

\* The walk goes on to the next entry, which is no higher than the activation.
LEMMA ReachedOn ==
  ASSUME NEW f \in Frame, NEW e \in Entry, e + 1 \in Entry, UnitOf[e + 1] = UnitOf[e],
         Reached(f, e), f.level <= Level[e + 1]
  PROVE  Reached(f, e + 1)
<1>0. f.cur \in Entry /\ f.child \in Entry \cup {Nobody}
  BY FrameUpdates
<1>1. e \in Nat /\ f.cur \in Nat /\ f.child \in Nat
  BY <1>0 DEF Entry, Nobody
<1>2. Deep(f.in, e + 1, f.level)
  <2> SUFFICES ASSUME NEW x \in Entry, f.in <= x, x <= e + 1
               PROVE  f.level <= Level[x]
    BY DEF Deep
  <2>1. x <= e \/ x = e + 1
    BY <1>1, EntryFacts
  <2> QED BY <2>1 DEF Reached, Deep
<1> QED BY <1>1, <1>2 DEF Reached

LEMMA SeqFacts ==
  ASSUME NEW fs \in Seq(Frame)
  PROVE  /\ Len(fs) \in Nat /\ \A i \in 1 .. Len(fs) : fs[i] \in Frame
         /\ fs # <<>> => Len(fs) \in 1 .. Len(fs)
BY EmptySeq, ElementOfSeq, LenProperties

\* The innermost activation goes on.
LEMMA ReplaceStack ==
  ASSUME NEW fs \in Seq(Frame), fs # <<>>, NEW e, Stack(fs, e),
         NEW g \in Frame, g.level = fs[Len(fs)].level, Reached(g, e)
  PROVE  Stack([fs EXCEPT ![Len(fs)] = g], e)
<1> DEFINE n == Len(fs)
           gs == [fs EXCEPT ![n] = g]
<1>1. Len(gs) = n /\ \A i \in 1 .. n : gs[i] = IF i = n THEN g ELSE fs[i]
  BY SeqFacts, ExceptSeq
<1>2. 1 \in 1 .. n
  BY SeqFacts
<1> HIDE DEF gs
<1>3. Stack(gs, e)
  BY <1>1, <1>2 DEF Stack
<1> QED BY <1>3 DEF gs

\* It calls another one.
LEMMA PushStack ==
  ASSUME NEW fs \in Seq(Frame), NEW e, Stack(fs, e), NEW g \in Frame, Reached(g, e),
         fs = <<>> => g.level = 0
  PROVE  Stack(Append(fs, g), e)
<1> DEFINE n == Len(fs)
           gs == Append(fs, g)
<1>1. Len(gs) = n + 1 /\ \A i \in 1 .. n + 1 : gs[i] = IF i = n + 1 THEN g ELSE fs[i]
  BY SeqFacts
<1>2. n \in Nat /\ (fs = <<>> => n = 0) /\ (fs # <<>> => 1 \in 1 .. n)
  BY SeqFacts
<1> HIDE DEF gs
<1>3. ASSUME NEW i \in 1 .. n + 1
      PROVE  Reached(gs[i], e)
  <2>1. i = n + 1 \/ i \in 1 .. n
    BY <1>2
  <2> QED BY <1>1, <2>1 DEF Stack
<1>4. gs[1].level = 0
  <2>1. CASE fs = <<>>
    BY <1>1, <1>2, <2>1
  <2>2. CASE fs # <<>>
    BY <1>1, <1>2, <2>2 DEF Stack
  <2> QED BY <2>1, <2>2
<1>5. Stack(gs, e)
  BY <1>1, <1>3, <1>4 DEF Stack
<1> QED BY <1>5 DEF gs

\* It returns.
LEMMA PopStack ==
  ASSUME NEW fs \in Seq(Frame), fs # <<>>, NEW e, Stack(fs, e)
  PROVE  Stack(SubSeq(fs, 1, Len(fs) - 1), e)
<1> DEFINE n == Len(fs)
           gs == SubSeq(fs, 1, n - 1)
<1>1. Len(gs) = n - 1 /\ \A i \in 1 .. n - 1 : gs[i] = fs[i]
  BY PopSeq
<1>2. gs \in Seq(Frame)
  BY SubSeqProperties, SeqFacts
<1> HIDE DEF gs
<1>3. gs # <<>> => 1 \in 1 .. n - 1
  BY <1>1, <1>2, SeqFacts
<1>4. \A i \in 1 .. n - 1 : i \in 1 .. n
  BY SeqFacts
<1>5. Stack(gs, e)
  BY <1>1, <1>3, <1>4 DEF Stack
<1> QED BY <1>5 DEF gs

-----------------------------------------------------------------------------
(* The entries that are visited. *)

\* In the walk over a unit.
LEMMA WalkState ==
  ASSUME WInv, answer = "pending", phase = "walk", ret \in {"none", "no_entry"}
  PROVE  /\ ~search_finished /\ visited \cap want = {}
         /\ \E e \in Entry : WalkedTo(e, frames, ret)
         /\ at[is_info] \in from /\ frames \in Seq(Frame) /\ Nested(frames, cu, Known)
BY DEF WInv, IInv, TypeOK, Chain, Walked, Seeking, Coming, FoundFirst

\* The innermost activation, and that none is deeper.
LEMMA TopState ==
  ASSUME WInv, answer = "pending", phase = "walk", frames # <<>>,
         NEW e \in Entry, Stack(frames, e)
  PROVE  /\ Top \in Frame /\ Top = frames[Len(frames)] /\ Reached(Top, e)
         /\ Top.in \in Entry /\ Top.cur \in Entry /\ Top.in <= Top.cur /\ Top.level \in Nat
         /\ \A i \in 1 .. Len(frames) : frames[i] \in Frame /\ frames[i].level <= Top.level
<1>1. frames \in Seq(Frame) /\ Nested(frames, cu, Known)
  BY DEF WInv, IInv, TypeOK, Chain
<1>2. Top \in Frame /\ Top = frames[Len(frames)] /\ Top.in <= Top.cur
  BY <1>1, TopHandles DEF WInv, IInv
<1>3. Top.in \in Entry /\ Top.cur \in Entry /\ Top.level \in Nat
  BY <1>2, FrameUpdates
<1>4. Len(frames) \in 1 .. Len(frames) /\ Len(frames) \in Nat
  BY <1>1, SeqFacts
<1>5. Reached(Top, e)
  BY <1>2, <1>4 DEF Stack
<1>6. ASSUME NEW i \in 1 .. Len(frames)
      PROVE  frames[i] \in Frame /\ frames[i].level <= Top.level
  <2>1. frames[i] \in Frame /\ Reached(frames[i], e)
    BY <1>1, SeqFacts DEF Stack
  <2>2. frames[i].in \in Entry /\ frames[i].cur \in Entry
    BY <2>1, FrameUpdates
  <2>3. frames[i].in <= Top.cur
    <3>1. CASE i = Len(frames)
      BY <1>2, <3>1
    <3>2. CASE i # Len(frames)
      <4>1. frames[i].in <= frames[i].cur /\ frames[i].cur < frames[Len(frames)].in
        BY <1>1, <1>4, <3>2 DEF Nested
      <4> QED BY <1>2, <1>3, <2>2, <4>1, EntryFacts
    <3> QED BY <3>1, <3>2
  <2>4. Top.cur <= e /\ Level[Top.cur] = Top.level
    BY <1>5 DEF Reached
  <2>5. frames[i].level <= Level[Top.cur]
    BY <1>3, <2>1, <2>3, <2>4 DEF Reached, Deep
  <2> QED BY <2>1, <2>4, <2>5
<1> QED BY <1>2, <1>3, <1>5, <1>6

\* The entry of a unit.
LEMMA CuPlace ==
  ASSUME WInv, CuFound
  PROVE  /\ cu' \in Entry /\ UnitOf[cu'] = at[is_info] /\ Level[cu'] = 0
         /\ Enter(<<>>, cu', 0) /\ visited' = visited \cup {cu'}
         /\ visited' = EntriesTo(cu') /\ cu' \notin visited
         /\ ~search_finished /\ visited \cap want = {}
<1> DEFINE u == at[is_info]
<1>1. u \in Unit /\ u \in Nat
  BY SectionBounds DEF WInv, IInv, TypeOK, Positions, CuFound, Unit
<1>2. cu' = CuEntry(u) /\ Enter(<<>>, cu', 0)
  BY DEF CuFound
<1>3. /\ answer = "pending" /\ phase = "cu" /\ ret = "none" /\ ~search_finished
  BY DEF CuFound, WInv, IInv, Chain, FoundFirst
<1>4. u \in from /\ visited = Before(u) /\ visited \cap want = {}
  BY <1>3 DEF WInv, Coming, Walked, Seeking
<1> HIDE DEF u
<1> DEFINE c == CuEntry(u)
<1>5. /\ c \in Entry /\ UnitOf[c] = u /\ Level[c] = 0
      /\ \A d \in Entry : UnitOf[d] = u => c <= d
  BY <1>1, CuFirst
<1> HIDE DEF c
<1>6. ASSUME NEW d \in Entry
      PROVE  d <= c <=> UnitOf[d] < u \/ d = c
  <2>1. d \in Nat /\ c \in Nat /\ UnitOf[d] \in Nat
    BY <1>5, EntryFacts
  <2>2. d <= c => UnitOf[d] <= u
    BY <1>5, Preorder
  <2>3. UnitOf[d] < u => d < c
    BY <1>5, Preorder
  <2>4. UnitOf[d] = u => c <= d
    BY <1>5
  <2> QED BY <1>1, <2>1, <2>2, <2>3, <2>4
<1>7. c \notin Before(u) /\ c <= c
  BY <1>1, <1>5, EntryFacts DEF Before
<1>8. Before(u) \cup {c} = EntriesTo(c)
  BY <1>4, <1>5, <1>6, <1>7 DEF Before, EntriesTo
<1>9. visited' = visited \cup {cu'}
  BY <1>2 DEF Enter, Callback
<1> QED BY <1>2, <1>3, <1>4, <1>5, <1>7, <1>8, <1>9 DEF c, u

\* A child is the next entry.
LEMMA ChildPlace ==
  ASSUME WInv, ChildFound, NEW c, c = Top.cur + 1
  PROVE  /\ Top.cur \in Entry /\ WalkedTo(Top.cur, frames, ret)
         /\ c \in Entry /\ UnitOf[c] = UnitOf[Top.cur] /\ Level[c] = Top.level + 1
         /\ Enter(SetTop([Top EXCEPT !.step = "call", !.child = c]), c, Top.level + 1)
         /\ visited' = EntriesTo(c) /\ visited' = visited \cup {c} /\ c \notin visited
         /\ ~search_finished /\ visited \cap want = {}
<1>1. answer = "pending" /\ phase = "walk" /\ ret = "none" /\ frames # <<>> /\ Top.step = "child"
  BY DEF ChildFound, Walking
<1>2. PICK e \in Entry : WalkedTo(e, frames, ret)
  BY <1>1, WalkState
<1>3. Top \in Frame /\ Reached(Top, e) /\ Top.cur \in Entry
  BY <1>1, <1>2, TopState DEF WalkedTo
<1>4. Top.cur = e
  BY <1>1, <1>2 DEF WalkedTo, Resting, Top
<1>5. PICK d \in Children(Top.cur) :
        Enter(SetTop([Top EXCEPT !.step = "call", !.child = d]), d, Top.level + 1)
  BY DEF ChildFound
<1>6. d = c /\ c \in Entry /\ UnitOf[c] = UnitOf[Top.cur] /\ Level[c] = Top.level + 1
  BY <1>3, <1>5 DEF Children, Reached
<1>7. UnitOf[c] \in from /\ visited = EntriesTo(e) /\ ~search_finished /\ visited \cap want = {}
  BY <1>1, <1>2, <1>4, <1>6, WalkState DEF WalkedTo
<1>8. EntriesTo(c) = EntriesTo(e) \cup {c} /\ c \notin EntriesTo(e)
  BY <1>4, <1>6, <1>7, EntriesToNext
<1>9. visited' = visited \cup {c}
  BY <1>5, <1>6 DEF Enter, Callback
<1> QED BY <1>2, <1>3, <1>4, <1>5, <1>6, <1>7, <1>8, <1>9

\* A sibling is the one behind all that is below the current entry.
LEMMA SiblingPlace ==
  ASSUME WInv, SiblingFound
  PROVE  \E e \in Entry, s \in Entry :
           /\ s = e + 1 /\ WalkedTo(e, frames, ret)
           /\ UnitOf[s] = UnitOf[e] /\ Level[s] = Top.level
           /\ Callback(s, Top.level)
           /\ IF s \in want THEN Return("ok")
              ELSE /\ frames' = SetTop([Top EXCEPT !.cur = s, !.step = "child"])
                   /\ UNCHANGED ret
           /\ visited' = EntriesTo(s) /\ visited' = visited \cup {s} /\ s \notin visited
           /\ ~search_finished /\ visited \cap want = {}
<1>1. answer = "pending" /\ phase = "walk" /\ ret = "none" /\ frames # <<>> /\ Top.step = "sibling"
  BY DEF SiblingFound, Walking
<1>2. PICK e \in Entry : WalkedTo(e, frames, ret)
  BY <1>1, WalkState
<1>3. Top \in Frame /\ Reached(Top, e) /\ Top.cur \in Entry /\ Top.level \in Nat
  BY <1>1, <1>2, TopState DEF WalkedTo
<1>4. Deep(Top.cur + 1, e, Top.level + 1) /\ Shallow(e, Top.level)
  BY <1>1, <1>2 DEF WalkedTo, Resting, Top
<1>5. PICK s \in Siblings(Top.cur) :
        /\ Callback(s, Top.level)
        /\ IF s \in want THEN Return("ok")
           ELSE /\ frames' = SetTop([Top EXCEPT !.cur = s, !.step = "child"])
                /\ UNCHANGED ret
  BY DEF SiblingFound
<1>6. /\ s \in Entry /\ s > Top.cur /\ UnitOf[s] = UnitOf[Top.cur] /\ Level[s] = Level[Top.cur]
      /\ \A m \in (Top.cur + 1) .. (s - 1) : Level[m] > Level[Top.cur]
  BY <1>5 DEF Siblings
<1>7. /\ Level[Top.cur] = Top.level /\ Top.cur <= e /\ UnitOf[Top.cur] = UnitOf[e]
  BY <1>3 DEF Reached
<1>8. s \in Nat /\ e \in Nat /\ Top.cur \in Nat
  BY <1>3, <1>6, EntryFacts
<1>9. e < s
  <2>1. ~(Top.cur + 1 <= s /\ s <= e)
    <3>1. SUFFICES ASSUME Top.cur + 1 <= s, s <= e
                   PROVE  FALSE
      OBVIOUS
    <3>2. Top.level + 1 <= Level[s]
      BY <1>4, <1>6, <3>1 DEF Deep
    <3> QED BY <1>3, <1>6, <1>7, <3>2
  <2> QED BY <1>6, <1>8, <2>1
<1>10. s = e + 1
  <2>1. SUFFICES ASSUME s # e + 1
                 PROVE  FALSE
    OBVIOUS
  <2>2. e + 1 \in Nat /\ Top.cur <= e + 1 /\ e + 1 <= s
    BY <1>7, <1>8, <1>9
  <2>3. e + 1 \in Entry /\ UnitOf[e + 1] = UnitOf[e]
    BY <1>3, <1>6, <1>7, <2>2, Between
  <2>4. Level[e + 1] <= Top.level
    BY <1>4, <2>3 DEF Shallow
  <2>5. e + 1 \in (Top.cur + 1) .. (s - 1)
    BY <1>7, <1>8, <1>9, <2>1
  <2>6. Level[e + 1] > Top.level
    BY <1>6, <1>7, <2>5
  <2> QED BY <1>3, <2>3, <2>4, <2>6, EntryFacts
<1>11. UnitOf[s] \in from /\ visited = EntriesTo(e) /\ ~search_finished /\ visited \cap want = {}
  BY <1>1, <1>2, <1>6, <1>7, WalkState DEF WalkedTo
<1>12. EntriesTo(s) = EntriesTo(e) \cup {s} /\ s \notin EntriesTo(e)
  BY <1>6, <1>10, <1>11, EntriesToNext
<1>13. visited' = visited \cup {s}
  BY <1>5 DEF Callback
<1> QED BY <1>2, <1>5, <1>6, <1>7, <1>10, <1>11, <1>12, <1>13

-----------------------------------------------------------------------------
(* The steps keep the order of the walk. *)

\* The positions of libdwarf as numbers.
LEMMA PositionNumbers ==
  ASSUME WInv
  PROVE  /\ at[TRUE] \in Nat /\ at[TRUE] <= NInfo /\ NInfo <= at[FALSE]
         /\ at[FALSE] \in Nat /\ at[FALSE] <= NUnits
         /\ NInfo \in Nat /\ NUnits \in Nat /\ \A u \in Unit : u \in 1 .. NUnits
         /\ \/ is_info = TRUE /\ at[is_info] = at[TRUE]
            \/ is_info = FALSE /\ at[is_info] = at[FALSE]
<1>1. at \in [BOOLEAN -> 0 .. NUnits] /\ is_info \in BOOLEAN
  BY DEF WInv, IInv, TypeOK
<1>2. \A s \in BOOLEAN : Start(s) <= at[s] /\ at[s] <= End(s)
  BY DEF WInv, IInv, Positions
<1>3. Start(TRUE) = 0 /\ End(TRUE) = NInfo /\ Start(FALSE) = NInfo /\ End(FALSE) = NUnits
  BY DEF Start, End
<1>4. at[TRUE] \in 0 .. NUnits /\ at[FALSE] \in 0 .. NUnits
  BY <1>1
<1>5. at[TRUE] <= NInfo /\ NInfo <= at[FALSE] /\ at[FALSE] <= NUnits
  <2>1. at[TRUE] <= End(TRUE) /\ Start(FALSE) <= at[FALSE] /\ at[FALSE] <= End(FALSE)
    BY <1>2
  <2> QED BY <1>3, <2>1
<1>6. is_info = TRUE \/ is_info = FALSE
  BY <1>1
<1>7. \/ is_info = TRUE /\ at[is_info] = at[TRUE]
      \/ is_info = FALSE /\ at[is_info] = at[FALSE]
  BY <1>6, Zenon
<1>8. \A n \in 0 .. NUnits : n \in Nat
  BY SizesAssumption
<1>9. at[TRUE] \in Nat /\ at[FALSE] \in Nat
  BY <1>4, <1>8, Zenon
<1>10. NInfo \in Nat /\ NUnits \in Nat /\ \A u \in Unit : u \in 1 .. NUnits
  BY SizesAssumption DEF Unit
<1> QED BY <1>5, <1>7, <1>9, <1>10, Zenon

\* What is ahead, when libdwarf is at a in the section, and at b in .debug_types.
ComingFrom(a, b) == \A u \in Unit : a < u => (u \in from <=> u <= NInfo \/ b < u)

LEMMA ComingOn ==
  ASSUME NEW a \in Nat, NEW b \in Nat, a <= NInfo, NInfo <= b, b <= NUnits,
         ComingFrom(a, b)
  PROVE  /\ a < NInfo => a + 1 \in from /\ ComingFrom(a + 1, b)
         /\ ComingFrom(b, b)
<1> USE SizesAssumption DEF Unit, ComingFrom
<1>1. a < NInfo => a + 1 \in from
  <2>1. a < NInfo => a + 1 \in Unit /\ a < a + 1 /\ a + 1 <= NInfo
    OBVIOUS
  <2> QED BY <2>1
<1>2. a < NInfo => ComingFrom(a + 1, b)
  OBVIOUS
<1>3. ComingFrom(b, b)
  OBVIOUS
<1> QED BY <1>1, <1>2, <1>3

LEMMA ComingInTypes ==
  ASSUME NEW b \in Nat, NInfo <= b, b < NUnits, ComingFrom(b, b)
  PROVE  b + 1 \in from /\ ComingFrom(b + 1, b + 1)
<1> USE SizesAssumption DEF Unit, ComingFrom
<1>1. b + 1 \in Unit /\ b < b + 1
  OBVIOUS
<1>2. b + 1 \in from
  BY <1>1
<1>3. ComingFrom(b + 1, b + 1)
  OBVIOUS
<1> QED BY <1>2, <1>3

LEMMA SameComing ==
  ASSUME Coming, UNCHANGED <<at, is_info, phase, from, answer>>
  PROVE  Coming'
BY Zenon DEF Coming

\* The units ahead: libdwarf moves forward in its section, and back to the start
\* of .debug_info only when all units there have been handed out.
LEMMA NextComing ==
  ASSUME WInv, [Next]_vars
  PROVE  Coming'
<1> DEFINE a == at[TRUE]
           b == at[FALSE]
<1>1. /\ a \in Nat /\ a <= NInfo /\ NInfo <= b /\ b \in Nat /\ b <= NUnits
      /\ \/ is_info = TRUE /\ at[is_info] = a
         \/ is_info = FALSE /\ at[is_info] = b
      /\ at \in [BOOLEAN -> 0 .. NUnits]
  BY PositionNumbers DEF WInv, IInv, TypeOK
<1>2. answer = "pending" => ComingFrom(at[is_info], b)
  BY Zenon DEF WInv, Coming, ComingFrom
<1>3. ASSUME from' = from, ComingFrom(at'[is_info'], at'[FALSE]), at'[is_info'] \in from
      PROVE  Coming'
  BY <1>3, Zenon DEF Coming, ComingFrom
<1>4. CASE HeaderFound
  <2>1. /\ answer = "pending" /\ from' = from /\ is_info' = is_info
        /\ at[is_info] < End(is_info) /\ at' = [at EXCEPT ![is_info] = @ + 1]
    BY <1>4 DEF HeaderFound, histVars
  <2>2. CASE is_info = TRUE
    <3>1. at[is_info] = a /\ End(is_info) = NInfo
      BY <2>2 DEF End
    <3>2. at'[is_info'] = a + 1 /\ at'[FALSE] = b
      <4>1. at' = [at EXCEPT ![TRUE] = a + 1]
        BY <2>1, <2>2
      <4>2. at'[TRUE] = a + 1 /\ at'[FALSE] = b
        BY <1>1, <4>1
      <4> QED BY <2>1, <2>2, <4>2, Zenon
    <3>3. ComingFrom(a, b) /\ a < NInfo
      BY <1>2, <2>1, <3>1
    <3> HIDE DEF a, b
    <3>4. a + 1 \in from /\ ComingFrom(a + 1, b)
      BY <1>1, <3>3, ComingOn
    <3> QED BY <1>3, <2>1, <3>2, <3>4, Zenon
  <2>3. CASE is_info = FALSE
    <3>1. at[is_info] = b /\ End(is_info) = NUnits
      BY <2>3 DEF End
    <3>2. at'[is_info'] = b + 1 /\ at'[FALSE] = b + 1
      <4>1. at' = [at EXCEPT ![FALSE] = b + 1]
        BY <2>1, <2>3
      <4>2. at'[FALSE] = b + 1
        BY <1>1, <4>1
      <4> QED BY <2>1, <2>3, <4>2, Zenon
    <3>3. ComingFrom(b, b) /\ b < NUnits
      BY <1>2, <2>1, <3>1
    <3> HIDE DEF a, b
    <3>4. b + 1 \in from /\ ComingFrom(b + 1, b + 1)
      BY <1>1, <3>3, ComingInTypes
    <3> QED BY <1>3, <2>1, <3>2, <3>4, Zenon
  <2> QED BY <1>1, <2>2, <2>3
<1>5. CASE InfoExhausted
  <2>1. /\ answer = "pending" /\ from' = from /\ is_info = TRUE /\ is_info' = FALSE
        /\ phase' = "header" /\ at' = [at EXCEPT ![TRUE] = Start(TRUE)]
    BY <1>5 DEF InfoExhausted, histVars
  <2>2. at'[FALSE] = b
    BY <1>1, <2>1
  <2>3. at'[is_info'] = b
    BY <2>1, <2>2, Zenon
  <2>4. ComingFrom(a, b)
    BY <1>1, <1>2, <2>1
  <2> HIDE DEF a, b
  <2>5. ComingFrom(b, b)
    BY <1>1, <2>4, ComingOn
  <2>6. ComingFrom(at'[is_info'], at'[FALSE])
    BY <2>2, <2>3, <2>5, Zenon
  <2> QED BY <2>1, <2>6, Zenon DEF Coming, ComingFrom
<1>6. CASE HeaderFails \/ TypesExhausted \/ CuFails
  BY <1>6 DEF HeaderFails, TypesExhausted, CuFails, Answer, Coming
<1>7. CASE CuFound
  <2>1. /\ answer = "pending" /\ phase = "cu" /\ UNCHANGED <<at, is_info, from, answer>>
    BY <1>7 DEF CuFound, Enter, Callback
  <2> QED BY <2>1, Zenon DEF WInv, Coming
<1>8. CASE CuReturns
  <2>1. answer = "pending" /\ phase' = "header" /\ UNCHANGED <<at, is_info, from>>
    BY <1>8 DEF CuReturns, histVars
  <2> QED BY <2>1, Zenon DEF WInv, Coming
<1>9. CASE ChildFails \/ ChildNone \/ ChildFound \/ ChildReturns
  <2>1. UNCHANGED <<at, is_info, phase, from, answer>>
    BY <1>9 DEF ChildFails, ChildNone, ChildFound, ChildReturns, Enter, Callback, histVars
  <2> QED BY <2>1, SameComing DEF WInv
<1>10. CASE SiblingFails \/ SiblingNone \/ SiblingFound
  <2>1. UNCHANGED <<at, is_info, phase, from, answer>>
    BY <1>10 DEF SiblingFails, SiblingNone, SiblingFound, Callback, histVars
  <2> QED BY <2>1, SameComing DEF WInv
<1>11. CASE IsValidCompiler \/ Ask
  <2>1. from' = Ahead /\ at' = at /\ is_info' = TRUE /\ phase' = "header"
    BY <1>11 DEF IsValidCompiler, Ask, Search
  <2>2. \A u \in Unit : at[TRUE] < u => (u \in Ahead <=> u <= NInfo \/ at[FALSE] < u)
    <3> SUFFICES ASSUME NEW u \in Unit, a < u
                 PROVE  u \in Ahead <=> u <= NInfo \/ b < u
      OBVIOUS
    <3>1. u \in Ahead <=> (InSection(u, TRUE) /\ u > a) \/ (InSection(u, FALSE) /\ u > b)
      BY DEF Ahead
    <3>2. InSection(u, TRUE) <=> 0 < u /\ u <= NInfo
      BY DEF InSection, Start, End
    <3>3. InSection(u, FALSE) <=> NInfo < u /\ u <= NUnits
      BY DEF InSection, Start, End
    <3> HIDE DEF a, b
    <3>4. u \in Nat /\ 0 < u /\ u <= NUnits /\ NInfo \in Nat /\ NUnits \in Nat
      BY SizesAssumption DEF Unit
    <3>5. u \in Ahead <=> (0 < u /\ u <= NInfo /\ u > a) \/ (NInfo < u /\ u <= NUnits /\ u > b)
      BY <3>1, <3>2, <3>3, Zenon
    <3>6. a \in Nat /\ b \in Nat /\ NInfo <= b
      BY <1>1
    <3> QED BY <3>4, <3>5, <3>6
  <2>3. at'[is_info'] = at[TRUE] /\ at'[FALSE] = at[FALSE]
    BY <2>1, Zenon
  <2> QED BY <2>1, <2>2, <2>3, Zenon DEF Coming
<1>12. CASE DwarfInit \/ Refused
  <2>1. UNCHANGED <<at, is_info, phase, from, answer>>
    BY <1>12 DEF DwarfInit, Refused, histVars
  <2> QED BY <2>1, SameComing DEF WInv
<1>13. CASE UNCHANGED vars
  <2>1. UNCHANGED <<at, is_info, phase, from, answer>>
    BY <1>13 DEF vars
  <2> QED BY <2>1, SameComing DEF WInv
<1> QED BY <1>4, <1>5, <1>6, <1>7, <1>8, <1>9, <1>10, <1>11, <1>12, <1>13 DEF Next, Step

\* An entry that is visited and wanted is the answer.
LEMMA VisitedIsAnswer ==
  ASSUME TypeOK, NEW e \in Entry, NEW l, Callback(e, l), want' = want,
         visited \cap want = {}, visited' = EntriesTo(e), UnitOf[e] \in from
  PROVE  IF e \in want THEN IsAnswer(found)' ELSE visited' \cap want' = {}
<1>1. visited' = visited \cup {e} /\ from' = from
  BY DEF Callback
<1>2. CASE e \in want
  <2>1. found' = e
    BY <1>2 DEF Callback
  <2>2. ASSUME NEW d \in want, UnitOf[d] \in from
        PROVE  e <= d
    <3>1. d \in Entry
      BY DEF TypeOK
    <3>2. d \in Nat /\ e \in Nat
      BY <3>1, EntryFacts
    <3>3. d <= e => d \in visited'
      BY <2>2, <3>1 DEF EntriesTo
    <3> QED BY <1>1, <3>2, <3>3
  <2> QED BY <1>1, <1>2, <2>1, <2>2 DEF IsAnswer
<1>3. CASE e \notin want
  BY <1>1, <1>3
<1> QED BY <1>2, <1>3

LEMMA WalkedToNext ==
  ASSUME NEW e \in Entry, UnitOf[e] = at[is_info], at' = at, is_info' = is_info,
         from' = from, visited' = EntriesTo(e), Stack(frames', e),
         ret' = "none" => frames' # <<>> /\ Resting(frames'[Len(frames')], e),
         ret' = "no_entry" => Returned(frames', e)
  PROVE  WalkedTo(e, frames, ret)'
BY DEF WalkedTo, EntriesTo

\* sd_search_dwarf_die is called for an entry that is not wanted.
LEMMA Entered ==
  ASSUME NEW gs \in Seq(Frame), NEW e \in Entry, NEW l \in Nat, Stack(gs, e), Level[e] = l,
         gs = <<>> => l = 0, Enter(gs, e, l), e \notin want
  PROVE  ret' = "none" /\ Stack(frames', e) /\ frames' # <<>> /\ Resting(frames'[Len(frames')], e)
<1> DEFINE f == [in |-> e, cur |-> e, child |-> Nobody, level |-> l, step |-> "child"]
<1>1. frames' = Append(gs, f) /\ ret' = "none"
  BY DEF Enter
<1>2. /\ f \in Frame /\ f.in = e /\ f.cur = e /\ f.level = l /\ f.step = "child"
  BY DEF Frame
<1> HIDE DEF f
<1>3. e <= e /\ \A x \in Entry : e <= x /\ x <= e => x = e
  BY EntryFacts
<1>4. Level[e] <= Level[e]
  BY EntryFacts
<1>5. Reached(f, e)
  BY <1>2, <1>3, <1>4 DEF Reached, Deep
<1>6. Stack(Append(gs, f), e)
  BY <1>2, <1>5, PushStack
<1>7. Append(gs, f)[Len(Append(gs, f))] = f /\ Append(gs, f) # <<>>
  BY <1>2
<1> QED BY <1>1, <1>2, <1>6, <1>7 DEF Resting

\* The rest of the proof that they do: for the headers.
LEMMA ThroughNext ==
  ASSUME NEW u \in Nat
  PROVE  Through(u) = Before(u + 1)
<1>1. \A d \in Entry : UnitOf[d] <= u <=> UnitOf[d] < u + 1
  BY EntryFacts
<1> HIDE DEF Entry
<1> QED BY <1>1 DEF Through, Before

\* In .debug_info nothing but its units is seen.
LEMMA ThroughInfo ==
  ASSUME NEW b \in Nat, NInfo <= b, ComingFrom(NInfo, b)
  PROVE  Through(NInfo) = Through(b)
<1>1. ASSUME NEW d \in Entry, UnitOf[d] \in from
      PROVE  UnitOf[d] <= NInfo <=> UnitOf[d] <= b
  <2>1. UnitOf[d] \in Unit /\ UnitOf[d] \in Nat /\ NInfo \in Nat
    BY EntryFacts, SizesAssumption
  <2>2. NInfo < UnitOf[d] => UnitOf[d] <= NInfo \/ b < UnitOf[d]
    BY <1>1, <2>1 DEF ComingFrom
  <2> QED BY <2>1, <2>2
<1> HIDE DEF Entry
<1> QED BY <1>1 DEF Through

\* The same answer, when nothing is found in a step.
LEMMA SameAnswer ==
  ASSUME FoundFirst, UNCHANGED <<answer, found, want, from, search_finished, ret>>,
         search_finished => phase' = "header"
  PROVE  FoundFirst'
BY Zenon DEF FoundFirst, IsAnswer

LEMMA HeaderKeeps ==
  ASSUME WInv, HeaderFails \/ HeaderFound \/ InfoExhausted \/ TypesExhausted
  PROVE  Walked' /\ FoundFirst'
<1> DEFINE a == at[TRUE]
           b == at[FALSE]
           u == at[is_info]
<1>1. answer = "pending" /\ phase = "header" /\ ret = "none"
  BY DEF WInv, IInv, Chain, HeaderFails, HeaderFound, InfoExhausted, TypesExhausted
<1>2. UNCHANGED <<want, found, search_finished, ret, visited, from>>
  BY DEF HeaderFails, HeaderFound, InfoExhausted, TypesExhausted, callVars, histVars
<1>3. CASE HeaderFails \/ TypesExhausted
  <2>1. answer' # "pending"
    BY <1>3 DEF HeaderFails, TypesExhausted, Answer
  <2> QED BY <2>1 DEF Walked, Seeking, FoundFirst
<1>4. ~search_finished => visited \cap want = {} /\ visited = Through(u)
  BY <1>1 DEF WInv, Walked, Seeking
<1>5. /\ u \in Nat /\ at \in [BOOLEAN -> 0 .. NUnits] /\ is_info \in BOOLEAN
  <2>1. /\ a \in Nat /\ b \in Nat
        /\ \/ is_info = TRUE /\ u = a
           \/ is_info = FALSE /\ u = b
    BY PositionNumbers
  <2> QED BY <2>1 DEF WInv, IInv, TypeOK
<1>6. CASE HeaderFound
  <2>1. /\ answer' = answer /\ is_info' = is_info /\ at' = [at EXCEPT ![is_info] = @ + 1]
        /\ phase' = IF search_finished THEN "header" ELSE "cu"
    BY <1>6 DEF HeaderFound
  <2>2. FoundFirst'
    BY <1>2, <2>1, SameAnswer DEF WInv
  <2>3. at'[is_info'] = u + 1
    BY <1>5, <2>1
  <2> HIDE DEF u
  <2>4. ASSUME ~search_finished
        PROVE  visited = Before(at'[is_info'])
    BY <1>4, <1>5, <2>3, <2>4, ThroughNext
  <2>5. Before(at'[is_info']) = Before(at[is_info])'
    BY <1>2 DEF Before
  <2>6. phase' = "cu" \/ search_finished
    BY <2>1
  <2> QED BY <1>2, <1>4, <2>1, <2>2, <2>4, <2>5, <2>6 DEF Walked, Seeking
<1>7. CASE InfoExhausted
  <2>1. /\ answer' = answer /\ phase' = phase /\ is_info = TRUE /\ is_info' = FALSE
        /\ at[TRUE] = End(TRUE) /\ at' = [at EXCEPT ![TRUE] = Start(TRUE)]
    BY <1>7 DEF InfoExhausted
  <2>2. FoundFirst'
    BY <1>1, <1>2, <2>1, SameAnswer DEF WInv
  <2>3. at'[is_info'] = b
    BY <1>5, <2>1
  <2>4. u = NInfo /\ ComingFrom(u, b)
    BY <1>1, <2>1, Zenon DEF End, WInv, Coming, ComingFrom
  <2>5. b \in Nat /\ NInfo <= b
    BY PositionNumbers
  <2> HIDE DEF u, b
  <2>6. Through(u) = Through(at'[is_info'])
    BY <2>3, <2>4, <2>5, ThroughInfo
  <2>7. Through(at'[is_info']) = Through(at[is_info])'
    BY <1>2 DEF Through
  <2>8. phase' = "header"
    BY <1>1, <2>1
  <2> QED BY <1>2, <1>4, <2>2, <2>6, <2>7, <2>8 DEF Walked, Seeking
<1> QED BY <1>3, <1>6, <1>7

\* For the entry of a unit.
LEMMA CuKeeps ==
  ASSUME WInv, CuFails \/ CuFound \/ CuReturns
  PROVE  Walked' /\ FoundFirst'
<1>1. CASE CuFails
  <2>1. answer' # "pending"
    BY <1>1 DEF CuFails, Answer
  <2> QED BY <2>1 DEF Walked, Seeking, FoundFirst
<1>2. CASE CuFound
  <2>1. PICK c \in Entry :
          /\ UnitOf[c] = at[is_info] /\ Level[c] = 0
          /\ Enter(<<>>, c, 0) /\ visited' = visited \cup {c}
          /\ visited' = EntriesTo(c) /\ c \notin visited
          /\ ~search_finished /\ visited \cap want = {}
    BY <1>2, CuPlace
  <2>2. /\ phase' = "walk" /\ UNCHANGED <<at, want, answer, is_info, search_finished, from>>
    BY <1>2 DEF CuFound, callVars, Enter, Callback
  <2>3. UnitOf[c] \in from
    BY <1>2, <2>1 DEF WInv, Coming, CuFound
  <2>4. IF c \in want THEN IsAnswer(found)' ELSE visited' \cap want' = {}
    BY <2>1, <2>2, <2>3, VisitedIsAnswer DEF Enter, WInv, IInv
  <2>5. CASE c \in want
    <3>1. ret' = "ok"
      BY <2>1, <2>5 DEF Enter
    <3> QED BY <2>1, <2>2, <2>4, <2>5, <3>1 DEF Walked, Seeking, FoundFirst
  <2>6. CASE c \notin want
    <3>1. <<>> \in Seq(Frame) /\ Stack(<<>>, c) /\ 0 \in Nat
      BY DEF Stack
    <3>2. /\ ret' = "none" /\ Stack(frames', c) /\ frames' # <<>>
          /\ Resting(frames'[Len(frames')], c)
      BY <2>1, <2>6, <3>1, Entered
    <3>3. WalkedTo(c, frames, ret)'
      BY <2>1, <2>2, <3>2, WalkedToNext
    <3> QED BY <2>1, <2>2, <2>4, <2>6, <3>2, <3>3 DEF Walked, Seeking, FoundFirst
  <2> QED BY <2>5, <2>6
<1>3. CASE CuReturns
  <2>1. /\ answer = "pending" /\ phase = "walk" /\ frames = <<>> /\ ret # "none"
        /\ ret' = "none" /\ phase' = "header"
        /\ answer' = IF ret = "error" THEN "error" ELSE answer
        /\ search_finished' = (search_finished \/ ret = "ok")
        /\ UNCHANGED <<at, want, is_info, found, visited, from>>
    BY <1>3 DEF CuReturns, callVars, histVars
  <2>2. ~search_finished
    BY <2>1 DEF WInv, FoundFirst
  <2>3. FoundFirst'
    BY <2>1, <2>2 DEF WInv, FoundFirst, IsAnswer
  <2>4. ASSUME Seeking'
        PROVE  visited \cap want = {} /\ visited = Through(at[is_info])
    <3>1. ret = "no_entry"
      BY <2>1, <2>4 DEF Seeking, WInv, IInv, TypeOK, Result
    <3>2. PICK e \in Entry : WalkedTo(e, frames, ret)
      BY <2>1, <3>1, WalkState
    <3>3. \A d \in Entry : UnitOf[d] = UnitOf[e] => d <= e
      BY <2>1, <3>1, <3>2 DEF WalkedTo, Returned
    <3>4. ASSUME NEW d \in Entry
          PROVE  d <= e <=> UnitOf[d] <= UnitOf[e]
      <4>1. d <= e => UnitOf[d] <= UnitOf[e]
        BY Preorder
      <4>2. UnitOf[d] < UnitOf[e] => d < e
        BY Preorder
      <4>3. d \in Nat /\ e \in Nat /\ UnitOf[d] \in Nat /\ UnitOf[e] \in Nat
        BY EntryFacts
      <4> QED BY <3>3, <4>1, <4>2, <4>3
    <3>5. EntriesTo(e) = Through(UnitOf[e])
      <4> HIDE DEF Entry
      <4> QED BY <3>4 DEF EntriesTo, Through
    <3> QED BY <2>1, <3>1, <3>2, <3>5, WalkState DEF WalkedTo
  <2>5. Through(at[is_info])' = Through(at[is_info])
    BY <2>1 DEF Through
  <2> QED BY <2>1, <2>3, <2>4, <2>5 DEF Walked
<1> QED BY <1>1, <1>2, <1>3

\* The whole stack is on its levels at the next entry.
LEMMA StackOn ==
  ASSUME WInv, answer = "pending", phase = "walk", frames # <<>>,
         NEW e \in Entry, Stack(frames, e), e + 1 \in Entry, UnitOf[e + 1] = UnitOf[e],
         Top.level <= Level[e + 1]
  PROVE  Stack(frames, e + 1) /\ Reached(Top, e + 1)
<1>1. Top.level \in Nat /\ Top \in Frame /\ Reached(Top, e)
  BY TopState
<1>2. ASSUME NEW i \in 1 .. Len(frames)
      PROVE  Reached(frames[i], e + 1)
  <2>1. frames[i] \in Frame /\ frames[i].level <= Top.level
    BY TopState
  <2>2. frames[i].level <= Level[e + 1]
    <3>1. frames[i].level \in Nat
      BY <2>1, FrameUpdates
    <3>2. Level[e + 1] \in Nat
      BY EntryFacts
    <3> QED BY <1>1, <2>1, <3>1, <3>2
  <2> QED BY <2>1, <2>2, ReachedOn DEF Stack
<1>3. Stack(frames, e + 1)
  BY <1>2 DEF Stack
<1> QED BY <1>1, <1>3, ReachedOn

\* What holds at an entry in the walk, for the activation that is on top.
LEMMA AtTop ==
  ASSUME WInv, answer = "pending", phase = "walk", frames # <<>>, ret \in {"none", "no_entry"},
         NEW e \in Entry, WalkedTo(e, frames, ret)
  PROVE  /\ UnitOf[e] = at[is_info] /\ visited = EntriesTo(e) /\ Stack(frames, e)
         /\ Top \in Frame /\ Reached(Top, e) /\ Top.in \in Entry /\ Top.cur \in Entry
         /\ Top.level \in Nat /\ frames \in Seq(Frame)
         /\ ret = "none" => Resting(Top, e)
         /\ ret = "no_entry" => /\ Top.step = "call" /\ Shallow(e, Top.level)
                                /\ Deep(Top.child, e, Top.level + 1)
<1>1. UnitOf[e] = at[is_info] /\ visited = EntriesTo(e) /\ Stack(frames, e)
  BY DEF WalkedTo
<1>2. /\ Top \in Frame /\ Reached(Top, e) /\ Top.in \in Entry /\ Top.cur \in Entry
      /\ Top.level \in Nat /\ frames \in Seq(Frame)
  BY <1>1, TopState, WalkState
<1>3. ret = "none" => Resting(Top, e)
  BY DEF WalkedTo, Top
<1>4. ret = "no_entry" => /\ Top.step = "call" /\ Shallow(e, Top.level)
                          /\ Deep(Top.child, e, Top.level + 1)
  BY DEF WalkedTo, Returned, Top
<1> QED BY <1>1, <1>2, <1>3, <1>4

\* The activation on top goes on without visiting anything.
LEMMA TopGoesOn ==
  ASSUME WInv, answer = "pending", phase = "walk", frames # <<>>, ret \in {"none", "no_entry"},
         NEW e \in Entry, WalkedTo(e, frames, ret),
         NEW g \in Frame, g.level = Top.level, Reached(g, e), Resting(g, e),
         frames' = SetTop(g), ret' = "none",
         UNCHANGED <<answer, phase, at, is_info, visited, from, want, found, search_finished>>
  PROVE  Walked' /\ FoundFirst'
<1>1. /\ UnitOf[e] = at[is_info] /\ visited = EntriesTo(e) /\ Stack(frames, e)
      /\ frames \in Seq(Frame)
  BY AtTop
<1>2. ~search_finished /\ visited \cap want = {}
  BY WalkState
<1>3. Stack(frames', e)
  BY <1>1, ReplaceStack DEF SetTop, Top
<1>4. frames' # <<>> /\ frames'[Len(frames')] = g
  BY <1>1, ExceptSeq, SeqFacts DEF SetTop
<1>5. WalkedTo(e, frames, ret)'
  BY <1>1, <1>3, <1>4, WalkedToNext
<1>6. FoundFirst'
  BY <1>2 DEF FoundFirst
<1> QED BY <1>2, <1>5, <1>6 DEF Walked, Seeking

\* It fails, or has found something.
LEMMA TopGivesUp ==
  ASSUME WInv, answer = "pending", phase = "walk", ~search_finished,
         UNCHANGED <<phase, search_finished>>, ret' \in {"ok", "error"},
         ret' = "ok" => IsAnswer(found)'
  PROVE  Walked' /\ FoundFirst'
BY DEF Walked, Seeking, FoundFirst

LEMMA ChildKeeps ==
  ASSUME WInv, ChildFails \/ ChildNone \/ ChildFound \/ ChildReturns
  PROVE  Walked' /\ FoundFirst'
<1>1. /\ answer = "pending" /\ frames # <<>>
      /\ UNCHANGED <<answer, phase, at, is_info, from, want, search_finished>>
  BY DEF ChildFails, ChildNone, ChildFound, ChildReturns, Walking, callVars, histVars,
         Enter, Callback
<1>2. phase = "walk" /\ ~search_finished
  BY <1>1 DEF WInv, IInv, Chain, FoundFirst
<1>3. CASE ChildFails
  BY <1>1, <1>2, <1>3, TopGivesUp DEF ChildFails, Return
<1>4. CASE ChildNone
  <2> DEFINE g == [Top EXCEPT !.step = "sibling"]
  <2>1. /\ ret = "none" /\ Top.step = "child" /\ Children(Top.cur) = {}
        /\ frames' = SetTop(g) /\ UNCHANGED <<visited, found, ret>>
    BY <1>4 DEF ChildNone, Walking, histVars
  <2>2. PICK e \in Entry : WalkedTo(e, frames, ret)
    BY <1>1, <1>2, <2>1, WalkState
  <2>3. Top \in Frame /\ Reached(Top, e) /\ Resting(Top, e) /\ Top.level \in Nat
    BY <1>1, <1>2, <2>1, <2>2, AtTop
  <2>4. Top.cur = e
    BY <2>1, <2>3 DEF Resting
  <2>5. /\ g \in Frame /\ g.level = Top.level /\ g.in = Top.in /\ g.cur = e
        /\ g.step = "sibling" /\ g.child = Top.child
    BY <2>3, <2>4, FrameUpdates DEF Frame
  <2> HIDE DEF g
  <2>6. Reached(g, e)
    BY <2>1, <2>3, <2>4, <2>5 DEF Reached
  <2>7. Shallow(e, g.level)
    <3> SUFFICES ASSUME NEW d \in Entry, d = e + 1, UnitOf[d] = UnitOf[e]
                 PROVE  Level[d] <= g.level
      BY DEF Shallow
    <3>1. Level[d] <= Level[e] + 1
      BY TreeAssumption
    <3>2. Level[d] # Level[e] + 1
      BY <2>1, <2>4 DEF Children
    <3>3. Level[e] = g.level
      BY <2>4, <2>5, <2>6 DEF Reached
    <3> QED BY <3>1, <3>2, <3>3, EntryFacts
  <2>8. Deep(g.cur + 1, e, g.level + 1)
    BY <2>5, EntryFacts DEF Deep
  <2>9. Resting(g, e)
    BY <2>5, <2>7, <2>8 DEF Resting
  <2> QED BY <1>1, <1>2, <2>1, <2>2, <2>5, <2>6, <2>9, TopGoesOn
<1>5. CASE ChildFound
  <2>1. PICK c : c = Top.cur + 1
    OBVIOUS
  <2> DEFINE g == [Top EXCEPT !.step = "call", !.child = c]
             gs == SetTop(g)
             e == Top.cur
  <2>2. /\ e \in Entry /\ WalkedTo(e, frames, ret)
        /\ c \in Entry /\ UnitOf[c] = UnitOf[e] /\ Level[c] = Top.level + 1
        /\ Enter(gs, c, Top.level + 1)
        /\ visited' = EntriesTo(c) /\ visited' = visited \cup {c} /\ c \notin visited
        /\ ~search_finished /\ visited \cap want = {}
    BY <1>5, <2>1, ChildPlace
  <2>3. ret = "none"
    BY <1>5 DEF ChildFound, Walking
  <2>4. /\ UnitOf[e] = at[is_info] /\ Stack(frames, e) /\ Top \in Frame /\ Reached(Top, e)
        /\ Top.level \in Nat /\ frames \in Seq(Frame)
    BY <1>1, <1>2, <2>2, <2>3, AtTop
  <2>5. UnitOf[c] \in from
    BY <1>1, <1>2, <2>2, <2>4 DEF WInv, Coming
  <2>6. IF c \in want THEN IsAnswer(found)' ELSE visited' \cap want' = {}
    BY <1>1, <2>2, <2>5, VisitedIsAnswer DEF Enter, WInv, IInv
  <2>7. CASE c \in want
    <3>1. ret' = "ok"
      BY <2>2, <2>7 DEF Enter
    <3> QED BY <1>1, <1>2, <2>6, <2>7, <3>1, TopGivesUp
  <2>8. CASE c \notin want
    <3>1. Stack(frames, c) /\ Reached(Top, c)
      BY <1>1, <1>2, <2>1, <2>2, <2>4, StackOn
    <3>2. /\ g \in Frame /\ g.level = Top.level /\ g.in = Top.in /\ g.cur = Top.cur
          /\ g.step = "call" /\ g.child = c
      BY <2>2, <2>4, FrameUpdates DEF Frame
    <3>3. c <= c
      BY <2>2, EntryFacts
    <3> HIDE DEF g
    <3>4. Reached(g, c)
      BY <2>1, <2>2, <3>1, <3>2, <3>3 DEF Reached
    <3>5. Stack(gs, c)
      BY <1>1, <2>4, <3>1, <3>2, <3>4, ReplaceStack DEF SetTop, Top
    <3>6. gs \in Seq(Frame) /\ gs # <<>>
      BY <1>1, <2>4, <3>2, FramesType, ExceptSeq, SeqFacts DEF SetTop
    <3> HIDE DEF gs
    <3>7. /\ ret' = "none" /\ Stack(frames', c) /\ frames' # <<>>
          /\ Resting(frames'[Len(frames')], c)
      BY <2>2, <2>4, <2>8, <3>5, <3>6, Entered
    <3>8. WalkedTo(c, frames, ret)'
      BY <1>1, <2>2, <2>4, <3>7, WalkedToNext
    <3> QED BY <1>1, <1>2, <2>2, <2>6, <2>8, <3>7, <3>8 DEF Walked, Seeking, FoundFirst
  <2> QED BY <2>7, <2>8
<1>6. CASE ChildReturns
  <2>1. UNCHANGED <<visited, found>> /\ ret # "none" /\ Top.step = "call"
    BY <1>6 DEF ChildReturns, histVars
  <2>2. CASE ret = "no_entry"
    <3> DEFINE g == [Top EXCEPT !.step = "sibling", !.child = Nobody]
    <3>1. frames' = SetTop(g) /\ ret' = "none"
      BY <1>6, <2>2 DEF ChildReturns
    <3>2. PICK e \in Entry : WalkedTo(e, frames, ret)
      BY <1>1, <1>2, <2>2, WalkState
    <3>3. /\ Top \in Frame /\ Reached(Top, e) /\ Shallow(e, Top.level)
          /\ Deep(Top.child, e, Top.level + 1)
      BY <1>1, <1>2, <2>2, <3>2, AtTop
    <3>4. /\ g \in Frame /\ g.level = Top.level /\ g.in = Top.in /\ g.cur = Top.cur
          /\ g.step = "sibling"
      BY <3>3, FrameUpdates DEF Frame
    <3> HIDE DEF g
    <3>5. Reached(g, e) /\ Resting(g, e)
      BY <2>1, <3>3, <3>4 DEF Reached, Resting
    <3> QED BY <1>1, <1>2, <2>1, <2>2, <3>1, <3>2, <3>4, <3>5, TopGoesOn
  <2>3. CASE ret # "no_entry"
    <3>1. ret' = ret /\ ret \in {"ok", "error"}
      BY <1>6, <2>1, <2>3 DEF ChildReturns, WInv, IInv, TypeOK, Result
    <3>2. ret' = "ok" => IsAnswer(found)'
      BY <1>1, <2>1, <3>1 DEF WInv, FoundFirst, IsAnswer
    <3> QED BY <1>1, <1>2, <3>1, <3>2, TopGivesUp
  <2> QED BY <2>2, <2>3
<1> QED BY <1>3, <1>4, <1>5, <1>6

\* Without a sibling, the walk has come to the end of the level.
LEMMA LevelEnds ==
  ASSUME NEW f \in Frame, NEW e \in Entry, Reached(f, e), Siblings(f.cur) = {},
         Deep(f.cur + 1, e, f.level + 1), Shallow(e, f.level),
         NEW d \in Entry, d = e + 1, UnitOf[d] = UnitOf[e]
  PROVE  Level[d] < f.level
<1>1. f.cur \in Entry /\ f.level \in Nat
  BY FrameUpdates
<1>2. f.cur \in Nat /\ e \in Nat /\ Level[d] \in Nat
  BY <1>1, EntryFacts
<1>3. f.cur <= e /\ UnitOf[f.cur] = UnitOf[e] /\ Level[f.cur] = f.level
  BY DEF Reached
<1>4. Level[d] <= f.level
  BY DEF Shallow
<1>5. SUFFICES ASSUME Level[d] = f.level
               PROVE  FALSE
  BY <1>1, <1>2, <1>4
<1>6. ASSUME NEW m \in (f.cur + 1) .. (d - 1)
      PROVE  Level[m] > Level[f.cur]
  <2>1. m \in Nat /\ f.cur + 1 <= m /\ m <= e /\ f.cur <= m
    BY <1>2
  <2>2. m \in Entry
    BY <1>1, <1>3, <2>1, Between
  <2>3. f.level + 1 <= Level[m]
    BY <2>1, <2>2 DEF Deep
  <2> QED BY <1>1, <1>3, <2>2, <2>3, EntryFacts
<1>7. d > f.cur
  BY <1>2, <1>3
<1>8. d \in Siblings(f.cur)
  BY <1>3, <1>5, <1>6, <1>7 DEF Siblings
<1> QED BY <1>8

LEMMA SiblingKeeps ==
  ASSUME WInv, SiblingFails \/ SiblingNone \/ SiblingFound
  PROVE  Walked' /\ FoundFirst'
<1>1. /\ answer = "pending" /\ frames # <<>> /\ phase = "walk" /\ ret = "none"
      /\ Top.step = "sibling"
      /\ UNCHANGED <<answer, phase, at, is_info, from, want, search_finished>>
  BY DEF SiblingFails, SiblingNone, SiblingFound, Walking, callVars, histVars, Callback
<1>2. ~search_finished /\ visited \cap want = {} /\ Nested(frames, cu, Known)
  BY <1>1, WalkState
<1>3. CASE SiblingFails
  BY <1>1, <1>2, <1>3, TopGivesUp DEF SiblingFails, Return
<1>4. CASE SiblingNone
  <2>1. /\ Siblings(Top.cur) = {} /\ UNCHANGED <<visited, found>>
        /\ frames' = Callers /\ ret' = "no_entry"
    BY <1>4 DEF SiblingNone, Return, histVars
  <2>2. PICK e \in Entry : WalkedTo(e, frames, ret)
    BY <1>1, WalkState
  <2>3. /\ UnitOf[e] = at[is_info] /\ visited = EntriesTo(e) /\ Stack(frames, e)
        /\ Top \in Frame /\ Reached(Top, e) /\ Top.level \in Nat /\ frames \in Seq(Frame)
        /\ Deep(Top.cur + 1, e, Top.level + 1) /\ Shallow(e, Top.level)
    BY <1>1, <2>2, AtTop DEF Resting
  <2>4. ASSUME NEW d \in Entry, d = e + 1, UnitOf[d] = UnitOf[e]
        PROVE  Level[d] < Top.level
    BY <2>1, <2>3, <2>4, LevelEnds
  <2>5. Stack(Callers, e)
    BY <1>1, <2>3, PopStack DEF Callers
  <2> DEFINE n == Len(frames)
  <2>6. n \in Nat /\ n \in 1 .. n
    BY <1>1, <2>3, SeqFacts
  <2>7. Len(Callers) = n - 1 /\ \A i \in 1 .. n - 1 : Callers[i] = frames[i]
    BY <1>1, <2>3, PopSeq DEF Callers
  <2>8. Returned(Callers, e)
    <3>1. CASE Callers = <<>>
      <4>1. n = 1
        BY <2>6, <2>7, <3>1
      <4>2. Top.level = 0
        BY <1>1, <2>3, <4>1 DEF Stack, Top
      <4>3. ASSUME NEW d \in Entry, UnitOf[d] = UnitOf[e], ~(d <= e)
            PROVE  FALSE
        <5>1. e \in Nat /\ d \in Nat /\ e <= e + 1 /\ e + 1 <= d /\ e + 1 \in Nat
          BY <4>3, EntryFacts
        <5>2. e + 1 \in Entry /\ UnitOf[e + 1] = UnitOf[e]
          BY <4>3, <5>1, Between
        <5>3. Level[e + 1] < 0 /\ Level[e + 1] \in Nat
          BY <2>4, <4>2, <5>2, EntryFacts
        <5> QED BY <5>3
      <4> QED BY <3>1, <4>3 DEF Returned
    <3>2. CASE Callers # <<>>
      <4> DEFINE f == frames[n - 1]
      <4>1. n - 1 \in 1 .. n - 1 /\ n - 1 \in 1 .. n /\ n - 1 < n /\ (n - 1) + 1 = n
        <5>1. Callers \in Seq(Frame)
          BY <2>3, FramesType
        <5>2. Len(Callers) \in 1 .. Len(Callers)
          BY <3>2, <5>1, SeqFacts
        <5> QED BY <2>6, <2>7, <5>2
      <4>2. f.step = "call" /\ f.child = Top.in
        BY <1>2, <2>6, <4>1 DEF Nested, Top
      <4>3. Reached(f, e) /\ f \in Frame
        BY <2>3, <4>1, SeqFacts DEF Stack
      <4>4. Top.level = f.level + 1 /\ Deep(f.child, e, f.level + 1)
        BY <2>3, <4>2, <4>3 DEF Reached
      <4>5. Shallow(e, f.level)
        <5> SUFFICES ASSUME NEW d \in Entry, d = e + 1, UnitOf[d] = UnitOf[e]
                     PROVE  Level[d] <= f.level
          BY DEF Shallow
        <5>1. Level[d] < f.level + 1 /\ Level[d] \in Nat /\ f.level \in Nat
          BY <2>4, <4>3, <4>4, FrameUpdates, EntryFacts
        <5> QED BY <5>1
      <4>6. Callers[Len(Callers)] = f
        BY <2>7, <4>1
      <4> QED BY <3>2, <4>2, <4>4, <4>5, <4>6 DEF Returned
    <3> QED BY <3>1, <3>2
  <2>9. WalkedTo(e, frames, ret)'
    BY <1>1, <2>1, <2>3, <2>5, <2>8, WalkedToNext DEF EntriesTo
  <2> QED BY <1>1, <1>2, <2>1, <2>9 DEF Walked, Seeking, FoundFirst
<1>5. CASE SiblingFound
  <2>1. PICK e \in Entry, s \in Entry :
           /\ s = e + 1 /\ WalkedTo(e, frames, ret)
           /\ UnitOf[s] = UnitOf[e] /\ Level[s] = Top.level
           /\ Callback(s, Top.level)
           /\ IF s \in want THEN Return("ok")
              ELSE /\ frames' = SetTop([Top EXCEPT !.cur = s, !.step = "child"])
                   /\ UNCHANGED ret
           /\ visited' = EntriesTo(s) /\ visited' = visited \cup {s} /\ s \notin visited
    BY <1>5, SiblingPlace
  <2>2. /\ UnitOf[e] = at[is_info] /\ Stack(frames, e) /\ Top \in Frame /\ Reached(Top, e)
        /\ Top.level \in Nat /\ frames \in Seq(Frame)
    BY <1>1, <2>1, AtTop
  <2>3. UnitOf[s] \in from
    BY <1>1, <2>1, <2>2 DEF WInv, Coming
  <2>4. IF s \in want THEN IsAnswer(found)' ELSE visited' \cap want' = {}
    BY <1>1, <1>2, <2>1, <2>3, VisitedIsAnswer DEF WInv, IInv
  <2>5. CASE s \in want
    <3>1. ret' = "ok"
      BY <2>1, <2>5 DEF Return
    <3> QED BY <1>1, <1>2, <2>4, <2>5, <3>1, TopGivesUp
  <2>6. CASE s \notin want
    <3> DEFINE g == [Top EXCEPT !.cur = s, !.step = "child"]
    <3>1. frames' = SetTop(g) /\ ret' = "none"
      BY <1>1, <2>1, <2>6
    <3>2. Stack(frames, s) /\ Reached(Top, s)
      BY <1>1, <2>1, <2>2, StackOn
    <3>3. /\ g \in Frame /\ g.level = Top.level /\ g.in = Top.in /\ g.cur = s
          /\ g.step = "child"
      BY <2>2, FrameUpdates DEF Frame
    <3>4. s <= s
      BY EntryFacts
    <3> HIDE DEF g
    <3>5. Reached(g, s)
      BY <2>1, <3>2, <3>3, <3>4 DEF Reached
    <3>6. Stack(frames', s)
      BY <1>1, <2>2, <3>1, <3>2, <3>3, <3>5, ReplaceStack DEF SetTop, Top
    <3>7. frames' # <<>> /\ frames'[Len(frames')] = g
      BY <1>1, <2>2, <3>1, ExceptSeq, SeqFacts DEF SetTop
    <3>8. Resting(g, s)
      BY <3>3 DEF Resting
    <3>9. WalkedTo(s, frames, ret)'
      BY <1>1, <2>1, <2>2, <3>1, <3>6, <3>7, <3>8, WalkedToNext
    <3> QED BY <1>1, <1>2, <2>4, <2>6, <3>1, <3>9 DEF Walked, Seeking, FoundFirst
  <2> QED BY <2>5, <2>6
<1> QED BY <1>3, <1>4, <1>5

\* For the callers.
LEMMA CallersKeep ==
  ASSUME WInv, IsValidCompiler \/ DwarfInit \/ Ask \/ Refused \/ UNCHANGED vars
  PROVE  Walked' /\ FoundFirst'
<1>1. CASE IsValidCompiler \/ Ask
  <2>1. /\ from' = Ahead /\ at' = at /\ is_info' = TRUE /\ phase' = "header" /\ visited' = {}
        /\ search_finished' = FALSE /\ ret' = "none" /\ answer' = "pending"
    BY <1>1 DEF IsValidCompiler, Ask, Search
  <2>2. Through(at[is_info])' = {}
    <3>1. at'[is_info'] = at[TRUE]
      BY <2>1, Zenon
    <3>2. ASSUME NEW d \in Entry, UnitOf[d] \in Ahead
          PROVE  ~(UnitOf[d] <= at[TRUE])
      <4> DEFINE u == UnitOf[d]
                 a == at[TRUE]
                 b == at[FALSE]
      <4>1. (InSection(u, TRUE) /\ u > a) \/ (InSection(u, FALSE) /\ u > b)
        BY <3>2 DEF Ahead
      <4>2. InSection(u, FALSE) => NInfo < u
        BY DEF InSection, Start
      <4>3. a \in Nat /\ b \in Nat /\ a <= NInfo /\ NInfo <= b /\ u \in Nat
        BY PositionNumbers, EntryFacts
      <4>4. u > a \/ (NInfo < u /\ u > b)
        BY <4>1, <4>2, Zenon
      <4>5. ~(u <= a)
        <5> HIDE DEF u, a, b
        <5> QED BY <4>3, <4>4, SizesAssumption
      <4> QED BY <4>5
    <3> HIDE DEF Entry
    <3> QED BY <2>1, <3>1, <3>2 DEF Through
  <2> QED BY <2>1, <2>2 DEF Walked, FoundFirst
<1>2. CASE DwarfInit
  BY <1>2 DEF DwarfInit, Walked, Seeking, FoundFirst
<1>3. CASE Refused \/ UNCHANGED vars
  <2>1. UNCHANGED <<answer, want, visited, from, at, is_info, search_finished, ret, phase,
                    frames, found>>
    BY <1>3 DEF Refused, vars, histVars
  <2>2. FoundFirst'
    BY <2>1 DEF WInv, FoundFirst, IsAnswer
  <2>3. /\ Seeking' = Seeking /\ Through(at[is_info])' = Through(at[is_info])
        /\ Before(at[is_info])' = Before(at[is_info])
    BY <2>1 DEF Seeking, Through, Before
  <2>4. \A e \in Entry : WalkedTo(e, frames, ret)' = WalkedTo(e, frames, ret)
    BY <2>1 DEF WalkedTo, EntriesTo
  <2> QED BY <2>1, <2>2, <2>3, <2>4 DEF WInv, Walked
<1> QED BY <1>1, <1>2, <1>3

LEMMA NextUnread ==
  ASSUME Unread, [Next]_vars
  PROVE  Unread'
<1> USE DEF Unread
<1>1. CASE Step
  <2>1. answer = "pending" /\ dbg' = dbg
    BY <1>1 DEF Step, HeaderFails, CuFails, HeaderFound, InfoExhausted, TypesExhausted,
       CuFound, CuReturns, ChildFails, ChildNone, ChildFound, ChildReturns, SiblingFails,
       SiblingNone, SiblingFound, Walking, callVars
  <2> QED BY <2>1
<1>2. CASE IsValidCompiler \/ DwarfInit \/ Ask \/ Refused
  <2>1. dbg' # "closed"
    BY <1>2 DEF IsValidCompiler, DwarfInit, Ask, Refused
  <2> QED BY <2>1
<1>3. CASE UNCHANGED vars
  <2>1. UNCHANGED <<dbg, answer, at>>
    BY <1>3 DEF vars
  <2> QED BY <2>1 DEF Start
<1> QED BY <1>1, <1>2, <1>3 DEF Next

LEMMA InitWalk == Init => WInv
<1> SUFFICES ASSUME Init
             PROVE  WInv
  OBVIOUS
<1>1. IInv
  <2>1. Chain /\ NoLeak /\ TurnedDown
    BY DEF Init, Chain, NoLeak, TurnedDown
  <2> QED BY <2>1, InitType, InitPositions DEF IInv
<1>2. answer = "none" /\ Unread
  BY DEF Init, Unread
<1> QED BY <1>1, <1>2 DEF WInv, Coming, Walked, Seeking, FoundFirst

LEMMA NextWalk ==
  ASSUME WInv, [Next]_vars
  PROVE  WInv'
<1>1. IInv'
  BY NextType, NextPositions, NextChain, NextTurnedDown DEF WInv, IInv
<1>2. Coming'
  BY NextComing
<1>3. Walked' /\ FoundFirst'
  BY HeaderKeeps, CuKeeps, ChildKeeps, SiblingKeeps, CallersKeep DEF Next, Step
<1> QED BY <1>1, <1>2, <1>3, NextUnread DEF WInv

-----------------------------------------------------------------------------
(* The answers. *)

\* What a search tells its caller.
Answers ==
  /\ answer = "no_entry" => \A e \in want : UnitOf[e] \notin from
  /\ answer = "ok" => IsAnswer(found)

\* All units are seen at the end of .debug_types.
LEMMA EndAnswers ==
  ASSUME WInv, TypesExhausted
  PROVE  Answers' /\ UNCHANGED <<want, from, found>>
<1>1. /\ answer = "pending" /\ phase = "header" /\ is_info = FALSE
      /\ at[FALSE] = End(FALSE) /\ answer' = IF search_finished THEN "ok" ELSE "no_entry"
      /\ UNCHANGED <<want, from, found>>
  <2>1. is_info \in BOOLEAN
    BY DEF WInv, IInv, TypeOK
  <2> QED BY <2>1 DEF TypesExhausted, Answer, callVars, histVars
<1>2. CASE search_finished
  BY <1>1, <1>2 DEF WInv, FoundFirst, Answers, IsAnswer
<1>3. CASE ~search_finished
  <2>1. ret = "none"
    BY <1>1 DEF WInv, IInv, Chain
  <2>2. visited = Through(at[is_info]) /\ visited \cap want = {}
    BY <1>1, <1>3, <2>1 DEF WInv, Walked, Seeking
  <2>3. at[is_info] = NUnits
    BY <1>1, Zenon DEF End
  <2>4. ASSUME NEW e \in want, UnitOf[e] \in from
        PROVE  FALSE
    <3>1. e \in Entry
      BY DEF WInv, IInv, TypeOK
    <3>2. UnitOf[e] <= NUnits
      BY <3>1, EntryFacts, SizesAssumption DEF Unit
    <3>3. e \in Through(NUnits)
      BY <2>4, <3>1, <3>2 DEF Through
    <3> QED BY <2>2, <2>3, <3>3, Zenon
  <2> QED BY <1>1, <1>3, <2>4 DEF Answers
<1> QED BY <1>1, <1>2, <1>3

LEMMA NextAnswers ==
  ASSUME WInv, Answers, [Next]_vars
  PROVE  Answers'
<1>1. CASE TypesExhausted
  BY <1>1, EndAnswers
<1>2. CASE HeaderFails \/ CuFails \/ HeaderFound \/ InfoExhausted \/ CuFound
  BY <1>2 DEF HeaderFails, CuFails, HeaderFound, InfoExhausted, CuFound, Answer, Answers
<1>3. CASE CuReturns
  BY <1>3 DEF CuReturns, Answers
<1>4. CASE ChildFails \/ ChildNone \/ ChildFound \/ ChildReturns
  BY <1>4 DEF ChildFails, ChildNone, ChildFound, ChildReturns, Walking, Answers
<1>5. CASE SiblingFails \/ SiblingNone \/ SiblingFound
  BY <1>5 DEF SiblingFails, SiblingNone, SiblingFound, Walking, Answers
<1>6. CASE IsValidCompiler \/ Ask
  BY <1>6 DEF IsValidCompiler, Ask, Search, Answers
<1>7. CASE DwarfInit \/ Refused \/ UNCHANGED vars
  <2>1. UNCHANGED <<answer, want, from, found>>
    BY <1>7 DEF DwarfInit, Refused, vars, histVars
  <2> QED BY <2>1 DEF Answers, IsAnswer
<1> QED BY <1>1, <1>2, <1>3, <1>4, <1>5, <1>6, <1>7 DEF Next, Step

-----------------------------------------------------------------------------
(* The search implements EntrySearch. *)

LEMMA AllAhead ==
  ASSUME at = [s \in BOOLEAN |-> Start(s)]
  PROVE  Ahead = Unit
<1>1. ASSUME NEW u \in Unit
      PROVE  \E s \in BOOLEAN : InSection(u, s) /\ u > at[s]
  <2>1. at[TRUE] = 0 /\ at[FALSE] = NInfo
    BY DEF Start
  <2>2. u \in Nat /\ 0 < u /\ u <= NUnits /\ NInfo \in Nat
    BY SizesAssumption DEF Unit
  <2>3. CASE u <= NInfo
    <3>1. InSection(u, TRUE)
      BY <2>2, <2>3 DEF InSection, Start, End
    <3>2. u > at[TRUE]
      BY <2>1, <2>2
    <3> QED BY <3>1, <3>2, Zenon
  <2>4. CASE NInfo < u
    <3>1. InSection(u, FALSE)
      BY <2>2, <2>4 DEF InSection, Start, End
    <3>2. u > at[FALSE]
      BY <2>1, <2>2, <2>4
    <3> QED BY <3>1, <3>2, Zenon
  <2> QED BY <2>2, <2>3, <2>4
<1> QED BY <1>1, Zenon DEF Ahead

LEMMA AbstractInit == Init => Abstract!Init
<1> SUFFICES ASSUME Init
             PROVE  Abstract!Init
  OBVIOUS
<1>1. Ahead = Unit
  BY AllAhead DEF Init
<1> QED BY <1>1 DEF Init, Abstract!Init, Nobody

\* What the caller does not see.
LEMMA SearchGoesOn ==
  ASSUME answer = "pending", UNCHANGED <<answer, want, from>>
  PROVE  UNCHANGED Abstract!vars
BY DEF Abstract!vars

LEMMA SearchFails ==
  ASSUME answer = "pending", answer' = "error", UNCHANGED want
  PROVE  Abstract!Failed
<1>1. Ahead' \in SUBSET Unit
  BY DEF Ahead
<1> QED BY <1>1 DEF Abstract!Failed

LEMMA SearchBegins ==
  ASSUME answer # "pending", NEW w, Search(w)
  PROVE  Abstract!Ask(w.accepts)
BY DEF Search, Abstract!Ask, Nobody

LEMMA SearchEnds ==
  ASSUME WInv, AnswerLeavesStart', TypesExhausted
  PROVE  Abstract!Found \/ Abstract!Absent
<1>1. Answers' /\ UNCHANGED <<want, from, found>>
  BY EndAnswers
<1>2. answer = "pending" /\ (answer' = "ok" \/ answer' = "no_entry")
  BY DEF TypesExhausted, Answer
<1>3. Ahead' = Unit
  <2>1. at' = [s \in BOOLEAN |-> Start(s)]
    BY <1>2 DEF AnswerLeavesStart
  <2>2. (at = [s \in BOOLEAN |-> Start(s)])'
    BY <2>1 DEF Start
  <2>3. (Ahead = Unit)'
    BY <2>2, AllAhead, PTL
  <2> QED BY <2>3 DEF Unit
<1>4. CASE answer' = "ok"
  <2>1. IsAnswer(found)
    BY <1>1, <1>4 DEF Answers, IsAnswer
  <2>2. Abstract!Found
    BY <1>1, <1>2, <1>3, <1>4, <2>1 DEF IsAnswer, Abstract!Found, Abstract!Accepted
  <2> QED BY <2>2
<1>5. CASE answer' = "no_entry"
  <2>1. \A e \in want : UnitOf[e] \notin from
    BY <1>1, <1>5 DEF Answers
  <2>2. Abstract!Absent
    BY <1>1, <1>2, <1>3, <1>5, <2>1 DEF Abstract!Absent, Abstract!Accepted
  <2> QED BY <2>2
<1> QED BY <1>2, <1>4, <1>5

LEMMA AbstractStep ==
  ASSUME WInv, AnswerLeavesStart', [Next]_vars
  PROVE  [Abstract!Next]_(Abstract!vars)
<1>1. CASE TypesExhausted
  BY <1>1, SearchEnds DEF Abstract!Next
<1>2. CASE HeaderFails \/ CuFails
  <2>1. answer = "pending" /\ answer' = "error" /\ UNCHANGED want
    BY <1>2 DEF HeaderFails, CuFails, Answer, callVars
  <2> QED BY <2>1, SearchFails DEF Abstract!Next
<1>3. CASE CuReturns
  <2>1. /\ answer = "pending" /\ UNCHANGED <<want, from>>
        /\ answer' = IF ret = "error" THEN "error" ELSE answer
    BY <1>3 DEF CuReturns, callVars, histVars
  <2> QED BY <2>1, SearchFails, SearchGoesOn DEF Abstract!Next
<1>4. CASE HeaderFound \/ InfoExhausted \/ CuFound
  <2>1. answer = "pending" /\ UNCHANGED <<answer, want, from>>
    BY <1>4 DEF HeaderFound, InfoExhausted, CuFound, Enter, Callback, callVars, histVars
  <2> QED BY <2>1, SearchGoesOn
<1>5. CASE ChildFails \/ ChildNone \/ ChildFound \/ ChildReturns
  <2>1. answer = "pending" /\ UNCHANGED <<answer, want, from>>
    BY <1>5 DEF ChildFails, ChildNone, ChildFound, ChildReturns, Walking, Enter, Callback,
       callVars, histVars
  <2> QED BY <2>1, SearchGoesOn
<1>6. CASE SiblingFails \/ SiblingNone \/ SiblingFound
  <2>1. answer = "pending" /\ UNCHANGED <<answer, want, from>>
    BY <1>6 DEF SiblingFails, SiblingNone, SiblingFound, Walking, Callback, callVars, histVars
  <2> QED BY <2>1, SearchGoesOn
<1>7. CASE IsValidCompiler
  <2>1. \A u \in foreign : CuEntry(u) \in Entry
    BY CuEntryType, SizesAssumption DEF WInv, IInv, TypeOK, Unit
  <2>2. {CuEntry(u) : u \in foreign} \in SUBSET Entry
    BY <2>1
  <2>3. answer # "pending"
    BY <1>7 DEF IsValidCompiler, WInv, Unread
  <2>4. \E w : Search(w) /\ w.accepts = {CuEntry(u) : u \in foreign}
    BY <1>7 DEF IsValidCompiler
  <2>5. \E a \in SUBSET Entry : Abstract!Ask(a)
    BY <2>2, <2>3, <2>4, SearchBegins
  <2> QED BY <2>5 DEF Abstract!Next
<1>8. CASE Ask
  <2>1. PICK w \in Wanted : Search(w)
    BY <1>8 DEF Ask
  <2>2. w.accepts \in SUBSET Entry /\ answer # "pending"
    BY <1>8, WantedAssumption DEF Ask
  <2>3. Abstract!Ask(w.accepts)
    BY <2>1, <2>2, SearchBegins
  <2> QED BY <2>2, <2>3 DEF Abstract!Next
<1>9. CASE DwarfInit \/ Refused \/ UNCHANGED vars
  <2>1. UNCHANGED <<answer, want, from, at, found>>
    BY <1>9 DEF DwarfInit, Refused, vars, histVars
  <2>2. Ahead' = Ahead
    BY <2>1 DEF Ahead, InSection, Start, End, Unit
  <2> QED BY <2>1, <2>2 DEF Abstract!vars
<1> QED BY <1>1, <1>2, <1>3, <1>4, <1>5, <1>6, <1>7, <1>8, <1>9 DEF Next, Step

-----------------------------------------------------------------------------
(* A file that was opened is not damaged. *)

\* None of the calls that the search has made until now is one of the broken.
HeadersRead ==
  \A u \in Unit : u <= at[is_info] =>
    /\ <<"header", u>> \notin broken
    /\ (phase = "cu" /\ u = at[is_info]) \/ <<"cu", u>> \notin broken

EntriesRead ==
  \A e \in visited :
    /\ <<"child", e>> \in broken => frames # <<>> /\ Top.step = "child" /\ Top.cur = e
    /\ <<"sibling", e>> \in broken => \E i \in 1 .. Len(frames) : frames[i].cur = e

\* sd_is_valid_compiler.
Undamaged ==
  dbg = "opening" =>
    /\ from = Unit
    /\ Seeking => HeadersRead /\ EntriesRead
    /\ answer = "no_entry" => broken = {}

\* All later searches.
Opened ==
  dbg = "open" =>
    /\ broken = {} /\ answer # "none"
    /\ failures = 0 => /\ from = Unit /\ answer # "error"
                       /\ answer = "pending" => ret # "error"

\* In the headers, all entries visited have been left.
LEMMA ReadWithoutFrames ==
  ASSUME EntriesRead, frames = <<>>, UNCHANGED <<broken, visited>>
  PROVE  EntriesRead'
<1>1. 1 .. Len(frames) = {}
  OBVIOUS
<1>2. \A e \in visited : <<"child", e>> \notin broken /\ <<"sibling", e>> \notin broken
  BY <1>1 DEF EntriesRead
<1> QED BY <1>2 DEF EntriesRead

LEMMA ReadBetweenUnits ==
  ASSUME WInv, Undamaged, dbg = "opening", answer = "pending", ~search_finished,
         frames = <<>>, ret \in {"none", "no_entry"}
  PROVE  /\ HeadersRead /\ from = Unit /\ EntriesRead
         /\ \A e \in visited : <<"child", e>> \notin broken /\ <<"sibling", e>> \notin broken
<1>1. HeadersRead /\ EntriesRead /\ from = Unit
  BY DEF Undamaged, Seeking
<1>2. 1 .. Len(frames) = {}
  OBVIOUS
<1> QED BY <1>1, <1>2 DEF EntriesRead

LEMMA HeaderUndamaged ==
  ASSUME WInv, Undamaged, dbg = "opening", HeaderFound \/ InfoExhausted
  PROVE  Undamaged'
<1> DEFINE u == at[is_info]
           b == at[FALSE]
<1>1. /\ answer = "pending" /\ phase = "header" /\ frames = <<>> /\ ret = "none"
      /\ UNCHANGED <<broken, from, visited, answer, search_finished, ret, frames>>
  BY DEF HeaderFound, InfoExhausted, WInv, IInv, Chain, fileVars, histVars
<1>2. from' = Unit /\ answer' # "no_entry" /\ (search_finished => ~Seeking')
  BY <1>1 DEF Undamaged, Seeking
<1>3. SUFFICES ASSUME ~search_finished
               PROVE  HeadersRead' /\ EntriesRead'
  BY <1>2 DEF Undamaged, Unit
<1>4. HeadersRead /\ EntriesRead
  BY <1>1, <1>3, ReadBetweenUnits
<1>5. EntriesRead'
  BY <1>1, <1>4, ReadWithoutFrames
<1>6. /\ u \in Nat /\ b \in Nat /\ at \in [BOOLEAN -> 0 .. NUnits] /\ is_info \in BOOLEAN
  <2>1. /\ at[TRUE] \in Nat /\ b \in Nat
        /\ \/ is_info = TRUE /\ u = at[TRUE]
           \/ is_info = FALSE /\ u = b
    BY PositionNumbers
  <2> QED BY <2>1 DEF WInv, IInv, TypeOK
<1>7. \A v \in Unit : v <= u => <<"header", v>> \notin broken /\ <<"cu", v>> \notin broken
  BY <1>1, <1>4 DEF HeadersRead
<1>8. CASE HeaderFound
  <2>1. /\ is_info' = is_info /\ at' = [at EXCEPT ![is_info] = @ + 1] /\ phase' = "cu"
        /\ <<"header", u + 1>> \notin broken
    BY <1>3, <1>8 DEF HeaderFound, Succeeds
  <2>2. at'[is_info'] = u + 1
    BY <1>6, <2>1
  <2> HIDE DEF u
  <2>3. ASSUME NEW v \in Unit, v <= u + 1
        PROVE  <<"header", v>> \notin broken /\ (v = u + 1 \/ <<"cu", v>> \notin broken)
    <3>1. v <= u \/ v = u + 1
      BY <1>6, <2>3, SizesAssumption DEF Unit
    <3> QED BY <1>7, <2>1, <3>1
  <2>4. HeadersRead'
    BY <1>1, <2>1, <2>2, <2>3 DEF HeadersRead, Unit
  <2> QED BY <1>5, <2>4
<1>9. CASE InfoExhausted
  <2>1. /\ is_info = TRUE /\ is_info' = FALSE /\ phase' = "header"
        /\ at[TRUE] = End(TRUE) /\ at' = [at EXCEPT ![TRUE] = Start(TRUE)]
    BY <1>1, <1>9 DEF InfoExhausted
  <2>2. at'[is_info'] = b
    BY <1>6, <2>1
  <2>3. u = NInfo /\ ComingFrom(u, b)
    BY <1>1, <2>1, Zenon DEF End, WInv, Coming, ComingFrom
  <2>4. from = Unit
    BY DEF Undamaged
  <2> HIDE DEF u, b
  <2>5. ASSUME NEW v \in Unit, v <= b
        PROVE  v <= u
    BY <1>6, <2>3, <2>4, <2>5, SizesAssumption DEF ComingFrom, Unit
  <2>6. HeadersRead'
    BY <1>1, <1>7, <2>2, <2>5 DEF HeadersRead, Unit
  <2> QED BY <1>5, <2>6
<1> QED BY <1>8, <1>9

\* sd_is_valid_compiler finds nothing: it has read everything.
LEMMA EndUndamaged ==
  ASSUME WInv, Undamaged, dbg = "opening", TypesExhausted
  PROVE  Undamaged'
<1>1. /\ answer = "pending" /\ phase = "header" /\ is_info = FALSE /\ at[FALSE] = End(FALSE)
      /\ answer' = IF search_finished THEN "ok" ELSE "no_entry"
      /\ UNCHANGED <<broken, from>>
  <2>1. is_info \in BOOLEAN
    BY DEF WInv, IInv, TypeOK
  <2> QED BY <2>1 DEF TypesExhausted, Answer, fileVars, histVars
<1>2. from' = Unit /\ answer' # "pending"
  BY <1>1 DEF Undamaged
<1>3. SUFFICES ASSUME ~search_finished
               PROVE  broken = {}
  BY <1>1, <1>2 DEF Undamaged, Seeking, Unit
<1>4. frames = <<>> /\ ret = "none"
  BY <1>1 DEF WInv, IInv, Chain
<1>5. at[is_info] = NUnits
  BY <1>1, Zenon DEF End
<1>6. ASSUME NEW v \in Unit
      PROVE  <<"header", v>> \notin broken /\ <<"cu", v>> \notin broken
  <2>1. v <= NUnits
    BY DEF Unit
  <2> QED BY <1>1, <1>3, <1>4, <1>5, <2>1, ReadBetweenUnits DEF HeadersRead
<1>7. ASSUME NEW e \in Entry
      PROVE  <<"child", e>> \notin broken /\ <<"sibling", e>> \notin broken
  <2>1. visited = Through(NUnits) /\ from = Unit
    BY <1>1, <1>3, <1>4, <1>5, Zenon DEF WInv, Walked, Seeking, Undamaged
  <2>2. UnitOf[e] \in Unit /\ UnitOf[e] <= NUnits
    BY EntryFacts DEF Unit
  <2>3. e \in visited
    BY <2>1, <2>2 DEF Through
  <2> QED BY <1>1, <1>3, <1>4, <2>3, ReadBetweenUnits
<1>8. broken \subseteq Calls
  BY DEF WInv, IInv, TypeOK
<1>9. ASSUME NEW c \in broken
      PROVE  FALSE
  <2>1. c \in {"header", "cu"} \X Unit \/ c \in {"child", "sibling"} \X Entry
    BY <1>8 DEF Calls
  <2>2. CASE c \in {"header", "cu"} \X Unit
    <3>1. PICK k \in {"header", "cu"}, v \in Unit : c = <<k, v>>
      BY <2>2
    <3> QED BY <1>6, <3>1
  <2>3. CASE c \in {"child", "sibling"} \X Entry
    <3>1. PICK k \in {"child", "sibling"}, e \in Entry : c = <<k, e>>
      BY <2>3
    <3> QED BY <1>7, <3>1
  <2> QED BY <2>1, <2>2, <2>3
<1> QED BY <1>9

LEMMA CuUndamaged ==
  ASSUME WInv, Undamaged, dbg = "opening", CuFound \/ CuReturns
  PROVE  Undamaged'
<1>1. /\ answer = "pending" /\ frames = <<>> /\ UNCHANGED <<broken, from, at, is_info>>
      /\ answer' # "no_entry"
  BY DEF CuFound, CuReturns, WInv, IInv, Chain, fileVars, histVars, Enter, Callback
<1>2. from' = Unit
  BY <1>1 DEF Undamaged
<1>3. SUFFICES ASSUME Seeking'
               PROVE  HeadersRead' /\ EntriesRead'
  BY <1>1, <1>2 DEF Undamaged, Unit
<1>4. CASE CuFound
  <2>1. PICK c \in Entry : Enter(<<>>, c, 0)
    BY <1>4, CuPlace
  <2>2. /\ phase = "cu" /\ phase' = "walk" /\ <<"cu", at[is_info]>> \notin broken
        /\ ~search_finished /\ ret = "none"
    BY <1>3, <1>4 DEF CuFound, Succeeds, Seeking, WInv, IInv, Chain
  <2>3. /\ HeadersRead
        /\ \A e \in visited : <<"child", e>> \notin broken /\ <<"sibling", e>> \notin broken
    BY <1>1, <2>2, ReadBetweenUnits
  <2>4. HeadersRead'
    BY <1>1, <2>2, <2>3 DEF HeadersRead, Unit
  <2>5. c \notin want
    BY <1>3, <2>1 DEF Enter, Seeking
  <2> DEFINE f == [in |-> c, cur |-> c, child |-> Nobody, level |-> 0, step |-> "child"]
  <2>6. frames' = Append(<<>>, f) /\ visited' = visited \cup {c}
    BY <2>1, <2>5 DEF Enter, Callback
  <2>7. f.cur = c /\ f.step = "child"
    OBVIOUS
  <2> HIDE DEF f
  <2>8. frames' # <<>> /\ Len(frames') = 1 /\ frames'[1] = f
    BY <2>6
  <2>9. 1 \in 1 .. Len(frames') /\ frames'[1].cur = c /\ Top' = f
    BY <2>7, <2>8 DEF Top
  <2>10. EntriesRead'
    BY <1>1, <2>3, <2>6, <2>7, <2>8, <2>9 DEF EntriesRead
  <2> QED BY <2>4, <2>10
<1>5. CASE CuReturns
  <2>1. /\ phase = "walk" /\ phase' = "header" /\ UNCHANGED <<visited, frames>>
        /\ ~search_finished /\ ret = "no_entry"
    BY <1>3, <1>5 DEF CuReturns, Seeking, histVars, WInv, IInv, TypeOK, Result
  <2>2. HeadersRead /\ EntriesRead
    BY <1>1, <2>1, ReadBetweenUnits
  <2>3. HeadersRead'
    BY <1>1, <2>1, <2>2 DEF HeadersRead, Unit
  <2>4. EntriesRead'
    BY <1>1, <2>1, <2>2, ReadWithoutFrames
  <2> QED BY <2>3, <2>4
<1> QED BY <1>4, <1>5

\* The activation on top goes on, maybe at the next entry.
LEMMA ReadOnTop ==
  ASSUME EntriesRead, frames \in Seq(Frame), frames # <<>>, NEW g \in Frame,
         frames' = SetTop(g), UNCHANGED broken,
         \/ Top.step # "child"
         \/ <<"child", Top.cur>> \notin broken,
         \/ g.cur = Top.cur
         \/ <<"sibling", Top.cur>> \notin broken,
         \/ visited' = visited
         \/ visited' = visited \cup {g.cur} /\ g.step = "child"
  PROVE  EntriesRead'
<1> DEFINE n == Len(frames)
<1>1. /\ n \in 1 .. n /\ Len(frames') = n /\ frames' # <<>>
      /\ \A i \in 1 .. n : frames'[i] = IF i = n THEN g ELSE frames[i]
  BY ExceptSeq, SeqFacts DEF SetTop
<1>2. Top = frames[n] /\ Top' = g
  BY <1>1 DEF Top
<1> HIDE DEF n
<1>3. ASSUME NEW e \in visited
      PROVE  /\ <<"child", e>> \notin broken
             /\ <<"sibling", e>> \in broken => \E i \in 1 .. n : frames'[i].cur = e
  <2>1. <<"child", e>> \notin broken
    BY DEF EntriesRead
  <2>2. ASSUME <<"sibling", e>> \in broken
        PROVE  \E i \in 1 .. n : frames'[i].cur = e
    <3>1. PICK i \in 1 .. n : frames[i].cur = e
      BY <2>2 DEF EntriesRead, n
    <3>2. frames'[i].cur = e
      BY <1>1, <1>2, <2>2, <3>1
    <3> QED BY <3>2
  <2> QED BY <2>1, <2>2
<1>4. frames'[n].cur = g.cur
  BY <1>1
<1> QED BY <1>1, <1>2, <1>3, <1>4 DEF EntriesRead

LEMMA ChildUndamaged ==
  ASSUME WInv, Undamaged, dbg = "opening",
         ChildFails \/ ChildNone \/ ChildFound \/ ChildReturns
  PROVE  Undamaged'
<1>1. /\ answer = "pending" /\ frames # <<>>
      /\ UNCHANGED <<answer, phase, at, is_info, from, search_finished, broken>>
  BY DEF ChildFails, ChildNone, ChildFound, ChildReturns, Walking, fileVars, histVars,
         Enter, Callback
<1>2. from' = Unit
  BY <1>1 DEF Undamaged
<1>3. SUFFICES ASSUME Seeking'
               PROVE  HeadersRead' /\ EntriesRead'
  BY <1>1, <1>2 DEF Undamaged, Unit
<1>4. ret \in {"none", "no_entry"}
  BY <1>1, <1>3 DEF ChildFails, ChildNone, ChildFound, ChildReturns, Walking, Seeking, Return
<1>5. HeadersRead /\ EntriesRead /\ frames \in Seq(Frame) /\ Top \in Frame
  <2>1. frames \in Seq(Frame)
    BY DEF WInv, IInv, TypeOK
  <2> QED BY <1>1, <1>3, <1>4, <2>1, FramesType DEF Undamaged, Seeking
<1>6. HeadersRead'
  BY <1>1, <1>5 DEF HeadersRead, Unit
<1>7. CASE ChildFails
  BY <1>3, <1>7 DEF ChildFails, Return, Seeking
<1>8. CASE ChildNone
  <2> DEFINE g == [Top EXCEPT !.step = "sibling"]
  <2>1. /\ frames' = SetTop(g) /\ visited' = visited /\ <<"child", Top.cur>> \notin broken
    BY <1>8 DEF ChildNone, histVars, Succeeds
  <2>2. g \in Frame /\ g.cur = Top.cur
    BY <1>5, FrameUpdates DEF Frame
  <2> HIDE DEF g
  <2>3. EntriesRead'
    BY <1>1, <1>5, <2>1, <2>2, ReadOnTop
  <2> QED BY <1>6, <2>3
<1>9. CASE ChildReturns
  <2> DEFINE g == [Top EXCEPT !.step = "sibling", !.child = Nobody]
  <2>1. frames' = SetTop(g) /\ visited' = visited /\ Top.step = "call"
    BY <1>4, <1>9 DEF ChildReturns, histVars
  <2>2. g \in Frame /\ g.cur = Top.cur
    BY <1>5, FrameUpdates DEF Frame
  <2> HIDE DEF g
  <2>3. EntriesRead'
    BY <1>1, <1>5, <2>1, <2>2, ReadOnTop
  <2> QED BY <1>6, <2>3
<1>10. CASE ChildFound
  <2>1. PICK c : c = Top.cur + 1
    OBVIOUS
  <2> DEFINE g == [Top EXCEPT !.step = "call", !.child = c]
             gs == SetTop(g)
             f == [in |-> c, cur |-> c, child |-> Nobody, level |-> Top.level + 1,
                   step |-> "child"]
             n == Len(frames)
  <2>2. c \in Entry /\ Enter(gs, c, Top.level + 1)
    BY <1>10, <2>1, ChildPlace
  <2>3. <<"child", Top.cur>> \notin broken
    BY <1>10 DEF ChildFound, Succeeds
  <2>4. c \notin want
    BY <1>3, <2>2 DEF Enter, Seeking
  <2>5. frames' = Append(gs, f) /\ visited' = visited \cup {c}
    BY <2>2, <2>4 DEF Enter, Callback
  <2>6. g \in Frame /\ g.cur = Top.cur /\ f.cur = c /\ f.step = "child"
    BY <1>5, <2>2, FrameUpdates DEF Frame
  <2>7. /\ n \in Nat /\ n \in 1 .. n /\ Len(gs) = n /\ gs \in Seq(Frame)
        /\ \A i \in 1 .. n : gs[i] = IF i = n THEN g ELSE frames[i]
    BY <1>1, <1>5, <2>6, ExceptSeq, SeqFacts, FramesType DEF SetTop
  <2> HIDE DEF g, gs, f
  <2>8. /\ Len(frames') = n + 1 /\ frames' # <<>> /\ frames'[n + 1] = f
        /\ \A i \in 1 .. n : frames'[i] = gs[i]
    BY <2>5, <2>7
  <2>9. Top' = f
    BY <2>8 DEF Top
  <2>10. ASSUME NEW e \in visited
         PROVE  /\ <<"child", e>> \notin broken
                /\ <<"sibling", e>> \in broken => \E i \in 1 .. n + 1 : frames'[i].cur = e
    <3>1. <<"child", e>> \notin broken
      BY <1>5, <2>3 DEF EntriesRead
    <3>2. ASSUME <<"sibling", e>> \in broken
          PROVE  \E i \in 1 .. n + 1 : frames'[i].cur = e
      <4>1. PICK i \in 1 .. n : frames[i].cur = e
        BY <1>5, <3>2 DEF EntriesRead
      <4>2. frames'[i].cur = e
        BY <2>6, <2>7, <2>8, <4>1 DEF Top
      <4>3. i \in 1 .. n + 1
        BY <2>7
      <4> QED BY <4>2, <4>3
    <3> QED BY <3>1, <3>2
  <2>11. n + 1 \in 1 .. n + 1 /\ frames'[n + 1].cur = c
    BY <2>6, <2>7, <2>8
  <2>12. EntriesRead'
    BY <1>1, <2>5, <2>6, <2>8, <2>9, <2>10, <2>11 DEF EntriesRead
  <2> QED BY <1>6, <2>12
<1> QED BY <1>7, <1>8, <1>9, <1>10

LEMMA SiblingUndamaged ==
  ASSUME WInv, Undamaged, dbg = "opening", SiblingFails \/ SiblingNone \/ SiblingFound
  PROVE  Undamaged'
<1>1. /\ answer = "pending" /\ frames # <<>> /\ ret = "none" /\ Top.step = "sibling"
      /\ UNCHANGED <<answer, phase, at, is_info, from, search_finished, broken>>
  BY DEF SiblingFails, SiblingNone, SiblingFound, Walking, fileVars, histVars, Callback
<1>2. from' = Unit
  BY <1>1 DEF Undamaged
<1>3. SUFFICES ASSUME Seeking'
               PROVE  HeadersRead' /\ EntriesRead'
  BY <1>1, <1>2 DEF Undamaged, Unit
<1>4. HeadersRead /\ EntriesRead /\ frames \in Seq(Frame) /\ Top \in Frame
  <2>1. frames \in Seq(Frame)
    BY DEF WInv, IInv, TypeOK
  <2> QED BY <1>1, <1>3, <2>1, FramesType DEF Undamaged, Seeking
<1>5. HeadersRead'
  BY <1>1, <1>4 DEF HeadersRead, Unit
<1>6. CASE SiblingFails
  BY <1>3, <1>6 DEF SiblingFails, Return, Seeking
<1>7. CASE SiblingNone
  <2> DEFINE n == Len(frames)
  <2>1. frames' = Callers /\ visited' = visited /\ <<"sibling", Top.cur>> \notin broken
    BY <1>7 DEF SiblingNone, histVars, Succeeds, Return
  <2>2. /\ n \in Nat /\ Len(frames') = n - 1 /\ \A i \in 1 .. n - 1 : frames'[i] = frames[i]
    BY <1>1, <1>4, <2>1, PopSeq, SeqFacts DEF Callers
  <2>3. ASSUME NEW e \in visited
        PROVE  /\ <<"child", e>> \notin broken
               /\ <<"sibling", e>> \in broken => \E i \in 1 .. n - 1 : frames'[i].cur = e
    <3>1. <<"child", e>> \notin broken
      BY <1>1, <1>4 DEF EntriesRead
    <3>2. ASSUME <<"sibling", e>> \in broken
          PROVE  \E i \in 1 .. n - 1 : frames'[i].cur = e
      <4>1. PICK i \in 1 .. n : frames[i].cur = e
        BY <1>4, <3>2 DEF EntriesRead
      <4>2. i # n
        BY <2>1, <3>2, <4>1 DEF Top
      <4>3. i \in 1 .. n - 1
        BY <2>2, <4>2
      <4> QED BY <2>2, <4>1, <4>3
    <3> QED BY <3>1, <3>2
  <2>4. EntriesRead'
    BY <1>1, <2>1, <2>2, <2>3 DEF EntriesRead
  <2> QED BY <1>5, <2>4
<1>8. CASE SiblingFound
  <2>1. PICK s \in Entry :
          /\ Callback(s, Top.level)
          /\ IF s \in want THEN Return("ok")
             ELSE /\ frames' = SetTop([Top EXCEPT !.cur = s, !.step = "child"])
                  /\ UNCHANGED ret
    BY <1>8, SiblingPlace
  <2>2. s \notin want
    BY <1>3, <2>1 DEF Return, Seeking
  <2> DEFINE g == [Top EXCEPT !.cur = s, !.step = "child"]
  <2>3. /\ frames' = SetTop(g) /\ visited' = visited \cup {s}
        /\ <<"sibling", Top.cur>> \notin broken
    BY <1>8, <2>1, <2>2 DEF SiblingFound, Succeeds, Callback
  <2>4. g \in Frame /\ g.cur = s /\ g.step = "child"
    BY <1>4, FrameUpdates DEF Frame
  <2> HIDE DEF g
  <2>5. EntriesRead'
    BY <1>1, <1>4, <2>3, <2>4, ReadOnTop
  <2> QED BY <1>5, <2>5
<1> QED BY <1>6, <1>7, <1>8

LEMMA NextUndamaged ==
  ASSUME WInv, Undamaged, [Next]_vars
  PROVE  Undamaged'
<1>1. SUFFICES ASSUME dbg' = "opening"
               PROVE  Undamaged'
  BY DEF Undamaged
<1>2. CASE HeaderFails \/ CuFails
  <2>1. /\ dbg' = dbg /\ from' = from /\ answer' = "error"
    BY <1>2 DEF HeaderFails, CuFails, Answer, callVars, histVars
  <2> QED BY <1>1, <2>1 DEF Undamaged, Seeking, Unit
<1>3. CASE HeaderFound \/ InfoExhausted
  <2>1. dbg' = dbg
    BY <1>3 DEF HeaderFound, InfoExhausted, callVars
  <2> QED BY <1>1, <1>3, <2>1, HeaderUndamaged
<1>4. CASE TypesExhausted
  <2>1. dbg' = dbg
    BY <1>4 DEF TypesExhausted, callVars
  <2> QED BY <1>1, <1>4, <2>1, EndUndamaged
<1>5. CASE CuFound \/ CuReturns
  <2>1. dbg' = dbg
    BY <1>5 DEF CuFound, CuReturns, callVars
  <2> QED BY <1>1, <1>5, <2>1, CuUndamaged
<1>6. CASE ChildFails \/ ChildNone \/ ChildFound \/ ChildReturns
  <2>1. dbg' = dbg
    BY <1>6 DEF ChildFails, ChildNone, ChildFound, ChildReturns, callVars
  <2> QED BY <1>1, <1>6, <2>1, ChildUndamaged
<1>7. CASE SiblingFails \/ SiblingNone \/ SiblingFound
  <2>1. dbg' = dbg
    BY <1>7 DEF SiblingFails, SiblingNone, SiblingFound, callVars
  <2> QED BY <1>1, <1>7, <2>1, SiblingUndamaged
<1>8. CASE IsValidCompiler
  <2>1. /\ at' = at /\ is_info' = TRUE /\ phase' = "header" /\ visited' = {}
        /\ from' = Ahead /\ answer' = "pending" /\ at = [s \in BOOLEAN |-> Start(s)]
    BY <1>8 DEF IsValidCompiler, Search, WInv, Unread
  <2>2. from' = Unit
    BY <2>1, AllAhead
  <2>3. at'[is_info'] = 0
    BY <2>1, Zenon DEF Start
  <2>4. \A u \in Unit : ~(u <= 0)
    BY DEF Unit
  <2>5. HeadersRead'
    BY <2>3, <2>4 DEF HeadersRead, Unit
  <2>6. EntriesRead'
    BY <2>1 DEF EntriesRead
  <2> QED BY <2>1, <2>2, <2>5, <2>6 DEF Undamaged, Unit
<1>9. CASE DwarfInit \/ Ask \/ Refused
  BY <1>1, <1>9 DEF DwarfInit, Ask, Refused
<1>10. CASE UNCHANGED vars
  <2>1. UNCHANGED <<dbg, from, answer, search_finished, ret, broken, visited, phase, at,
                    is_info, frames>>
    BY <1>10 DEF vars
  <2> QED BY <2>1 DEF Undamaged, Seeking, HeadersRead, EntriesRead, Unit, Top
<1> QED BY <1>2, <1>3, <1>4, <1>5, <1>6, <1>7, <1>8, <1>9, <1>10 DEF Next, Step

\* Nothing fails in a file that is not damaged as long as memory does not run out.
LEMMA NothingFails ==
  ASSUME failures \in Nat, broken = {}, failures' = 0, NEW c
  PROVE  ~Fails(c) /\ (Succeeds(c) => failures = 0)
BY DEF Fails, Succeeds

LEMMA StepOpened ==
  ASSUME WInv, Opened, Step
  PROVE  Opened'
<1>1. SUFFICES ASSUME dbg' = "open"
               PROVE  Opened'
  BY DEF Opened
<1>2. dbg = "open" /\ UNCHANGED <<broken, from>> /\ answer = "pending"
  BY <1>1 DEF Step, HeaderFails, CuFails, HeaderFound, InfoExhausted, TypesExhausted,
     CuFound, CuReturns, ChildFails, ChildNone, ChildFound, ChildReturns, SiblingFails,
     SiblingNone, SiblingFound, Walking, callVars, fileVars, histVars, Enter, Callback
<1>3. broken' = {}
  BY <1>2 DEF Opened
<1>4. answer' # "none"
  BY <1>2 DEF Step, HeaderFails, CuFails, HeaderFound, InfoExhausted, TypesExhausted,
     CuFound, CuReturns, ChildFails, ChildNone, ChildFound, ChildReturns, SiblingFails,
     SiblingNone, SiblingFound, Answer
<1>5. SUFFICES ASSUME failures' = 0
               PROVE  from' = Unit /\ answer' # "error" /\ (answer' = "pending" => ret' # "error")
  BY <1>3, <1>4 DEF Opened, Unit
<1>6. \A c : ~Fails(c) /\ (Succeeds(c) => failures = 0)
  BY <1>2, <1>5, NothingFails DEF WInv, IInv, TypeOK, Opened
<1>7. ~HeaderFails /\ ~CuFails /\ ~ChildFails /\ ~SiblingFails
  BY <1>6 DEF HeaderFails, CuFails, ChildFails, SiblingFails
<1>8. failures = 0
  BY <1>5, <1>6, <1>7 DEF Step, HeaderFound, InfoExhausted, TypesExhausted, CuFound, CuReturns,
     ChildNone, ChildFound, ChildReturns, SiblingNone, SiblingFound
<1>9. from' = Unit /\ ret # "error"
  BY <1>2, <1>8 DEF Opened
<1>10. CASE HeaderFound \/ InfoExhausted \/ TypesExhausted
  BY <1>2, <1>9, <1>10 DEF HeaderFound, InfoExhausted, TypesExhausted, Answer
<1>11. CASE CuFound \/ CuReturns
  BY <1>2, <1>9, <1>11 DEF CuFound, CuReturns, Enter
<1>12. CASE ChildNone \/ ChildFound \/ ChildReturns
  BY <1>2, <1>9, <1>12 DEF ChildNone, ChildFound, ChildReturns, Enter
<1>13. CASE SiblingNone \/ SiblingFound
  BY <1>2, <1>9, <1>13 DEF SiblingNone, SiblingFound, Return
<1> QED BY <1>7, <1>10, <1>11, <1>12, <1>13 DEF Step

LEMMA NextOpened ==
  ASSUME WInv, AnswerLeavesStart, Undamaged, Opened, [Next]_vars
  PROVE  Opened'
<1>1. CASE Step
  BY <1>1, StepOpened
<1>2. CASE IsValidCompiler \/ Refused
  BY <1>2 DEF IsValidCompiler, Refused, Opened
<1>3. CASE DwarfInit
  <2>1. CASE answer = "no_entry"
    BY <1>3, <2>1 DEF DwarfInit, Undamaged, Opened, fileVars, histVars, Unit
  <2>2. CASE answer # "no_entry"
    BY <1>3, <2>2 DEF DwarfInit, Opened
  <2> QED BY <2>1, <2>2
<1>4. CASE Ask
  <2>1. /\ dbg = "open" /\ answer # "pending" /\ answer' = "pending" /\ ret' = "none"
        /\ UNCHANGED <<broken, failures>> /\ from' = Ahead
    BY <1>4 DEF Ask, Search
  <2>2. broken = {} /\ answer # "none" /\ (failures = 0 => answer # "error")
    BY <2>1 DEF Opened
  <2>3. answer \in {"ok", "no_entry"} \/ answer = "error"
    BY <2>1, <2>2 DEF WInv, IInv, TypeOK, Result
  <2>4. failures = 0 => Ahead = Unit
    BY <2>2, <2>3, AllAhead DEF AnswerLeavesStart
  <2> QED BY <2>1, <2>2, <2>4 DEF Opened, Unit
<1>5. CASE UNCHANGED vars
  BY <1>5 DEF vars, Opened, Unit
<1> QED BY <1>1, <1>2, <1>3, <1>4, <1>5 DEF Next

-----------------------------------------------------------------------------
(* The theorems. *)

\* WInv is inductive.
THEOREM WalkIsOrdered == Spec => []WInv
<1>1. WInv /\ [Next]_vars => WInv'
  BY NextWalk
<1> QED BY InitWalk, <1>1, PTL DEF Spec

\* An entry that is visited is the next one of those the search was to visit.
LEMMA VisitedInOrder ==
  ASSUME NEW e \in Entry, visited' = visited \cup {e}, visited' = EntriesTo(e),
         e \notin visited, level' = Level[e]
  PROVE  \E d \in Entry :
           /\ visited' = visited \cup {d} /\ d \notin visited /\ level' = Level[d]
           /\ \A c \in Entry : UnitOf[c] \in from /\ c < d => c \in visited
<1>1. ASSUME NEW c \in Entry, UnitOf[c] \in from, c < e
      PROVE  c \in visited
  <2>1. c <= e /\ c # e
    BY <1>1, EntryFacts
  <2>2. c \in EntriesTo(e)
    BY <1>1, <2>1 DEF EntriesTo
  <2> QED BY <2>1, <2>2
<1> QED BY <1>1

\* sd_search_dwarf_die calls the callback with the entries in the order of the
\* file, with their depth, and leaves none out.
THEOREM WalkVisitsInOrder == Spec => VisitsInOrder
<1> DEFINE Ordered ==
      visited' # visited /\ answer = "pending" =>
        \E e \in Entry :
          /\ visited' = visited \cup {e} /\ e \notin visited /\ level' = Level[e]
          /\ \A d \in Entry : UnitOf[d] \in from /\ d < e => d \in visited
<1>1. ASSUME WInv, [Next]_vars
      PROVE  Ordered
  <2>1. SUFFICES ASSUME visited' # visited, answer = "pending"
                 PROVE  \E e \in Entry :
                          /\ visited' = visited \cup {e} /\ visited' = EntriesTo(e)
                          /\ e \notin visited /\ level' = Level[e]
    BY VisitedInOrder
  <2>2. CuFound \/ ChildFound \/ SiblingFound
    <3>1. ~(HeaderFails \/ HeaderFound \/ InfoExhausted \/ TypesExhausted \/ CuFails \/ CuReturns)
      BY <2>1 DEF HeaderFails, HeaderFound, InfoExhausted, TypesExhausted, CuFails, CuReturns,
         histVars
    <3>2. ~(ChildFails \/ ChildNone \/ ChildReturns \/ SiblingFails \/ SiblingNone)
      BY <2>1 DEF ChildFails, ChildNone, ChildReturns, SiblingFails, SiblingNone, histVars
    <3>3. ~(IsValidCompiler \/ DwarfInit \/ Ask \/ Refused \/ UNCHANGED vars)
      BY <1>1, <2>1 DEF IsValidCompiler, DwarfInit, Ask, Refused, vars, histVars, WInv, Unread
    <3> QED BY <1>1, <3>1, <3>2, <3>3 DEF Next, Step
  <2>3. CASE CuFound
    <3>1. level' = 0
      BY <1>1, <2>3, CuPlace DEF Enter, Callback
    <3> QED BY <1>1, <2>3, <3>1, CuPlace
  <2>4. CASE ChildFound
    <3>1. PICK c : c = Top.cur + 1
      OBVIOUS
    <3>2. level' = Top.level + 1
      BY <1>1, <2>4, <3>1, ChildPlace DEF Enter, Callback
    <3> QED BY <1>1, <2>4, <3>1, <3>2, ChildPlace
  <2>5. CASE SiblingFound
    BY <1>1, <2>5, SiblingPlace DEF Callback
  <2> QED BY <2>2, <2>3, <2>4, <2>5
<1>2. WInv /\ [Next]_vars => [Ordered]_vars
  BY <1>1
<1> HIDE DEF Ordered
<1>3. Spec => [][Ordered]_vars
  BY <1>2, WalkIsOrdered, PTL DEF Spec
<1> QED BY <1>3 DEF VisitsInOrder, Ordered

\* sd_search_dwarf_dbg does what EntrySearch promises: with any callback it finds
\* the first entry, or that there is none.
THEOREM SearchRefines == Spec => RefinesEntrySearch
<1>1. WInv /\ AnswerLeavesStart' /\ [Next]_vars => [Abstract!Next]_(Abstract!vars)
  BY AbstractStep
<1> QED BY AbstractInit, <1>1, WalkIsOrdered, AnswersLeaveStart, PTL
        DEF Spec, RefinesEntrySearch, Abstract!Spec

\* sd_dwarf_init reads the whole file before it is used: as long as memory does not
\* run out, every later search finds the first entry, or there is none.
THEOREM OpenedFilesAlwaysAnswer == Spec => []OpenedFilesAnswer
<1> DEFINE OInv == WInv /\ AnswerLeavesStart /\ Answers /\ Undamaged /\ Opened
<1>1. Init => OInv
  BY InitWalk DEF Init, AnswerLeavesStart, Answers, Undamaged, Opened
<1>2. OInv /\ [Next]_vars => OInv'
  BY NextWalk, NextAnswer, NextAnswers, NextUndamaged, NextOpened DEF WInv, IInv
<1>3. ASSUME OInv
      PROVE  OpenedFilesAnswer
  <2>1. SUFFICES ASSUME dbg = "open", failures = 0
                 PROVE  /\ answer # "error"
                        /\ answer = "no_entry" => want = {}
                        /\ answer = "ok" => found \in want /\ \A e \in want : found <= e
    BY DEF OpenedFilesAnswer
  <2>2. answer # "error" /\ from = Unit
    BY <1>3, <2>1 DEF Opened
  <2>3. \A e \in want : UnitOf[e] \in from
    BY <1>3, <2>2, EntryFacts DEF WInv, IInv, TypeOK
  <2> QED BY <1>3, <2>2, <2>3 DEF Answers, IsAnswer
<1> HIDE DEF OInv
<1> QED BY <1>1, <1>2, <1>3, PTL DEF Spec

=============================================================================
