----------------------------- MODULE DwarfSearch -----------------------------
(***************************************************************************)
(* The search of the debug information: sd_search_dwarf_dbg walks over the *)
(* units, sd_search_dwarf_die over the tree of entries (DIEs) of one unit, *)
(* and sd_dwarf_init runs the first search to validate the compiler.       *)
(*                                                                         *)
(* libdwarf is external.  It keeps a hidden position for each of the two   *)
(* sections: dwarf_next_cu_header_d hands out the unit behind it, and goes *)
(* back to the start when it answers that there is none.  Every handle of  *)
(* an entry is allocated by dwarf_child or dwarf_siblingof_b and has to be *)
(* released once.  A second release has no effect (dwarf_dealloc knows the *)
(* block as released), and a call with a released handle works as before   *)
(* or fails: under -fsanitize=address the memory is not given out again.   *)
(*                                                                         *)
(* A file is given in preorder: the entries are numbered over all units,   *)
(* and UnitOf and Level make them trees.  A callback is given by the       *)
(* entries it accepts, and by those whose type it builds first.  Only the  *)
(* one of sd_runtime_variable does that: sd_variable_type releases the     *)
(* handle of the variable, which is the walk's, and keeps those it gets of *)
(* the entries of the type.                                                *)
(***************************************************************************)
EXTENDS Integers, Sequences

CONSTANTS
  NInfo,       \* the units 1 .. NInfo are in .debug_info
  NUnits,      \* and the units NInfo + 1 .. NUnits in .debug_types
  NEntries,    \* the entries are 1 .. NEntries
  UnitOf,      \* the unit of an entry
  Level,       \* its depth, 0 for the one entry of the unit itself
  MaxFailures, \* bound on the calls that fail for lack of memory, or with a
               \* released handle
  Wanted,      \* the callbacks that callers pass
  Damages      \* the damages that a file may have

Unit == 1 .. NUnits
Entry == 1 .. NEntries
Nobody == 0

ASSUME SizesAssumption == NInfo \in Nat /\ NUnits \in Nat /\ NInfo <= NUnits /\ NEntries \in Nat

ASSUME TreeAssumption ==
  /\ UnitOf \in [Entry -> Unit] /\ Level \in [Entry -> Nat]
  /\ \A d, e \in Entry : d < e => UnitOf[d] <= UnitOf[e]
  /\ \A u \in Unit : \E e \in Entry :
       /\ UnitOf[e] = u /\ Level[e] = 0
       /\ \A d \in Entry : UnitOf[d] = u /\ d # e => e < d /\ Level[d] > 0
  /\ \A d, e \in Entry : e = d + 1 /\ UnitOf[e] = UnitOf[d] => Level[e] <= Level[d] + 1

ASSUME WantedAssumption == Wanted \subseteq [accepts : SUBSET Entry, types : SUBSET Entry]
ASSUME FailuresAssumption == MaxFailures \in Nat

\* The entry of a unit, its first child, and the next entry on its level.
CuEntry(u) == CHOOSE e \in Entry : UnitOf[e] = u /\ Level[e] = 0

Children(e) == {c \in Entry : c = e + 1 /\ UnitOf[c] = UnitOf[e] /\ Level[c] = Level[e] + 1}

Siblings(e) ==
  {s \in Entry : /\ s > e /\ UnitOf[s] = UnitOf[e] /\ Level[s] = Level[e]
                 /\ \A m \in (e + 1) .. (s - 1) : Level[m] > Level[e]}

\* The calls of libdwarf that can fail on a damaged file.
Calls == ({"header", "cu"} \X Unit) \cup ({"child", "sibling"} \X Entry)

ASSUME DamagesAssumption == Damages \subseteq SUBSET Calls

VARIABLES
  broken,    \* the calls that fail on this file
  foreign,   \* the units of .debug_info that clang has not compiled
  failures,  \* calls that have failed for lack of memory, or with a released handle
  at,        \* libdwarf's position: the last unit handed out, by section
  dbg,       \* "closed", "opening", "open" or "refused": sd_dwarf_init
  want,      \* search_callback: the entries it accepts,
  types,     \* and those whose type it builds
  answer,    \* "none", "pending", or the result of sd_search_dwarf_dbg
  found,     \* search_findings
  is_info, search_finished,
  phase,     \* where sd_search_dwarf_dbg is: "header", "cu" or "walk"
  cu,        \* cu_die
  frames,    \* the activations of sd_search_dwarf_die, outermost first
  ret,       \* what the one that has just returned has answered, or "none"
  live,      \* the walk's handles that are allocated
  typed,     \* the variables whose types have been built in this search: the
             \* handles of the entries of those types are allocated
  visited,   \* history: the entries the callback was called with
  level,     \* history: search_for.level of the last call
  from       \* history: the units that were ahead when the search began

fileVars == <<broken, foreign>>
callVars == <<dbg, want, types>>
histVars == <<typed, visited, level, from>>
vars == <<broken, foreign, failures, at, dbg, want, types, answer, found, is_info,
          search_finished, phase, cu, frames, ret, live, typed, visited, level, from>>

Start(s) == IF s THEN 0 ELSE NInfo
\* Mutant of End: one unit too many in .debug_types.
EndTooFar(s) == IF s THEN NInfo ELSE NUnits + 1
End(s) == IF s THEN NInfo ELSE NUnits
InSection(u, s) == Start(s) < u /\ u <= End(s)

\* The units that a search would look at now.
Ahead == {u \in Unit : \E s \in BOOLEAN : InSection(u, s) /\ u > at[s]}

Init ==
  /\ broken \in Damages /\ foreign \in SUBSET (1 .. NInfo)
  /\ failures = 0
  /\ at = [s \in BOOLEAN |-> Start(s)]
  /\ dbg = "closed"
  /\ want = {} /\ types = {} /\ answer = "none" /\ found = Nobody
  /\ is_info = TRUE /\ search_finished = FALSE
  /\ phase = "header" /\ cu = Nobody /\ frames = <<>> /\ ret = "none"
  /\ live = {} /\ typed = {} /\ visited = {} /\ level = 0 /\ from = Unit

\* A call of libdwarf fails on a damaged file, for lack of memory, or with a
\* released handle.
Fails(call) ==
  \/ call \in broken /\ UNCHANGED failures
  \/ failures < MaxFailures /\ failures' = failures + 1
Succeeds(call) == call \notin broken /\ UNCHANGED failures

-----------------------------------------------------------------------------
(* sd_search_dwarf_dbg, from its call to its answer. *)

\* The call.  What an earlier search has leaked stays allocated until
\* dwarf_finish and is not tracked any more.
Search(w) ==
  /\ want' = w.accepts /\ types' = w.types /\ answer' = "pending" /\ found' = Nobody
  /\ is_info' = TRUE /\ search_finished' = FALSE
  /\ phase' = "header" /\ cu' = Nobody /\ frames' = <<>> /\ ret' = "none"
  /\ live' = {} /\ typed' = {} /\ visited' = {} /\ level' = 0 /\ from' = Ahead
  /\ UNCHANGED <<broken, foreign, failures, at>>

Answer(a) == answer' = a

\* dwarf_next_cu_header_d fails and stays where it is.
HeaderFails ==
  /\ answer = "pending" /\ phase = "header"
  /\ at[is_info] < End(is_info)
  /\ Fails(<<"header", at[is_info] + 1>>)
  /\ Answer("error")
  /\ UNCHANGED <<fileVars, at, callVars, found, is_info, search_finished, phase,
                 cu, frames, ret, live, histVars>>

\* Mutant of HeaderFound: once something is found, no header is read any more,
\* but the loop waits for the last one.
HeaderFoundStays ==
  /\ answer = "pending" /\ phase = "header"
  /\ at[is_info] < End(is_info)
  /\ Succeeds(<<"header", at[is_info] + 1>>)
  /\ at' = IF search_finished THEN at ELSE [at EXCEPT ![is_info] = @ + 1]
  /\ phase' = IF search_finished THEN "header" ELSE "cu"
  /\ UNCHANGED <<fileVars, callVars, answer, found, is_info, search_finished,
                 cu, frames, ret, live, histVars>>

\* It hands out the next unit.  After the search has found something, the
\* rest of the headers is only read.
HeaderFound ==
  /\ answer = "pending" /\ phase = "header"
  /\ at[is_info] < End(is_info)
  /\ Succeeds(<<"header", at[is_info] + 1>>)
  /\ at' = [at EXCEPT ![is_info] = @ + 1]
  /\ phase' = IF search_finished THEN "header" ELSE "cu"
  /\ UNCHANGED <<fileVars, callVars, answer, found, is_info, search_finished,
                 cu, frames, ret, live, histVars>>

\* Mutant of InfoExhausted: the search ends with .debug_info.
InfoExhaustedEnds ==
  /\ answer = "pending" /\ phase = "header" /\ is_info
  /\ at[TRUE] = End(TRUE)
  /\ at' = [at EXCEPT ![TRUE] = Start(TRUE)]
  /\ Answer(IF search_finished THEN "ok" ELSE "no_entry")
  /\ UNCHANGED <<fileVars, failures, callVars, found, is_info, search_finished, phase,
                 cu, frames, ret, live, histVars>>

\* It has no unit left in .debug_info, is at the start again, and the search
\* goes on in .debug_types.
InfoExhausted ==
  /\ answer = "pending" /\ phase = "header" /\ is_info
  /\ at[TRUE] = End(TRUE)
  /\ at' = [at EXCEPT ![TRUE] = Start(TRUE)]
  /\ is_info' = FALSE
  /\ UNCHANGED <<fileVars, failures, callVars, answer, found, search_finished, phase,
                 cu, frames, ret, live, histVars>>

\* It has no unit left at all.
TypesExhausted ==
  /\ answer = "pending" /\ phase = "header" /\ ~is_info
  /\ at[FALSE] = End(FALSE)
  /\ at' = [at EXCEPT ![FALSE] = Start(FALSE)]
  /\ Answer(IF search_finished THEN "ok" ELSE "no_entry")
  /\ UNCHANGED <<fileVars, failures, callVars, found, is_info, search_finished, phase,
                 cu, frames, ret, live, histVars>>

\* What is allocated of the walk's handles after the callback was called with
\* the one of e: if the callback has built its type, it has released it.
AfterCallback(handles, e) == handles \cup ({e} \ types)

\* search_callback.  The type of an entry that it turns down need not have
\* had any entry that could be fetched.
Callback(e, l) ==
  /\ visited' = visited \cup {e} /\ level' = l
  /\ found' = IF e \in want THEN e ELSE found
  /\ \/ typed' = typed \cup ({e} \cap types)
     \/ e \notin want /\ UNCHANGED typed
  /\ UNCHANGED from

\* sd_search_dwarf_die is called with a handle: it calls the callback, and
\* returns at once or starts its loop.
Enter(callers, e, l) ==
  /\ Callback(e, l)
  /\ frames' = IF e \in want THEN callers
               ELSE Append(callers, [in |-> e, cur |-> e, child |-> Nobody, level |-> l,
                                     step |-> "child"])
  /\ ret' = IF e \in want THEN "ok" ELSE "none"

\* dwarf_siblingof_b for the entry of the unit.
CuFails ==
  /\ answer = "pending" /\ phase = "cu"
  /\ Fails(<<"cu", at[is_info]>>)
  /\ Answer("error")
  /\ UNCHANGED <<fileVars, at, callVars, found, is_info, search_finished, phase,
                 cu, frames, ret, live, histVars>>

CuFound ==
  /\ answer = "pending" /\ phase = "cu"
  /\ Succeeds(<<"cu", at[is_info]>>)
  /\ cu' = CuEntry(at[is_info])
  /\ live' = AfterCallback(live, cu')
  /\ Enter(<<>>, cu', 0)
  /\ phase' = "walk"
  /\ UNCHANGED <<fileVars, at, callVars, answer, is_info, search_finished>>

\* Mutant of CuReturns: a search that has found something returns at once.
CuReturnsAtOnce ==
  /\ answer = "pending" /\ phase = "walk" /\ frames = <<>> /\ ret # "none"
  /\ live' = live \ {cu} /\ cu' = Nobody /\ ret' = "none"
  /\ answer' = IF ret = "no_entry" THEN answer ELSE ret
  /\ search_finished' = (search_finished \/ ret = "ok")
  /\ phase' = "header"
  /\ UNCHANGED <<fileVars, failures, at, callVars, found, is_info, frames, histVars>>

\* The search of the unit has returned.
CuReturns ==
  /\ answer = "pending" /\ phase = "walk" /\ frames = <<>> /\ ret # "none"
  /\ live' = live \ {cu} /\ cu' = Nobody /\ ret' = "none"
  /\ answer' = IF ret = "error" THEN "error" ELSE answer
  /\ search_finished' = (search_finished \/ ret = "ok")
  /\ phase' = "header"
  /\ UNCHANGED <<fileVars, failures, at, callVars, found, is_info, frames, histVars>>

-----------------------------------------------------------------------------
(* sd_search_dwarf_die: one activation, the innermost. *)

Walking == answer = "pending" /\ phase = "walk" /\ ret = "none" /\ frames # <<>>
Top == frames[Len(frames)]
Callers == SubSeq(frames, 1, Len(frames) - 1)
SetTop(f) == [frames EXCEPT ![Len(frames)] = f]

Return(r) == frames' = Callers /\ ret' = r

\* Search children: dwarf_child.
ChildFails ==
  /\ Walking /\ Top.step = "child"
  /\ Fails(<<"child", Top.cur>>)
  /\ Return("error")
  /\ UNCHANGED <<fileVars, at, callVars, answer, found, is_info, search_finished, phase,
                 cu, live, histVars>>

ChildNone ==
  /\ Walking /\ Top.step = "child"
  /\ Succeeds(<<"child", Top.cur>>) /\ Children(Top.cur) = {}
  /\ frames' = SetTop([Top EXCEPT !.step = "sibling"])
  /\ UNCHANGED <<fileVars, at, callVars, answer, found, is_info, search_finished, phase,
                 cu, ret, live, histVars>>

ChildFound ==
  /\ Walking /\ Top.step = "child"
  /\ Succeeds(<<"child", Top.cur>>)
  /\ \E c \in Children(Top.cur) :
       /\ live' = AfterCallback(live, c)
       /\ Enter(SetTop([Top EXCEPT !.step = "call", !.child = c]), c, Top.level + 1)
  /\ UNCHANGED <<fileVars, at, callVars, answer, is_info, search_finished, phase, cu>>

\* Mutant of ChildReturns: a level on which nothing was found ends the search
\* of its parent's siblings.
ChildReturnsAlways ==
  /\ answer = "pending" /\ frames # <<>> /\ ret # "none" /\ Top.step = "call"
  /\ live' = live \ {Top.child}
  /\ frames' = Callers
  /\ UNCHANGED <<fileVars, failures, at, callVars, answer, found, is_info,
                 search_finished, phase, cu, ret, histVars>>

\* Mutant of ChildReturns: the handle of the child is not released.
ChildReturnsHeld ==
  /\ answer = "pending" /\ frames # <<>> /\ ret # "none" /\ Top.step = "call"
  /\ IF ret = "no_entry"
     THEN /\ frames' = SetTop([Top EXCEPT !.step = "sibling", !.child = Nobody])
          /\ ret' = "none"
     ELSE frames' = Callers /\ UNCHANGED ret
  /\ UNCHANGED <<fileVars, failures, at, callVars, answer, found, is_info,
                 search_finished, phase, cu, live, histVars>>

\* The recursive call has returned.  Only when its level was exhausted does
\* the loop go on.
ChildReturns ==
  /\ answer = "pending" /\ frames # <<>> /\ ret # "none" /\ Top.step = "call"
  /\ live' = live \ {Top.child}
  /\ IF ret = "no_entry"
     THEN /\ frames' = SetTop([Top EXCEPT !.step = "sibling", !.child = Nobody])
          /\ ret' = "none"
     ELSE frames' = Callers /\ UNCHANGED ret
  /\ UNCHANGED <<fileVars, failures, at, callVars, answer, found, is_info,
                 search_finished, phase, cu, histVars>>

\* Mutant of WithoutCur: the handle of the caller is released, too.
WithoutAnyCur == live \ {Top.cur}

\* The handle of the current entry is released, unless the caller owns it.
WithoutCur == IF Top.cur = Top.in THEN live ELSE live \ {Top.cur}

\* Search siblings: dwarf_siblingof_b.
SiblingFails ==
  /\ Walking /\ Top.step = "sibling"
  /\ Fails(<<"sibling", Top.cur>>)
  /\ live' = WithoutCur /\ Return("error")
  /\ UNCHANGED <<fileVars, at, callVars, answer, found, is_info, search_finished, phase,
                 cu, histVars>>

SiblingNone ==
  /\ Walking /\ Top.step = "sibling"
  /\ Succeeds(<<"sibling", Top.cur>>) /\ Siblings(Top.cur) = {}
  /\ live' = WithoutCur /\ Return("no_entry")
  /\ UNCHANGED <<fileVars, at, callVars, answer, found, is_info, search_finished, phase,
                 cu, histVars>>

\* An entry that is found here is never released, unless by the callback.
SiblingFound ==
  /\ Walking /\ Top.step = "sibling"
  /\ Succeeds(<<"sibling", Top.cur>>)
  /\ \E s \in Siblings(Top.cur) :
       /\ live' = AfterCallback(WithoutCur, s)
       /\ Callback(s, Top.level)
       /\ IF s \in want THEN Return("ok")
          ELSE /\ frames' = SetTop([Top EXCEPT !.cur = s, !.step = "child"])
               /\ UNCHANGED ret
  /\ UNCHANGED <<fileVars, at, callVars, answer, is_info, search_finished, phase, cu>>

Step ==
  \/ HeaderFails \/ HeaderFound \/ InfoExhausted \/ TypesExhausted
  \/ CuFails \/ CuFound \/ CuReturns
  \/ ChildFails \/ ChildNone \/ ChildFound \/ ChildReturns
  \/ SiblingFails \/ SiblingNone \/ SiblingFound

-----------------------------------------------------------------------------
(* The callers. *)

\* sd_is_valid_compiler: the callback accepts what makes the file invalid.
IsValidCompiler ==
  /\ dbg = "closed" /\ dbg' = "opening"
  /\ Search([accepts |-> {CuEntry(u) : u \in foreign}, types |-> {}])

\* Mutant of DwarfInit: an error counts as a valid compiler.
DwarfInitLenient ==
  /\ dbg = "opening" /\ answer # "pending"
  /\ dbg' = IF answer \in {"no_entry", "error"} THEN "open" ELSE "refused"
  /\ UNCHANGED <<fileVars, failures, at, want, types, answer, found, is_info, search_finished,
                 phase, cu, frames, ret, live, histVars>>

\* sd_dwarf_init keeps the file only when the whole search has found nothing.
DwarfInit ==
  /\ dbg = "opening" /\ answer # "pending"
  /\ dbg' = IF answer = "no_entry" THEN "open" ELSE "refused"
  /\ UNCHANGED <<fileVars, failures, at, want, types, answer, found, is_info, search_finished,
                 phase, cu, frames, ret, live, histVars>>

\* Any other search.
Ask ==
  /\ dbg = "open" /\ answer # "pending"
  /\ \E w \in Wanted : Search(w)
  /\ UNCHANGED dbg

\* dwarf_init_path fails, or the file was refused.
Refused == dbg \in {"closed", "refused"} /\ dbg' = "refused" /\
  UNCHANGED <<fileVars, failures, at, want, types, answer, found, is_info, search_finished,
              phase, cu, frames, ret, live, histVars>>

Next == Step \/ IsValidCompiler \/ DwarfInit \/ Ask \/ Refused

Spec == Init /\ [][Next]_vars

\* One thread runs the search, and nothing in it waits.
FairSpec == Spec /\ WF_vars(Step)

-----------------------------------------------------------------------------
(* Properties. *)

Frame == [in : Entry, cur : Entry, child : Entry \cup {Nobody}, level : Nat,
          step : {"child", "call", "sibling"}]
Result == {"ok", "no_entry", "error"}

\* Every variable has the values that the code can give it.
TypeOK ==
  /\ broken \subseteq Calls /\ foreign \subseteq 1 .. NInfo
  /\ failures \in Nat
  /\ at \in [BOOLEAN -> 0 .. NUnits]
  /\ dbg \in {"closed", "opening", "open", "refused"}
  /\ want \subseteq Entry /\ types \subseteq Entry /\ answer \in Result \cup {"none", "pending"}
  /\ found \in Entry \cup {Nobody}
  /\ is_info \in BOOLEAN /\ search_finished \in BOOLEAN
  /\ phase \in {"header", "cu", "walk"} /\ cu \in Entry \cup {Nobody}
  /\ frames \in Seq(Frame) /\ ret \in Result \cup {"none"}
  /\ live \subseteq Entry /\ typed \subseteq Entry /\ visited \subseteq Entry /\ level \in Nat
  /\ from \subseteq Unit

\* A search that does not end in an error leaves libdwarf's position at the
\* start of both sections, so that the next search sees every unit.  That is
\* what the walk over the remaining headers is for.
AnswerLeavesStart ==
  answer \in {"ok", "no_entry"} => at = [s \in BOOLEAN |-> Start(s)]

\* A handle that the walk has in its hands is allocated, unless the callback has
\* built its type and so released it.
Held(e) == e \in live <=> e \notin types

\* Of the handles that the walk still uses or has to release, those of entries
\* whose types are not built are allocated, and no two of them are the same:
\* of its own the walk uses none after its release and releases none twice,
\* although caller and callee share the handle of the level's first entry.
\* The handle of a variable whose type the callback has built is used, and
\* released again, after sd_variable_type has released it.
HandlesHeld ==
  answer = "pending" =>
    /\ phase = "walk" => Held(cu)
    /\ \A i \in DOMAIN frames :
         /\ Held(frames[i].in) /\ Held(frames[i].cur)
         /\ frames[i].step = "call" => Held(frames[i].child)
    /\ \A i, j \in DOMAIN frames : i < j =>
         /\ frames[i].cur < frames[j].in
         /\ frames[i].step = "call" /\ frames[i].child <= frames[j].in

\* A search that found nothing leaves none of the walk's handles allocated.
\* What does stay allocated until dwarf_finish are the entries of the types of
\* variables, which it has turned down: sd_variable_type releases none of them.
AbsentLeaksOnlyTypes == answer = "no_entry" => live = {} /\ typed \subseteq types \ want

\* The walk calls the callback with every entry of the units it looks at,
\* once, in the order of the file and with its true depth, however deep the
\* recursion: the scopes of variables are computed from that.
VisitsInOrder ==
  [][visited' # visited /\ answer = "pending" =>
       \E e \in Entry :
         /\ visited' = visited \cup {e} /\ e \notin visited /\ level' = Level[e]
         /\ \A d \in Entry : UnitOf[d] \in from /\ d < e => d \in visited]_vars

\* sd_dwarf_init has read every unit and every entry before the file is used,
\* so that damage to the file never surfaces later: as long as memory does
\* not run out, each search finds the first entry, or it is not there.
OpenedFilesAnswer ==
  dbg = "open" /\ failures = 0 =>
    /\ answer # "error"
    /\ answer = "no_entry" => want = {}
    /\ answer = "ok" => found \in want /\ \A e \in want : found <= e

\* The search implements EntrySearch.
Abstract == INSTANCE EntrySearch WITH
  found <- IF answer = "ok" THEN found ELSE Nobody,
  ahead <- IF answer = "pending" THEN from ELSE Ahead
RefinesEntrySearch == Abstract!Spec

\* Every search returns.
SearchReturns == answer = "pending" ~> answer # "pending"

=============================================================================
