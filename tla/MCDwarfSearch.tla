--------------------------- MODULE MCDwarfSearch ---------------------------
(***************************************************************************)
(* A file of two units of .debug_info and one of .debug_types for          *)
(* DwarfSearch.                                                            *)
(***************************************************************************)
EXTENDS DwarfSearch, FiniteSets

\* The first unit is a tree of three levels, in which the walk goes down, up
\* by two levels, and on to a sibling.
MCUnitOf == <<1, 1, 1, 1, 1, 2, 2, 3>>
MCLevel == <<0, 1, 2, 2, 1, 0, 1, 0>>

\* Callbacks that build no type, and that build those of the variables 3, 4
\* and 7, which have no children, and turn some of them down.
MCWanted ==
  {[accepts |-> w, types |-> {}] : w \in {v \in SUBSET Entry : Cardinality(v) <= 2}}
  \cup {[accepts |-> w, types |-> {3, 4, 7}] : w \in SUBSET {4, 7}}

\* A file is damaged in at most one place.
MCDamages == {{}} \cup {{c} : c \in Calls}

=============================================================================
