---------------------------- MODULE EntrySearch ----------------------------
(***************************************************************************)
(* What a search of the debug information promises to its callers          *)
(* (sd_search_dwarf_dbg), whatever way it walks: it answers once, with the *)
(* first entry it was asked for among the units that are ahead, and makes  *)
(* all units be ahead of the next search.  Only an error may leave some of *)
(* them behind.                                                            *)
(***************************************************************************)
EXTENDS Integers

CONSTANTS
  Unit,   \* the units of a file, numbered in their order
  Entry,  \* the entries of all units, numbered in their order
  UnitOf  \* the unit of an entry

VARIABLES
  want,   \* the entries a callback accepts
  answer, \* "none" before the first search, "pending", or what it returned
  found,  \* the entry found, 0 without one
  ahead   \* the units that a search looks at

vars == <<want, answer, found, ahead>>

Init ==
  /\ want = {} /\ answer = "none" /\ found = 0
  /\ ahead = Unit

\* A caller asks for the first entry that satisfies its callback.
Ask(w) ==
  /\ answer # "pending"
  /\ want' = w /\ answer' = "pending" /\ found' = 0
  /\ UNCHANGED ahead

Accepted == {e \in want : UnitOf[e] \in ahead}

\* DW_DLV_OK
Found ==
  /\ answer = "pending"
  /\ \E e \in Accepted :
       /\ \A o \in Accepted : e <= o
       /\ found' = e
  /\ answer' = "ok" /\ ahead' = Unit
  /\ UNCHANGED want

\* DW_DLV_NO_ENTRY
Absent ==
  /\ answer = "pending" /\ Accepted = {}
  /\ answer' = "no_entry" /\ ahead' = Unit
  /\ UNCHANGED <<want, found>>

\* DW_DLV_ERROR
Failed ==
  /\ answer = "pending"
  /\ answer' = "error" /\ ahead' \in SUBSET Unit
  /\ UNCHANGED <<want, found>>

Next == (\E w \in SUBSET Entry : Ask(w)) \/ Found \/ Absent \/ Failed

Spec == Init /\ [][Next]_vars

=============================================================================
