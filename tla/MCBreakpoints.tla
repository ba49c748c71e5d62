--------------------------- MODULE MCBreakpoints ---------------------------
(***************************************************************************)
(* Breakpoints on four addresses and words of two bytes.  Breakpoints at 0 *)
(* and 1 share a byte, the word at 2 can be read but not written, and the  *)
(* word at 3 leaves the mapping: every error path is taken.                *)
(***************************************************************************)
EXTENDS Breakpoints

MCReadable == {0, 1, 2, 3}
MCWritable == {0, 1, 2}

=============================================================================
