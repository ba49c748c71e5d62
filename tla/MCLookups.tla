----------------------------- MODULE MCLookups -----------------------------
(***************************************************************************)
(* Programs for Lookups: functions f and g in one file, h in another, of   *)
(* four addresses each.                                                    *)
(***************************************************************************)
EXTENDS Lookups

Row(a, l) == [addr |-> a, ln |-> l, stmt |-> TRUE, prologue_end |-> FALSE]

\* The rows of a function at address a behind line l.
Plain(a, l) == <<Row(a, l + 1), Row(a + 1, l + 2), Row(a + 3, l + 3)>>
Marked(a, l) == <<Row(a, l + 1), [Row(a + 1, l + 1) EXCEPT !.stmt = FALSE],
                  [Row(a + 2, l + 2) EXCEPT !.prologue_end = TRUE], Row(a + 3, l + 3)>>
\* A call whose argument is on the line below.
Crossed(a, l) == <<Row(a, l + 1), Row(a + 1, l + 3), Row(a + 2, l + 2)>>
\* Optimised: two lines begin at the first address, or all is one line.
Doubled(a, l) == <<Row(a, l + 1), Row(a, l + 2), Row(a + 2, l + 3)>>
Single(a, l) == <<Row(a, l + 1)>>

Pattern(p, a, l) ==
  CASE p = "plain" -> Plain(a, l) [] p = "marked" -> Marked(a, l)
    [] p = "crossed" -> Crossed(a, l) [] p = "doubled" -> Doubled(a, l)
    [] OTHER -> Single(a, l)

\* A unit ends its table with a row behind its code.
Unit(file, low, high, rows) ==
  [file |-> file, low |-> low, high |-> high,
   files |-> <<file, [dir |-> "inc", base |-> "a.h", real |-> "inc"]>>,
   rows |-> Append(rows, Row(high, Last(rows).ln))]

Func(name, low) == [name |-> name, low |-> low, high |-> low + 4, func |-> TRUE]

\* Two names for two files: two names, one name in two directories that are
\* there or not, and a path realpath would write differently.
Path(dir, base, real) == [dir |-> dir, base |-> base, real |-> real]
Apart == <<Path("src", "a.c", "src"), Path("src", "b.c", "src")>>
Dirs == <<Path("src", "a.c", "src"), Path("lib", "a.c", "lib")>>
Gone == <<Path("src", "a.c", Missing), Path("lib", "a.c", Missing)>>
Dotted == <<Path("src", "a.c", "src"), Path("src/../lib", "b.c", "lib")>>

\* Program: the file with f and g at address i, that with h at address j.
Layout(files, i, j, third, f, g, h) ==
  LET a == Unit(files[1], i, i + 8, Pattern(f, i, 0) \o Pattern(g, i + 4, 4))
      b == Unit(files[2], j, j + 4, Pattern(h, j, 0))
      funcs == <<Func("f", i), Func("g", i + 4), Func(third, j)>>
  IN  [units |-> <<a, b>>, symbols |-> funcs, subprograms |-> funcs]

Patterns == {"plain", "marked", "crossed", "doubled", "single"}

\* In order or not, with and without a gap; h may be a second f.
MCPrograms ==
  {Layout(files, at[1], at[2], third, f, g, h) :
     files \in {Apart, Dirs, Gone, Dotted}, at \in {<<1, 9>>, <<1, 10>>, <<5, 1>>, <<6, 1>>},
     third \in {"h", "f"}, f \in Patterns, g \in Patterns, h \in Patterns}

=============================================================================
