-------------------------- MODULE InspectionProofs --------------------------
(***************************************************************************)
(* Proofs about Inspection: print and set mean the variable of the         *)
(* function that the tracee stands in, they show and confirm what its      *)
(* memory and registers hold, and the backtrace follows the chain of the   *)
(* frame pointers to its end.                                              *)
(***************************************************************************)
EXTENDS Inspection, FirstProofs

-----------------------------------------------------------------------------
(* The scopes of functions: the first search of sd_runtime_variable. *)

\* What the search makes of an entry after what it made of those before.
Scan(s, dies, pc, name, i) ==
  LET now == ScopeStep(s, dies[i], pc)
  IN  IF s.found = NotFound /\ now.in_scope /\ IsVariable(dies[i], name)
      THEN [now EXCEPT !.found = i] ELSE now

Unscanned == [in_scope |-> FALSE, scope_level |-> 0, found |-> NotFound]

\* f is the search of the first k entries.
Scans(f, dies, pc, name, k) ==
  f = [i \in 0 .. k |-> IF i = 0 THEN Unscanned ELSE Scan(f[i - 1], dies, pc, name, i)]

LEMMA ScopedVariableIs ==
  ASSUME NEW dies, NEW pc, NEW name
  PROVE  ScopedVariable(dies, pc, name)
           = (CHOOSE f : Scans(f, dies, pc, name, Len(dies)))[Len(dies)].found
BY DEF ScopedVariable, Scans, Scan, Unscanned

\* A search of any number of entries is there: if one were not, there would be
\* a least number of entries whose search is not, but it continues the one
\* before.
LEMMA ScansExist ==
  ASSUME NEW dies, NEW pc, NEW name, NEW n \in Nat
  PROVE  \E f : Scans(f, dies, pc, name, n)
<1> DEFINE Bad == {k \in Nat : ~ \E f : Scans(f, dies, pc, name, k)}
<1>1. SUFFICES ASSUME Bad # {}
               PROVE  FALSE
  OBVIOUS
<1>2. PICK k \in Bad : \A j \in Bad : k <= j
  BY <1>1, Least
<1>3. CASE k = 0
  <2> DEFINE f == [i \in 0 .. 0 |-> Unscanned]
  <2>1. f = [i \in 0 .. 0 |-> IF i = 0 THEN Unscanned ELSE Scan(f[i - 1], dies, pc, name, i)]
    OBVIOUS
  <2>2. Scans(f, dies, pc, name, 0)
    BY <2>1 DEF Scans
  <2> QED BY <1>3, <2>2
<1>4. CASE k # 0
  <2>1. k \in Nat /\ k - 1 \in Nat /\ k - 1 \notin Bad
    BY <1>2, <1>4
  <2>2. PICK f : Scans(f, dies, pc, name, k - 1)
    BY <2>1
  <2> DEFINE g == [i \in 0 .. k |->
                     IF i = k THEN Scan(f[k - 1], dies, pc, name, k) ELSE f[i]]
  <2>3. f = [i \in 0 .. k - 1 |->
              IF i = 0 THEN Unscanned ELSE Scan(f[i - 1], dies, pc, name, i)]
    BY <2>2 DEF Scans
  <2>4. ASSUME NEW i \in 0 .. k
        PROVE  g[i] = IF i = 0 THEN Unscanned ELSE Scan(g[i - 1], dies, pc, name, i)
    <3>1. CASE i = k
      BY <1>4, <2>1, <3>1
    <3>2. CASE i # k
      <4>1. i \in 0 .. k - 1 /\ g[i] = f[i]
        BY <2>1, <3>2
      <4>2. f[i] = IF i = 0 THEN Unscanned ELSE Scan(f[i - 1], dies, pc, name, i)
        BY <2>3, <4>1
      <4>3. i # 0 => g[i - 1] = f[i - 1]
        BY <2>1, <4>1
      <4> QED BY <4>1, <4>2, <4>3
    <3> QED BY <3>1, <3>2
  <2>5. g = [i \in 0 .. k |-> IF i = 0 THEN Unscanned ELSE Scan(g[i - 1], dies, pc, name, i)]
    <3> HIDE DEF g
    <3>1. g = [i \in 0 .. k |-> g[i]]
      BY DEF g
    <3> QED BY <2>4, <3>1
  <2>6. Scans(g, dies, pc, name, k)
    <3> HIDE DEF g
    <3> QED BY <2>5 DEF Scans
  <2> QED BY <1>2, <2>6
<1> QED BY <1>3, <1>4

\* A function that holds pc, its end included, and that i or one of its
\* descendants is.
Covering(dies, pc, f, i) ==
  /\ f \in 1 .. i /\ dies[f].tag = "subprogram"
  /\ HasRange(dies[f]) /\ PcInDie(dies[f], pc)
  /\ \A m \in f + 1 .. i : dies[m].level > dies[f].level

\* The entries as a tree.
Tree(dies) ==
  /\ Len(dies) \in Nat /\ DOMAIN dies = 1 .. Len(dies) /\ NotNested(dies)
  /\ \A i \in 1 .. Len(dies) : {dies[i].level, dies[i].low, dies[i].high} \subseteq Nat

\* The search is in scope where such a function is, and knows its level; it has
\* found the first variable in scope.
ScopeAt(s, dies, pc, i) ==
  /\ s.in_scope \in BOOLEAN
  /\ s.in_scope <=> \E f \in 1 .. i : Covering(dies, pc, f, i)
  /\ s.in_scope => \E f \in 1 .. i : Covering(dies, pc, f, i) /\ s.scope_level = dies[f].level

InScope(dies, pc, name, i) ==
  {j \in 1 .. i : IsVariable(dies[j], name) /\ \E f \in 1 .. j : Covering(dies, pc, f, j)}

\* One entry, as the code sees it: whether it is below the function of the
\* scope.
LEMMA ScopeStepKeeps ==
  ASSUME NEW dies, Tree(dies), NEW pc \in Int, NEW i \in 1 .. Len(dies), NEW s,
         s = [in_scope |-> s.in_scope, scope_level |-> s.scope_level, found |-> s.found],
         ScopeAt(s, dies, pc, i - 1)
  PROVE  ScopeAt(ScopeStep(s, dies[i], pc), dies, pc, i)
<1> DEFINE d == dies[i]
           below == s.in_scope /\ d.level > s.scope_level
           inside == IF HasRange(d) THEN PcInDie(d, pc) ELSE below
           now == ScopeStep(s, d, pc)
<1>1. i \in Nat /\ i - 1 \in Nat /\ Len(dies) \in Nat
  BY DEF Tree
<1>2. ASSUME NEW f \in 1 .. i - 1
      PROVE  Covering(dies, pc, f, i) <=> Covering(dies, pc, f, i - 1) /\ d.level > dies[f].level
  <2>1. f + 1 .. i = (f + 1 .. i - 1) \cup {i}
    BY <1>1
  <2> QED BY <1>1, <2>1 DEF Covering
<1>3. ASSUME NEW f \in 1 .. i - 1, NEW g \in 1 .. i - 1,
             Covering(dies, pc, f, i - 1), Covering(dies, pc, g, i - 1)
      PROVE  f = g
  <2>1. ASSUME NEW a \in 1 .. i - 1, NEW b \in 1 .. i - 1, a < b,
               Covering(dies, pc, a, i - 1), Covering(dies, pc, b, i - 1)
        PROVE  FALSE
    <3>1. PICK m \in a + 1 .. b : dies[m].level <= dies[a].level
      BY <1>1, <2>1 DEF Tree, NotNested, Covering
    <3>2. m \in a + 1 .. i - 1 /\ m \in 1 .. Len(dies)
      BY <1>1
    <3>3. dies[m].level > dies[a].level
      BY <2>1, <3>2 DEF Covering
    <3>4. dies[m].level \in Nat /\ dies[a].level \in Nat
      BY <1>1, <3>2 DEF Tree
    <3> QED BY <3>1, <3>3, <3>4
  <2>2. f \in Nat /\ g \in Nat
    BY <1>1
  <2>3. ~ f < g /\ ~ g < f
    BY <1>3, <2>1
  <2> QED BY <2>2, <2>3
<1>4. below <=> \E f \in 1 .. i - 1 : Covering(dies, pc, f, i)
  BY <1>2, <1>3 DEF ScopeAt
<1>5. below => \E f \in 1 .. i - 1 : Covering(dies, pc, f, i) /\ s.scope_level = dies[f].level
  BY <1>2, <1>3 DEF ScopeAt
<1>6. CASE d.tag # "subprogram"
  <2>1. now.in_scope = below /\ now.scope_level = s.scope_level
    BY <1>6 DEF ScopeStep
  <2>2. ~Covering(dies, pc, i, i)
    BY <1>6 DEF Covering
  <2>3. (\E f \in 1 .. i : Covering(dies, pc, f, i)) <=> \E f \in 1 .. i - 1 : Covering(dies, pc, f, i)
    BY <1>1, <2>2
  <2>4. ScopeAt(now, dies, pc, i)
    <3> HIDE DEF now
    <3>1. below \in BOOLEAN
      BY DEF ScopeAt
    <3> HIDE DEF below
    <3> QED BY <1>1, <1>4, <1>5, <2>1, <2>3, <3>1 DEF ScopeAt
  <2> QED BY <2>4
<1>7. CASE d.tag = "subprogram"
  <2>1. ~below
    <3>1. ASSUME NEW f \in 1 .. i - 1, Covering(dies, pc, f, i)
          PROVE  FALSE
      <4>1. PICK m \in f + 1 .. i : dies[m].level <= dies[f].level
        BY <1>1, <1>7, <3>1 DEF Tree, NotNested, Covering
      <4>2. dies[m].level > dies[f].level
        BY <3>1, <4>1 DEF Covering
      <4>3. dies[m].level \in Nat /\ dies[f].level \in Nat
        BY <1>1, <4>1 DEF Tree
      <4> QED BY <4>1, <4>2, <4>3
    <3> QED BY <1>4, <3>1
  <2>2. now.in_scope = inside /\ now.scope_level = IF inside THEN d.level ELSE s.scope_level
    BY <1>7 DEF ScopeStep
  <2>3. inside <=> Covering(dies, pc, i, i)
    <3>1. i + 1 .. i = {}
      BY <1>1
    <3> QED BY <1>1, <1>7, <2>1, <3>1 DEF Covering
  <2>4. (\E f \in 1 .. i : Covering(dies, pc, f, i)) <=> Covering(dies, pc, i, i)
    BY <1>1, <1>4, <2>1
  <2>5. inside \in BOOLEAN
    BY <2>1 DEF PcInDie, HasRange
  <2>6. ScopeAt(now, dies, pc, i)
    <3>1. i \in 1 .. i
      BY <1>1
    <3> HIDE DEF now, inside
    <3> QED BY <2>2, <2>3, <2>4, <2>5, <3>1 DEF ScopeAt
  <2> QED BY <2>6
<1> QED BY <1>6, <1>7

\* What the search knows after i entries.
Scanned(s, dies, pc, name, i) ==
  /\ s = [in_scope |-> s.in_scope, scope_level |-> s.scope_level, found |-> s.found]
  /\ ScopeAt(s, dies, pc, i)
  /\ IsFirst(s.found, InScope(dies, pc, name, i))

LEMMA ScanKeeps ==
  ASSUME NEW dies, Tree(dies), NEW pc \in Int, NEW name, NEW i \in 1 .. Len(dies), NEW s,
         Scanned(s, dies, pc, name, i - 1)
  PROVE  Scanned(Scan(s, dies, pc, name, i), dies, pc, name, i)
<1> DEFINE now == ScopeStep(s, dies[i], pc)
           new == Scan(s, dies, pc, name, i)
           I == InScope(dies, pc, name, i)
           J == InScope(dies, pc, name, i - 1)
           here == now.in_scope /\ IsVariable(dies[i], name)
<1>1. i \in Nat \ {0}
  BY DEF Tree
<1>2. ScopeAt(now, dies, pc, i)
  BY ScopeStepKeeps DEF Scanned
<1>3. /\ now = [in_scope |-> now.in_scope, scope_level |-> now.scope_level, found |-> now.found]
      /\ now.found = s.found
  BY DEF ScopeStep, Scanned
<1>4. /\ new = [in_scope |-> new.in_scope, scope_level |-> new.scope_level, found |-> new.found]
      /\ new.in_scope = now.in_scope /\ new.scope_level = now.scope_level
      /\ new.found = IF s.found = NotFound /\ here THEN i ELSE s.found
  <2> HIDE DEF now
  <2>1. new = IF s.found = NotFound /\ here THEN [now EXCEPT !.found = i] ELSE now
    BY DEF Scan, now
  <2> HIDE DEF new
  <2> QED BY <1>3, <2>1
<1>5. ScopeAt(new, dies, pc, i)
  <2> HIDE DEF now, new
  <2> QED BY <1>2, <1>4 DEF ScopeAt
<1>6. here <=> i \in I
  <2>1. i \in 1 .. i
    BY <1>1
  <2>2. now.in_scope <=> \E f \in 1 .. i : Covering(dies, pc, f, i)
    BY <1>2 DEF ScopeAt
  <2> HIDE DEF now
  <2> QED BY <2>1, <2>2 DEF InScope
<1>7. J = I \ {i} /\ I \subseteq 1 .. i
  <2>1. 1 .. i - 1 = (1 .. i) \ {i}
    BY <1>1
  <2> QED BY <2>1 DEF InScope
<1>8. IsFirst(s.found, J)
  BY DEF Scanned
<1>9. IsFirst(new.found, I)
  <2> HIDE DEF now, new, here, I, J
  <2>1. CASE J = {}
    <3>1. s.found = NotFound
      BY <1>8, <2>1 DEF IsFirst, NotFound
    <3>2. CASE here
      <4>1. I = {i} /\ new.found = i
        BY <1>4, <1>6, <1>7, <2>1, <3>1, <3>2
      <4> QED BY <1>1, <4>1 DEF IsFirst
    <3>3. CASE ~here
      <4>1. I = {} /\ new.found = 0
        BY <1>4, <1>6, <1>7, <2>1, <3>1, <3>3 DEF NotFound
      <4> QED BY <4>1 DEF IsFirst
    <3> QED BY <3>2, <3>3
  <2>2. CASE J # {}
    <3>1. s.found \in J /\ \A j \in J : s.found <= j
      BY <1>8, <2>2 DEF IsFirst
    <3>2. s.found \in 1 .. i /\ new.found = s.found
      BY <1>1, <1>4, <1>7, <3>1 DEF NotFound
    <3>3. \A j \in I : s.found <= j
      BY <1>1, <1>7, <3>1, <3>2
    <3> QED BY <1>7, <3>1, <3>2, <3>3 DEF IsFirst
  <2> QED BY <2>1, <2>2
<1> HIDE DEF new
<1>10. Scanned(new, dies, pc, name, i)
  BY <1>4, <1>5, <1>9 DEF Scanned
<1> QED BY <1>10 DEF new

\* The first search finds the first variable in scope.
LEMMA ScopedVariableFinds ==
  ASSUME NEW dies, Tree(dies), NEW pc \in Int, NEW name
  PROVE  IsFirst(ScopedVariable(dies, pc, name), InScope(dies, pc, name, Len(dies)))
<1> DEFINE n == Len(dies)
           g == CHOOSE f : Scans(f, dies, pc, name, n)
           Bad == {k \in 0 .. n : ~Scanned(g[k], dies, pc, name, k)}
<1>1. n \in Nat
  BY DEF Tree
<1>2. Scans(g, dies, pc, name, n)
  <2> HIDE DEF n
  <2> QED BY <1>1, ScansExist
<1> HIDE DEF g
<1>3. /\ g[0] = Unscanned
      /\ \A i \in 1 .. n : g[i] = Scan(g[i - 1], dies, pc, name, i)
  <2>1. g = [i \in 0 .. n |-> IF i = 0 THEN Unscanned ELSE Scan(g[i - 1], dies, pc, name, i)]
    BY <1>2 DEF Scans
  <2> HIDE DEF n
  <2>2. \A i \in 0 .. n : g[i] = IF i = 0 THEN Unscanned ELSE Scan(g[i - 1], dies, pc, name, i)
    BY <2>1
  <2> QED BY <1>1, <2>2
<1>4. 0 \notin Bad
  <2>1. 1 .. 0 = {}
    OBVIOUS
  <2>2. InScope(dies, pc, name, 0) = {}
    BY <2>1 DEF InScope
  <2>3. ScopeAt(Unscanned, dies, pc, 0)
    BY <2>1 DEF ScopeAt, Unscanned
  <2> QED BY <1>3, <2>2, <2>3 DEF Scanned, Unscanned, IsFirst, NotFound
<1>5. ASSUME NEW k \in Bad, \A j \in Bad : k <= j
      PROVE  FALSE
  <2>1. k \in 1 .. n /\ k - 1 \in 0 .. n
    BY <1>1, <1>4
  <2>2. k - 1 \notin Bad
    <3> HIDE DEF Bad, n
    <3> QED BY <1>1, <1>5, <2>1
  <2>3. Scanned(g[k - 1], dies, pc, name, k - 1)
    BY <2>1, <2>2
  <2>4. Scanned(g[k], dies, pc, name, k)
    BY <1>3, <2>1, <2>3, ScanKeeps
  <2> QED BY <1>5, <2>4
<1>6. Bad = {}
  <2>1. Bad \in SUBSET Nat
    BY <1>1
  <2> HIDE DEF Bad
  <2> QED BY <1>5, <2>1, Least
<1>7. Scanned(g[n], dies, pc, name, n)
  BY <1>1, <1>6
<1>8. ScopedVariable(dies, pc, name) = g[n].found
  BY ScopedVariableIs DEF g
<1> QED BY <1>7, <1>8 DEF Scanned

\* The second search finds the first variable of that name at all.
LEMMA VariableEntryIs ==
  ASSUME NEW dies, Tree(dies), NEW pc \in Int, NEW name
  PROVE  LET e == VariableEntry(dies, pc, name)
             scoped == InScope(dies, pc, name, Len(dies))
         IN  IF scoped # {} THEN IsFirst(e, scoped)
             ELSE IsFirst(e, {j \in 1 .. Len(dies) : IsVariable(dies[j], name)})
<1> DEFINE e == VariableEntry(dies, pc, name)
           s == ScopedVariable(dies, pc, name)
           scoped == InScope(dies, pc, name, Len(dies))
           all == {j \in 1 .. Len(dies) : IsVariable(dies[j], name)}
<1>1. IsFirst(s, scoped)
  BY ScopedVariableFinds
<1>2. scoped \subseteq Nat \ {0} /\ all \in SUBSET Nat
  BY DEF InScope, Tree
<1>3. e = IF s # 0 THEN s ELSE AnyVariable(dies, name)
  BY DEF VariableEntry, NotFound
<1>4. AnyVariable(dies, name) = IF all # {} THEN Min(all) ELSE 0
  BY DEF AnyVariable, SelectInSeq
<1>5. IsFirst(AnyVariable(dies, name), all)
  <2> HIDE DEF all
  <2> QED BY <1>2, <1>4, FirstOf
<1> HIDE DEF e, s, scoped, all
<1>6. s # 0 <=> scoped # {}
  BY <1>1, <1>2 DEF IsFirst
<1>7. IF scoped # {} THEN IsFirst(e, scoped) ELSE IsFirst(e, all)
  BY <1>1, <1>3, <1>5, <1>6
<1> QED BY <1>7 DEF e, scoped, all

-----------------------------------------------------------------------------
(* Remainders. *)

\* A number and its remainder.
LEMMA Division ==
  ASSUME NEW n \in Int, NEW m \in Nat \ {0}
  PROVE  /\ n % m \in 0 .. m - 1
         /\ \E q \in Int : n = m * q + (n % m)
<1>1. n \div m \in Int /\ n = m * (n \div m) + (n % m) /\ n % m \in 0 .. m - 1
  OBVIOUS
<1> QED BY <1>1

\* A multiple that is closer to 0 than the number itself is 0.
LEMMA SmallMultiple ==
  ASSUME NEW m \in Nat \ {0}, NEW a \in Int, NEW d \in Int, d = m * a, 0 - m < d, d < m
  PROVE  d = 0
<1>1. CASE a >= 1
  <2>1. m * a >= m
    BY <1>1
  <2> QED BY <2>1
<1>2. CASE a <= -1
  <2>1. m * a <= 0 - m
    BY <1>2
  <2> QED BY <2>1
<1>3. CASE a = 0
  BY <1>3
<1> QED BY <1>1, <1>2, <1>3

\* Of numbers in a row of m, only one has a given remainder.
LEMMA InWindow ==
  ASSUME NEW m \in Nat \ {0}, NEW least \in Int,
         NEW u \in least .. least + m - 1, NEW v \in least .. least + m - 1,
         NEW p \in Int, NEW q \in Int, u - v = m * p - m * q
  PROVE  u = v
<1>1. u - v \in Int /\ 0 - m < u - v /\ u - v < m
  OBVIOUS
<1>2. p - q \in Int /\ u - v = m * (p - q)
  OBVIOUS
<1>3. u - v = 0
  BY <1>1, <1>2, SmallMultiple
<1> QED BY <1>3

LEMMA RemainderIs ==
  ASSUME NEW m \in Nat \ {0}, NEW r \in 0 .. m - 1, NEW q \in Int, NEW n \in Int, n = m * q + r
  PROVE  n % m = r
<1>1. PICK k \in Int : n = m * k + (n % m)
  BY Division
<1>2. n % m \in 0 .. 0 + m - 1 /\ r \in 0 .. 0 + m - 1
  BY Division
<1> DEFINE s == n % m
<1>3. s \in 0 .. 0 + m - 1 /\ n = m * k + s
  BY <1>1, <1>2
<1> HIDE DEF s
<1>4. s - r \in Int /\ 0 - m < s - r /\ s - r < m
  BY <1>2, <1>3
<1>5. q - k \in Int /\ s - r = m * (q - k)
  BY <1>3
<1>6. s - r = 0
  BY <1>4, <1>5, SmallMultiple
<1>7. s = r
  BY <1>2, <1>3, <1>6
<1> QED BY <1>7 DEF s

LEMMA RemainderOfRemainder ==
  ASSUME NEW n \in Int, NEW m \in Nat \ {0}, NEW M \in Nat \ {0}, M % m = 0
  PROVE  (n % M) % m = n % m
<1> DEFINE r == n % M
<1>1. PICK q \in Int : n = M * q + r
  BY Division
<1>2. PICK k \in Int : M = m * k + 0
  BY Division
<1>3. r \in Int
  BY Division
<1> HIDE DEF r
<1>4. PICK j \in Int : r = m * j + (r % m)
  BY <1>3, Division
<1>5. r % m \in 0 .. m - 1
  BY <1>3, Division
<1> DEFINE i == k * q + j
           s == r % m
<1>6. n = m * i + s /\ i \in Int
  <2>1. M * q = m * (k * q)
    BY <1>2
  <2>2. m * (k * q + j) = m * (k * q) + m * j
    OBVIOUS
  <2> QED BY <1>1, <1>4, <1>5, <2>1, <2>2
<1>7. s \in 0 .. m - 1
  BY <1>5
<1> HIDE DEF i, s
<1>8. n % m = s
  BY <1>6, <1>7, RemainderIs
<1> QED BY <1>8 DEF r, s

-----------------------------------------------------------------------------
(* Words and their bytes. *)

LEMMA Powers ==
  /\ WORD \in Nat \ {0} /\ BYTE ^ WORD \in Nat \ {0} /\ (BYTE ^ WORD) % 2 = 0
  /\ 0 \in WordValue
BY WordAssumption, PowersAssumption DEF WordValue

LEMMA MaskIsWord ==
  ASSUME NEW n \in Int
  PROVE  n % BYTE ^ WORD \in WordValue
<1> DEFINE M == BYTE ^ WORD
<1>1. M \in Nat \ {0}
  BY Powers
<1> HIDE DEF M
<1>2. n % M \in 0 .. M - 1
  BY <1>1
<1> QED BY <1>2 DEF M, WordValue

LEMMA MaskOfWord ==
  ASSUME NEW n \in WordValue
  PROVE  n \in Int /\ n % BYTE ^ WORD = n
<1> DEFINE M == BYTE ^ WORD
<1>1. M \in Nat \ {0} /\ n \in 0 .. M - 1
  BY Powers DEF WordValue
<1> HIDE DEF M
<1>2. n \in Int /\ n % M = n
  BY <1>1
<1> QED BY <1>2 DEF M

LEMMA ParseNumIsWord ==
  ASSUME NEW n \in Int
  PROVE  /\ ParseNum(n) \in WordValue
         /\ IsLong(n) => ParseNum(n) = n % BYTE ^ WORD
<1> DEFINE M == BYTE ^ WORD
<1>1. M \in Nat \ {0} /\ M % 2 = 0
  BY Powers
<1>2. ParseNum(n) = IF IsLong(n) THEN n % M ELSE IF n < 0 THEN M \div 2 ELSE M \div 2 - 1
  BY DEF ParseNum
<1>3. WordValue = 0 .. M - 1 /\ n % M \in WordValue
  BY MaskIsWord DEF WordValue
<1> HIDE DEF M
<1>4. M \div 2 \in Nat /\ M \div 2 > 0 /\ M \div 2 < M
  BY <1>1
<1>5. ParseNum(n) \in WordValue /\ (IsLong(n) => ParseNum(n) = n % M)
  BY <1>1, <1>2, <1>3, <1>4
<1> QED BY <1>5 DEF M

\* A word that was stored is the word that is read there.
LEMMA StoredIsRead ==
  ASSUME NEW m, NEW a \in Int, NEW w \in WordValue, a .. a + WORD - 1 \subseteq DOMAIN m
  PROVE  /\ DOMAIN Stored(m, a, w) = DOMAIN m
         /\ WordAt(Stored(m, a, w), a) = w
<1> DEFINE s == Stored(m, a, w)
           Has(v) == \A i \in 0 .. WORD - 1 : Byte(v, i) = s[a + i]
<1>1. DOMAIN s = DOMAIN m
  BY DEF Stored
<1>2. ASSUME NEW i \in 0 .. WORD - 1
      PROVE  s[a + i] = Byte(w, i)
  <2>1. a + i \in a .. a + WORD - 1 /\ (a + i) - a = i
    BY Powers
  <2>2. a + i \in DOMAIN m
    BY <2>1
  <2>3. s[a + i] = Byte(w, (a + i) - a)
    BY <2>1, <2>2 DEF Stored
  <2> QED BY <2>1, <2>3
<1>3. Has(w)
  BY <1>2
<1>4. ASSUME NEW v \in WordValue, Has(v)
      PROVE  v = w
  BY <1>2, <1>4, BytesAssumption
<1>5. WordAt(s, a) = CHOOSE v \in WordValue : Has(v)
  BY DEF WordAt
<1>6. WordAt(s, a) = w
  <2> HIDE DEF Has, s
  <2> QED BY <1>3, <1>4, <1>5
<1> QED BY <1>1, <1>6

\* Words with the same bytes are the same.
LEMMA SameBytes ==
  ASSUME NEW m, NEW n, NEW a \in Int, \A i \in 0 .. WORD - 1 : m[a + i] = n[a + i]
  PROVE  WordAt(m, a) = WordAt(n, a)
BY DEF WordAt

-----------------------------------------------------------------------------
(* The tracee, and the places of variables. *)

\* The tracee stands at a stop of its program, with all of its registers.
Stands ==
  /\ prog \in DOMAIN Programs /\ stop \in DOMAIN P.stops /\ alive \in BOOLEAN
  /\ regs \in [DOMAIN At.regs -> WordValue]

LEMMA StopFacts ==
  ASSUME prog \in DOMAIN Programs, NEW s \in DOMAIN P.stops
  PROVE  /\ P = Programs[prog]
         /\ P.stops[s].pc \in Nat /\ P.stops[s].regs \in [DOMAIN P.stops[s].regs -> WordValue]
         /\ Registers \cup {"rbp"} \subseteq DOMAIN P.stops[s].regs
         /\ DOMAIN P.stops[s].stack \subseteq DOMAIN P.memory
         /\ ~P.stops[s].prologue /\ P.load = 0 => Linked(prog, P.stops[s])
<1>1. P = Programs[prog]
  BY DEF P, ProgramTable
<1> QED BY <1>1, StopsAssumption

\* A type as the compiler describes it.
Chain(type) ==
  /\ type \in Seq([tag : STRING, size : 0 .. WORD, signed : BOOLEAN])
  /\ \A i \in DOMAIN type : type[i].tag = "base" => type[i].size # 0

LEMMA DieFacts ==
  ASSUME Stands
  PROVE  /\ P.load \in Nat /\ Tree(P.dies)
         /\ \A i \in 1 .. Len(P.dies) :
              /\ Chain(P.dies[i].type)
              /\ ListLaidOut(P.dies[i].loc, DOMAIN regs)
              /\ ListLaidOut(P.dies[i].frame, DOMAIN regs)
<1> DEFINE dies == P.dies
<1>1. P = Programs[prog] /\ prog \in DOMAIN Programs
  BY DEF Stands, P, ProgramTable
<1>2. /\ P.load \in Nat /\ dies \in Seq(Range(dies)) /\ NotNested(dies)
      /\ \A d \in Range(dies) :
           /\ {d.level, d.low, d.high} \subseteq Nat
           /\ Chain(d.type)
           /\ \A s \in DOMAIN P.stops :
                /\ ListLaidOut(d.loc, DOMAIN P.stops[s].regs)
                /\ ListLaidOut(d.frame, DOMAIN P.stops[s].regs)
  BY <1>1, ProgramsAssumption DEF Chain, Range
<1>3. DOMAIN regs = DOMAIN P.stops[stop].regs /\ stop \in DOMAIN P.stops
  BY DEF Stands, At
<1> HIDE DEF dies
<1>4. Len(dies) \in Nat /\ DOMAIN dies = 1 .. Len(dies)
  BY <1>2
<1>5. \A i \in 1 .. Len(dies) : dies[i] \in Range(dies)
  BY <1>4 DEF Range
<1>6. Tree(dies)
  BY <1>2, <1>4, <1>5 DEF Tree
<1>7. \A i \in 1 .. Len(dies) :
        /\ Chain(dies[i].type)
        /\ ListLaidOut(dies[i].loc, DOMAIN regs)
        /\ ListLaidOut(dies[i].frame, DOMAIN regs)
  BY <1>2, <1>3, <1>5
<1> QED BY <1>2, <1>6, <1>7 DEF dies

\* The program counter of the living tracee is one that is tabulated.
LEMMA DbgPcIs ==
  ASSUME Stands
  PROVE  DbgPc \in Int /\ DbgPc \in Pcs(prog) /\ (alive => DbgPc = At.pc)
<1>1. P = Programs[prog] /\ At.pc \in Nat
  BY StopFacts DEF Stands, At
<1>2. P.load \in Nat
  BY DieFacts
<1> QED BY <1>1, <1>2 DEF Stands, DbgPc, Pcs, At

LEMMA EntryIs ==
  ASSUME Stands, NEW name \in Names
  PROVE  Entry(name) = VariableEntry(P.dies, DbgPc, name)
<1>1. P = Programs[prog] /\ prog \in DOMAIN Programs
  BY DEF Stands, P, ProgramTable
<1> QED BY <1>1, DbgPcIs DEF Entry, Entries

\* A name stands for a variable of the program, or for nothing.
LEMMA EntryIsVariable ==
  ASSUME Stands, NEW name \in Names, Entry(name) # NotFound
  PROVE  /\ Entry(name) \in 1 .. Len(P.dies)
         /\ IsVariable(P.dies[Entry(name)], name)
<1> DEFINE dies == P.dies
           e == Entry(name)
           scoped == InScope(dies, DbgPc, name, Len(dies))
           all == {j \in 1 .. Len(dies) : IsVariable(dies[j], name)}
<1>1. IF scoped # {} THEN IsFirst(e, scoped) ELSE IsFirst(e, all)
  BY DieFacts, DbgPcIs, EntryIs, VariableEntryIs
<1>2. scoped \subseteq all
  BY DEF InScope
<1>3. e \in all
  <2> HIDE DEF all, scoped, e
  <2> QED BY <1>1, <1>2 DEF IsFirst, NotFound, e
<1> QED BY <1>3

\* A place is a word of the memory, a register of the process, or neither.
Place(l) ==
  /\ l.kind = "addr" => l.addr \in WordValue
  /\ l.kind = "reg" => l.reg \in DOMAIN regs
  /\ l.kind \in {"addr", "reg", "neither"}

LEMMA LocAddrIsPlace ==
  ASSUME NEW a \in Int
  PROVE  Place(LocAddr(a))
BY MaskIsWord DEF Place, LocAddr

\* What sd_eval_loclist returns, if the frame base is the value of a register.
LEMMA LocationIsPlace ==
  ASSUME NEW loclist, ListLaidOut(loclist, DOMAIN regs), NEW pc, NEW base \in SUBSET Int,
         NEW load \in Int, NEW garbage, \A g \in garbage : Place(g),
         NEW l \in EvalLoclist(loclist, pc, base, load, garbage)
  PROVE  Place(l)
<1> DEFINE n == Len(loclist)
           i == ActiveEntry(loclist, pc)
           e == loclist[i]
<1>1. n \in Nat /\ DOMAIN loclist = 1 .. n
  <2>1. loclist \in Seq(Range(loclist))
    BY DEF ListLaidOut
  <2> QED BY <2>1
<1>2. i \in 0 .. n
  <2> DEFINE I == {j \in 1 .. n : ActiveRange(loclist[j], pc)}
             J == {j \in 1 .. n : ~Meaningful(loclist[j])}
             a == IF I # {} THEN Min(I) ELSE 0
             b == IF J # {} THEN Min(J) ELSE 0
  <2>1. i = IF a # 0 THEN a ELSE b
    BY DEF ActiveEntry, SelectInSeq, NotFound
  <2>2. I \in SUBSET Nat /\ J \in SUBSET Nat /\ I \subseteq 1 .. n /\ J \subseteq 1 .. n
    BY <1>1
  <2> HIDE DEF I, J
  <2>3. IsFirst(a, I) /\ IsFirst(b, J)
    BY <2>2, FirstOf
  <2>4. a \in 0 .. n /\ b \in 0 .. n
    <3> HIDE DEF a, b
    <3>1. I \in SUBSET (1 .. n) /\ J \in SUBSET (1 .. n)
      BY <2>2
    <3> HIDE DEF n
    <3> QED BY <1>1, <2>3, <3>1, FirstIn
  <2> HIDE DEF a, b, i
  <2> QED BY <2>1, <2>4
<1>3. CASE i = 0
  <2>1. l = LocAddr(0)
    BY <1>3 DEF EvalLoclist, NotFound
  <2> QED BY <2>1, LocAddrIsPlace
<1>4. CASE i # 0
  <2> DEFINE expr == e.expr
             op == Last(expr)
  <2>1. l \in EvalLocexpr(expr, base, load, garbage)
    BY <1>4 DEF EvalLoclist, NotFound
  <2>2. e \in Range(loclist)
    <3> HIDE DEF i
    <3> QED BY <1>1, <1>2, <1>4 DEF Range
  <2>3. /\ expr \in Seq(Range(expr))
        /\ \A o \in Range(expr) : /\ o.op = "reg" => o.arg \in DOMAIN regs
                                  /\ o.op \in {"addr", "fbreg"} => o.arg \in Int
    <3> HIDE DEF e
    <3> QED BY <2>2 DEF ListLaidOut
  <2> HIDE DEF expr
  <2>4. CASE expr = <<>>
    BY <2>1, <2>4 DEF EvalLocexpr
  <2>5. CASE expr # <<>>
    <3>1. Len(expr) \in DOMAIN expr
      BY <2>3, <2>5
    <3>2. op \in Range(expr)
      BY <3>1 DEF Last, Range
    <3>3. Supported(op, base) /\ l \in Evaluated(op, base, load)
      <4>1. \A j \in DOMAIN expr : Supported(expr[j], base)
        BY <2>1, <2>5 DEF EvalLocexpr
      <4>2. Supported(op, base)
        BY <3>1, <4>1 DEF Last
      <4> QED BY <2>1, <2>5, <4>1, <4>2 DEF EvalLocexpr
    <3> HIDE DEF op
    <3>4. CASE op.op = "reg"
      <4>1. l = LocReg(op.arg) /\ op.arg \in DOMAIN regs
        BY <2>3, <3>2, <3>3, <3>4 DEF Evaluated
      <4> QED BY <4>1 DEF LocReg, Place
    <3>5. CASE op.op = "addr"
      <4>1. l = LocAddr(op.arg + load) /\ op.arg \in Int
        BY <2>3, <3>2, <3>3, <3>5 DEF Evaluated
      <4>2. op.arg + load \in Int
        BY <4>1
      <4> QED BY <4>1, <4>2, LocAddrIsPlace
    <3>6. CASE op.op = "fbreg"
      <4>1. PICK b \in base : l = LocAddr(b + op.arg)
        BY <3>3, <3>6 DEF Evaluated
      <4>2. b + op.arg \in Int
        BY <2>3, <3>2, <3>6
      <4> QED BY <4>1, <4>2, LocAddrIsPlace
    <3> QED BY <3>3, <3>4, <3>5, <3>6 DEF Supported
  <2> QED BY <2>4, <2>5
<1> QED BY <1>3, <1>4

\* The register of the frame base is one of the process.
LEMMA FrameIsRegister ==
  ASSUME Stands, NEW r \in Frames[prog][DbgPc]
  PROVE  r \in DOMAIN regs
<1> DEFINE dies == P.dies
           s == SymbolFromAddr(P.symbols, DbgPc)
           F == {j \in 1 .. Len(dies) :
                   dies[j].tag = "subprogram" /\ dies[j].name = P.symbols[s].name
                   /\ dies[j].frame # <<>>}
           f == SelectInSeq(dies, LAMBDA d : d.tag = "subprogram" /\ d.name = P.symbols[s].name
                                             /\ d.frame # <<>>)
<1>1. P = Programs[prog] /\ prog \in DOMAIN Programs
  BY DEF Stands, P, ProgramTable
<1>2. Frames[prog][DbgPc] = FrameRegisters(dies, P.symbols, DbgPc, P.load)
  BY <1>1, DbgPcIs DEF Frames
<1>3. /\ f # NotFound
      /\ r \in {l.reg : l \in {m \in EvalLoclist(dies[f].frame, DbgPc, {}, P.load, {}) :
                               m.kind = "reg"}}
  BY <1>2 DEF FrameRegisters
<1>4. PICK l \in EvalLoclist(dies[f].frame, DbgPc, {}, P.load, {}) :
        l.kind = "reg" /\ r = l.reg
  <2> HIDE DEF f
  <2> QED BY <1>3
<1>5. f \in 1 .. Len(dies)
  <2>1. f = IF F # {} THEN Min(F) ELSE 0
    BY DEF SelectInSeq
  <2>2. F \in SUBSET Nat /\ F \subseteq 1 .. Len(dies)
    BY DieFacts DEF Tree
  <2> HIDE DEF f, F
  <2>3. IsFirst(f, F)
    BY <2>1, <2>2, FirstOf
  <2> QED BY <1>3, <2>2, <2>3 DEF IsFirst, NotFound
<1> HIDE DEF f
<1>6. ListLaidOut(dies[f].frame, DOMAIN regs) /\ P.load \in Int
  BY <1>5, DieFacts
<1> HIDE DEF dies
<1>7. Place(l)
  BY <1>6, LocationIsPlace
<1> QED BY <1>4, <1>7 DEF Place

LEMMA LocationsArePlaces ==
  ASSUME Stands, NEW e, e # NotFound => e \in 1 .. Len(P.dies), NEW l \in Locations(e)
  PROVE  e # NotFound /\ Place(l)
<1> DEFINE base == UNION {ReadRegister(r) : r \in Frames[prog][DbgPc]}
<1>1. e # NotFound /\ l \in EvalLoclist(P.dies[e].loc, DbgPc, base, P.load, Garbage)
  BY DEF Locations
<1>2. base \in SUBSET Int
  <2>1. ASSUME NEW r \in Frames[prog][DbgPc]
        PROVE  ReadRegister(r) \subseteq Int
    <3>1. r \in DOMAIN regs /\ DOMAIN regs = DOMAIN At.regs
      BY FrameIsRegister DEF Stands
    <3>2. regs[r] \in WordValue
      BY <3>1 DEF Stands
    <3>3. regs[r] \in Int
      BY <3>2, Powers DEF WordValue
    <3> QED BY <3>3 DEF ReadRegister
  <2> QED BY <2>1
<1>3. \A g \in Garbage : Place(g)
  <2>1. \A a \in Places : a \in Int
    BY InputsAssumption, Powers DEF WordValue
  <2>2. \A a \in Places : Place(LocAddr(a))
    BY <2>1, LocAddrIsPlace
  <2> QED BY <2>2 DEF Garbage, LocReg, Place
<1>4. ListLaidOut(P.dies[e].loc, DOMAIN regs) /\ P.load \in Int
  BY <1>1, DieFacts
<1> HIDE DEF base
<1> QED BY <1>1, <1>2, <1>3, <1>4, LocationIsPlace

-----------------------------------------------------------------------------
(* What a command replies. *)

\* print_filtered fails, or says for which command and which place it is.
LEMMA PrintFilteredIs ==
  ASSUME NEW m, NEW is, NEW cmd, NEW e, NEW l, NEW w
  PROVE  \/ PrintFiltered(m, is, cmd, e, l, w) = Failed
         \/ \E v : PrintFiltered(m, is, cmd, e, l, w) = Answer(is, cmd, e, l, v)
BY DEF PrintFiltered

\* It depends on what is mapped and on the program.
LEMMA PrintFilteredSame ==
  ASSUME UNCHANGED prog, DOMAIN mem' = DOMAIN mem,
         NEW is, NEW cmd, NEW e, NEW l, NEW w
  PROVE  PrintFiltered(mem, is, cmd, e, l, w)' = PrintFiltered(mem', is, cmd, e, l, w)
<1>1. P' = P
  BY DEF P, ProgramTable
<1>2. ASSUME NEW a
      PROVE  ReadIn(mem, a)' = ReadIn(mem', a)
  BY DEF ReadIn, Mapped
<1> QED BY <1>1, <1>2 DEF PrintFiltered

\* The variable that a command is about, and where it is.
Meant(cmd, e, l) ==
  cmd.on = "var" =>
    /\ cmd.name \in Names /\ e = Entry(cmd.name) /\ l \in Locations(e)
    /\ cmd.typed \in Int

\* print: a word is read from the place.
Shows ==
  /\ UNCHANGED <<prog, stop, mem, regs, alive, sets>>
  /\ \E cmd, e, l, w :
       /\ Meant(cmd, e, l) /\ w \in ReadLocation(l)
       /\ reply' = PrintFiltered(mem, "shown", cmd, e, l, w)

\* set: the place holds the word afterwards, and the rest of the memory is
\* what it was.
Confirms ==
  /\ UNCHANGED <<prog, stop, alive>> /\ DOMAIN mem' = DOMAIN mem
  /\ \E cmd, e, l, w :
       /\ Meant(cmd, e, l) /\ (cmd.on = "var" => w = ParseNum(cmd.typed))
       /\ alive /\ l.kind # "neither" => ReadLocation(l)' = {w}
       /\ cmd.on = "var" =>
            \A a \in DOMAIN mem :
              (l.kind = "addr" /\ a \in l.addr .. l.addr + WORD - 1) \/ mem'[a] = mem[a]
       /\ reply' = PrintFiltered(mem', "confirmed", cmd, e, l, w)

\* Nothing is replied about a place.
Otherwise ==
  \/ reply'.is \notin {"shown", "confirmed"}
  \/ UNCHANGED <<prog, stop, mem, regs, alive, reply, sets>>

LEMMA PrintShows ==
  ASSUME Stands,
         \/ \E f \in Filters \cup {"none"} :
              \/ \E a \in Places : PrintMemory(a, f)
              \/ \E r \in Registers : PrintRegister(r, f)
              \/ \E x \in Names : PrintVariable(x, f)
  PROVE  Shows \/ Otherwise
<1> SUFFICES ASSUME NEW f \in Filters \cup {"none"}
             PROVE  /\ \A a \in Places : PrintMemory(a, f) => Shows \/ Otherwise
                    /\ \A r \in Registers : PrintRegister(r, f) => Shows \/ Otherwise
                    /\ \A x \in Names : PrintVariable(x, f) => Shows \/ Otherwise
  OBVIOUS
<1>1. ASSUME reply' = Failed
      PROVE  Otherwise
  BY <1>1 DEF Failed, Otherwise
<1>2. ASSUME NEW a \in Places, PrintMemory(a, f)
      PROVE  Shows \/ Otherwise
  <2> DEFINE cmd == Command("print", "mem", "", a, f, 0)
             l == LocAddr(a)
  <2>1. CASE reply' = Failed
    BY <1>1, <2>1
  <2>2. CASE reply' # Failed
    <3>1. PICK w \in ReadMemory(a) : reply' = PrintFiltered(mem, "shown", cmd, 0, l, w)
      BY <1>2, <2>2 DEF PrintMemory
    <3>2. Meant(cmd, 0, l)
      BY DEF Meant, Command
    <3>3. l.kind = "addr" /\ l.addr = a
      BY InputsAssumption, MaskOfWord DEF LocAddr
    <3>4. w \in ReadLocation(l)
      BY <3>1, <3>3 DEF ReadLocation
    <3> HIDE DEF cmd, l
    <3> QED BY <1>2, <3>1, <3>2, <3>4 DEF Shows, PrintMemory
  <2> QED BY <2>1, <2>2
<1>3. ASSUME NEW r \in Registers, PrintRegister(r, f)
      PROVE  Shows \/ Otherwise
  <2> DEFINE cmd == Command("print", "reg", r, 0, f, 0)
             l == LocReg(r)
  <2>1. CASE reply' = Failed
    BY <1>1, <2>1
  <2>2. CASE reply' # Failed
    <3>1. PICK w \in ReadRegister(r) : reply' = PrintFiltered(mem, "shown", cmd, 0, l, w)
      BY <1>3, <2>2 DEF PrintRegister
    <3>2. Meant(cmd, 0, l)
      BY DEF Meant, Command
    <3>3. w \in ReadLocation(l)
      BY <3>1 DEF ReadLocation, LocReg
    <3> HIDE DEF cmd, l
    <3> QED BY <1>3, <3>1, <3>2, <3>3 DEF Shows, PrintRegister
  <2> QED BY <2>1, <2>2
<1>4. ASSUME NEW x \in Names, PrintVariable(x, f)
      PROVE  Shows \/ Otherwise
  <2> DEFINE cmd == Command("print", "var", x, 0, f, 0)
             e == Entry(x)
  <2>1. CASE reply' = Failed
    BY <1>1, <2>1
  <2>2. CASE reply' # Failed
    <3>1. PICK l \in Locations(e) : \E w \in ReadLocation(l) :
            reply' = PrintFiltered(mem, "shown", cmd, e, l, w)
      BY <1>4, <2>2 DEF PrintVariable
    <3>2. Meant(cmd, e, l)
      BY <3>1 DEF Meant, Command
    <3> HIDE DEF cmd, e
    <3> QED BY <1>4, <3>1, <3>2 DEF Shows, PrintVariable
  <2> QED BY <2>1, <2>2
<1> QED BY <1>2, <1>3, <1>4

\* What a place holds after a word was written there.
LEMMA AddressHolds ==
  ASSUME NEW a \in Int, NEW w \in WordValue, Mapped(a), mem' = Stored(mem, a, w), alive' = TRUE
  PROVE  ReadMemory(a)' = {w}
<1>1. DOMAIN mem' = DOMAIN mem /\ WordAt(mem', a) = w
  BY StoredIsRead DEF Mapped
<1>2. Mapped(a)'
  BY <1>1 DEF Mapped
<1> QED BY <1>1, <1>2 DEF ReadMemory, ReadIn

LEMMA RegisterHolds ==
  ASSUME NEW r, NEW w, regs'[r] = w, alive' = TRUE
  PROVE  ReadRegister(r)' = {w}
BY DEF ReadRegister

LEMMA SetConfirms ==
  ASSUME Stands,
         \E f \in Filters, n \in Numbers :
           \/ \E a \in Places : SetMemory(a, n, f)
           \/ \E r \in Registers : SetRegister(r, n, f)
           \/ \E x \in Names : SetVariable(x, n, f)
  PROVE  Confirms \/ Otherwise
<1> SUFFICES ASSUME NEW f \in Filters, NEW n \in Numbers
             PROVE  /\ \A a \in Places : SetMemory(a, n, f) => Confirms \/ Otherwise
                    /\ \A r \in Registers : SetRegister(r, n, f) => Confirms \/ Otherwise
                    /\ \A x \in Names : SetVariable(x, n, f) => Confirms \/ Otherwise
  OBVIOUS
<1> DEFINE word == ParseNum(n)
<1>1. ASSUME reply' = Failed
      PROVE  Otherwise
  BY <1>1 DEF Failed, Otherwise
<1>2. word \in WordValue /\ n \in Int
  BY InputsAssumption, ParseNumIsWord
<1>3. ASSUME NEW a \in Places, SetMemory(a, n, f), reply' # Failed
      PROVE  Confirms
  <2> DEFINE cmd == Command("set", "mem", "", a, f, n)
             l == LocAddr(a)
  <2>1. /\ mem' = Stored(mem, a, word) /\ alive /\ Mapped(a) /\ UNCHANGED <<prog, stop, alive>>
        /\ reply' = PrintFiltered(mem', "confirmed", cmd, 0, l, word) /\ DOMAIN mem' = DOMAIN mem
    <3> HIDE DEF word, l
    <3> QED BY <1>3 DEF SetMemory, Confirmed, Stored, word, l
  <2>2. l.kind = "addr" /\ l.addr = a /\ a \in Int
    BY InputsAssumption, MaskOfWord DEF LocAddr
  <2>3. alive => ReadLocation(l)' = {word}
    <3>1. ReadMemory(a)' = {word}
      <4> HIDE DEF word
      <4> QED BY <1>2, <2>1, <2>2, AddressHolds DEF Stands
    <3> HIDE DEF l
    <3> QED BY <2>2, <3>1 DEF ReadLocation
  <2>4. Meant(cmd, 0, l) /\ cmd.on # "var"
    BY DEF Meant, Command
  <2> HIDE DEF cmd, l, word
  <2> QED BY <2>1, <2>3, <2>4 DEF Confirms
<1>4. ASSUME NEW r \in Registers, SetRegister(r, n, f), reply' # Failed
      PROVE  Confirms
  <2> DEFINE cmd == Command("set", "reg", r, 0, f, n)
             l == LocReg(r)
             w == IF r \in Protected THEN regs[r] ELSE word
  <2>1. /\ alive /\ UNCHANGED <<prog, stop, alive, mem>>
        /\ regs' = IF r \notin Protected THEN [regs EXCEPT ![r] = word] ELSE regs
        /\ reply' = PrintFiltered(mem', "confirmed", cmd, 0, l, w)
    <3> HIDE DEF word, l
    <3> QED BY <1>4 DEF SetRegister, Confirmed, word, l
  <2>2. r \in DOMAIN regs
    BY StopFacts DEF Stands, At
  <2>3. regs'[r] = w
    <3> HIDE DEF word
    <3> QED BY <2>1, <2>2
  <2>4. alive => ReadLocation(l)' = {w}
    <3>1. ReadRegister(r)' = {w}
      <4> HIDE DEF w
      <4> QED BY <2>1, <2>3, RegisterHolds DEF Stands
    <3>2. l.kind = "reg" /\ l.reg = r
      BY DEF LocReg
    <3> HIDE DEF l, w
    <3> QED BY <3>1, <3>2 DEF ReadLocation
  <2>5. Meant(cmd, 0, l) /\ cmd.on # "var"
    BY DEF Meant, Command
  <2> HIDE DEF cmd, l, w
  <2> QED BY <2>1, <2>4, <2>5 DEF Confirms
<1>5. ASSUME NEW x \in Names, SetVariable(x, n, f), reply' # Failed
      PROVE  Confirms
  <2> DEFINE cmd == Command("set", "var", x, 0, f, n)
             e == Entry(x)
  <2>1. PICK l \in Locations(e) :
          /\ l.kind = "neither" \/ ReadLocation(l) # {}
          /\ mem' = IF l.kind = "addr" THEN Stored(mem, l.addr, word) ELSE mem
          /\ regs' = IF l.kind = "reg" THEN [regs EXCEPT ![l.reg] = word] ELSE regs
          /\ UNCHANGED <<prog, stop, alive>>
          /\ reply' = PrintFiltered(mem', "confirmed", cmd, e, l, word)
    <3> HIDE DEF word, e
    <3> QED BY <1>5 DEF SetVariable, Confirmed, word, e
  <2>2. Place(l)
    <3>1. e # NotFound => e \in 1 .. Len(P.dies)
      BY EntryIsVariable
    <3> HIDE DEF e
    <3> QED BY <3>1, LocationsArePlaces
  <2>3. alive /\ l.kind # "neither" => ReadLocation(l)' = {word}
    <3> SUFFICES ASSUME alive, l.kind # "neither"
                 PROVE  ReadLocation(l)' = {word}
      OBVIOUS
    <3> HIDE DEF word
    <3>1. CASE l.kind = "addr"
      <4>1. l.addr \in Int /\ Mapped(l.addr)
        BY <2>1, <2>2, <3>1, MaskOfWord DEF Place, ReadLocation, ReadMemory, ReadIn
      <4>2. ReadMemory(l.addr)' = {word}
        BY <1>2, <2>1, <3>1, <4>1, AddressHolds DEF Stands
      <4> QED BY <3>1, <4>2 DEF ReadLocation
    <3>2. CASE l.kind = "reg"
      <4>1. regs'[l.reg] = word
        BY <2>1, <2>2, <3>2 DEF Place, Stands
      <4>2. ReadRegister(l.reg)' = {word}
        BY <2>1, <4>1, RegisterHolds DEF Stands
      <4> QED BY <3>2, <4>2 DEF ReadLocation
    <3> QED BY <2>2, <3>1, <3>2 DEF Place
  <2>4. \A a \in DOMAIN mem :
          (l.kind = "addr" /\ a \in l.addr .. l.addr + WORD - 1) \/ mem'[a] = mem[a]
    BY <2>1 DEF Stored
  <2>5. Meant(cmd, e, l) /\ cmd.typed = n
    BY <1>2, <2>1 DEF Meant, Command
  <2> HIDE DEF cmd, e
  <2>6. DOMAIN mem' = DOMAIN mem
    BY <2>1 DEF Stored
  <2> QED BY <2>1, <2>3, <2>4, <2>5, <2>6 DEF Confirms
<1> QED BY <1>1, <1>3, <1>4, <1>5

\* Every step.
LEMMA StepReplies ==
  ASSUME Stands, [Next]_vars
  PROVE  Shows \/ Confirms \/ Otherwise
<1>1. CASE UNCHANGED vars
  BY <1>1 DEF vars, Otherwise
<1>2. CASE Run
  BY <1>2 DEF Run, Silent, Otherwise
<1>3. CASE Kill
  BY <1>3 DEF Kill, Silent, Otherwise
<1>4. CASE BacktraceCommand
  BY <1>4 DEF BacktraceCommand, NoBacktrace, Listed, Silent, Otherwise
<1>5. CASE BacktraceFrame
  <2>1. UNCHANGED <<prog, stop, mem, regs, alive, sets>>
    BY <1>5 DEF BacktraceFrame
  <2>2. UNCHANGED reply \/ reply' = NoBacktrace \/ \E frames : reply' = Listed(frames)
    BY <1>5 DEF BacktraceFrame
  <2> QED BY <2>1, <2>2 DEF NoBacktrace, Listed, Otherwise
<1>6. CASE \E f \in Filters \cup {"none"} :
             \/ \E a \in Places : PrintMemory(a, f)
             \/ \E r \in Registers : PrintRegister(r, f)
             \/ \E x \in Names : PrintVariable(x, f)
  BY <1>6, PrintShows
<1>7. CASE \E f \in Filters, n \in Numbers :
             \/ \E a \in Places : SetMemory(a, n, f)
             \/ \E r \in Registers : SetRegister(r, n, f)
             \/ \E x \in Names : SetVariable(x, n, f)
  BY <1>7, SetConfirms
<1> QED BY <1>1, <1>2, <1>3, <1>4, <1>5, <1>6, <1>7 DEF Next

-----------------------------------------------------------------------------
(* The variable that is meant. *)

\* The tracee stands at one of its stops, whatever the commands do.
LEMMA StandsKept == Spec => []Stands
<1>1. Init => Stands
  <2> SUFFICES ASSUME Init
               PROVE  Stands
    OBVIOUS
  <2>1. prog \in DOMAIN Programs /\ stop \in DOMAIN P.stops /\ alive = TRUE /\ regs = At.regs
    BY DEF Init
  <2>2. At.regs \in [DOMAIN At.regs -> WordValue]
    BY <2>1, StopFacts DEF At
  <2> QED BY <2>1, <2>2 DEF Stands
<1>2. Stands /\ [Next]_vars => Stands'
  <2> SUFFICES ASSUME Stands, [Next]_vars
               PROVE  Stands'
    OBVIOUS
  <2>1. ASSUME UNCHANGED <<prog, stop>>, alive' \in BOOLEAN, regs' \in [DOMAIN regs -> WordValue]
        PROVE  Stands'
    BY <2>1 DEF Stands, P, At, ProgramTable
  <2>2. CASE Run
    <3>1. PICK s \in DOMAIN P.stops : stop' = s /\ regs' = P.stops[s].regs
      BY <2>2 DEF Run
    <3>2. UNCHANGED <<prog, alive>>
      BY <2>2 DEF Run
    <3>3. P' = P /\ At' = P.stops[s]
      BY <3>1, <3>2 DEF P, At, ProgramTable
    <3>4. P.stops[s].regs \in [DOMAIN P.stops[s].regs -> WordValue]
      BY StopFacts DEF Stands
    <3> QED BY <3>1, <3>2, <3>3, <3>4 DEF Stands
  <2>3. CASE \E f \in Filters, n \in Numbers, r \in Registers : SetRegister(r, n, f)
    <3>1. PICK f \in Filters, n \in Numbers, r \in Registers : SetRegister(r, n, f)
      BY <2>3
    <3>2. UNCHANGED <<prog, stop>> /\ alive' \in BOOLEAN
      BY <3>1 DEF SetRegister, Confirmed, Stands
    <3>3. ParseNum(n) \in WordValue
      BY InputsAssumption, ParseNumIsWord
    <3>4. regs' \in [DOMAIN regs -> WordValue]
      BY <3>1, <3>3 DEF SetRegister, Stands
    <3> QED BY <2>1, <3>2, <3>4
  <2>4. CASE \E f \in Filters, n \in Numbers, x \in Names : SetVariable(x, n, f)
    <3>1. PICK f \in Filters, n \in Numbers, x \in Names : SetVariable(x, n, f)
      BY <2>4
    <3>2. UNCHANGED <<prog, stop>> /\ alive' \in BOOLEAN
      BY <3>1 DEF SetVariable, Confirmed, Stands
    <3>3. ParseNum(n) \in WordValue
      BY InputsAssumption, ParseNumIsWord
    <3>4. regs' = regs \/ \E r : regs' = [regs EXCEPT ![r] = ParseNum(n)]
      BY <3>1 DEF SetVariable
    <3>5. regs' \in [DOMAIN regs -> WordValue]
      BY <3>3, <3>4 DEF Stands
    <3> QED BY <2>1, <3>2, <3>5
  <2>5. CASE /\ UNCHANGED <<prog, stop, regs>> /\ alive' \in BOOLEAN
    BY <2>1, <2>5 DEF Stands
  <2>6. CASE UNCHANGED vars
    BY <2>5, <2>6 DEF vars, Stands
  <2>7. CASE Kill
    BY <2>5, <2>7 DEF Kill
  <2>8. CASE BacktraceCommand \/ BacktraceFrame
    BY <2>5, <2>8 DEF BacktraceCommand, BacktraceFrame, Stands
  <2>9. CASE \E f \in Filters \cup {"none"} :
               \/ \E a \in Places : PrintMemory(a, f)
               \/ \E r \in Registers : PrintRegister(r, f)
               \/ \E x \in Names : PrintVariable(x, f)
    BY <2>5, <2>9 DEF PrintMemory, PrintRegister, PrintVariable, Stands
  <2>10. CASE \E f \in Filters, n \in Numbers, a \in Places : SetMemory(a, n, f)
    <3>1. PICK f \in Filters, n \in Numbers, a \in Places : SetMemory(a, n, f)
      BY <2>10
    <3> QED BY <2>5, <3>1 DEF SetMemory, Confirmed, Stands
  <2> QED BY <2>2, <2>3, <2>4, <2>6, <2>7, <2>8, <2>9, <2>10 DEF Next
<1> QED BY <1>1, <1>2, PTL DEF Spec

\* The entry of a reply is the one that its name stands for where the tracee
\* stands, and its place is one.
EntryMeant ==
  OfVariable /\ alive =>
    /\ reply.cmd.name \in Names /\ reply.entry = Entry(reply.cmd.name)
    /\ reply.entry # NotFound /\ reply.cmd.typed \in Int /\ Place(reply.loc)

\* The reply to a command that meant a variable is about it.
LEMMA MeantReply ==
  ASSUME Stands, Stands', UNCHANGED <<prog, stop, alive>>, NEW m, NEW is, NEW cmd, NEW e, NEW l, NEW w,
         Meant(cmd, e, l), reply' = PrintFiltered(m, is, cmd, e, l, w)
  PROVE  EntryMeant'
<1> SUFFICES ASSUME OfVariable', alive'
             PROVE  EntryMeant'
  BY DEF EntryMeant
<1>1. reply' # Failed
  BY DEF OfVariable, Failed
<1>2. PICK v : reply' = Answer(is, cmd, e, l, v)
  BY <1>1, PrintFilteredIs
<1>3. reply'.cmd = cmd /\ reply'.entry = e /\ reply'.loc = l /\ cmd.on = "var"
  BY <1>2 DEF Answer, OfVariable
<1>4. cmd.name \in Names /\ e = Entry(cmd.name) /\ l \in Locations(e) /\ cmd.typed \in Int
  BY <1>3 DEF Meant
<1>5. e # NotFound /\ Place(l)
  BY <1>4, EntryIsVariable, LocationsArePlaces
<1>6. Entry(cmd.name)' = Entry(cmd.name)
  BY DEF Entry, DbgPc, P, At, ProgramTable
<1>7. DOMAIN regs' = DOMAIN regs
  BY DEF Stands, P, At, ProgramTable
<1> QED BY <1>3, <1>4, <1>5, <1>6, <1>7 DEF EntryMeant, Place

LEMMA EntryMeantKept == Spec => []EntryMeant
<1>1. Init => EntryMeant
  BY DEF Init, Silent, EntryMeant, OfVariable
<1>2. EntryMeant /\ Stands /\ Stands' /\ [Next]_vars => EntryMeant'
  <2> SUFFICES ASSUME EntryMeant, Stands, Stands', [Next]_vars
               PROVE  EntryMeant'
    OBVIOUS
  <2>1. CASE Shows
    <3>1. PICK cmd, e, l, w :
            Meant(cmd, e, l) /\ reply' = PrintFiltered(mem, "shown", cmd, e, l, w)
      BY <2>1 DEF Shows
    <3> QED BY <2>1, <3>1, MeantReply DEF Shows
  <2>2. CASE Confirms
    <3>1. PICK cmd, e, l, w :
            Meant(cmd, e, l) /\ reply' = PrintFiltered(mem', "confirmed", cmd, e, l, w)
      BY <2>2 DEF Confirms
    <3> QED BY <2>2, <3>1, MeantReply DEF Confirms
  <2>3. CASE reply'.is \notin {"shown", "confirmed"}
    BY <2>3 DEF EntryMeant, OfVariable
  <2>4. CASE UNCHANGED <<prog, stop, mem, regs, alive, reply, sets>>
    BY <2>4 DEF EntryMeant, OfVariable, Entry, DbgPc, P, At, ProgramTable, Place
  <2> QED BY <2>1, <2>2, <2>3, <2>4, StepReplies DEF Otherwise
<1> QED BY <1>1, <1>2, StandsKept, PTL DEF Spec

\* The scope that the search sees is what the property calls visible, except
\* at the end of a function.
LEMMA ScopeIsVisible ==
  ASSUME Stands, ~AtEndOfFunction, NEW name, NEW i \in 1 .. Len(P.dies),
         IsVariable(P.dies[i], name)
  PROVE  Visible(i) <=> \E f \in 1 .. i : Covering(P.dies, At.pc, f, i)
<1> DEFINE dies == P.dies
<1>1. Tree(dies) /\ At.pc \in Nat
  BY DieFacts, StopFacts DEF Stands, At
<1>2. dies[i].tag # "subprogram"
  BY DEF IsVariable
<1>3. DOMAIN dies = 1 .. Len(dies) /\ Len(dies) \in Nat
  BY <1>1 DEF Tree
<1>4. ASSUME NEW f \in 1 .. Len(dies)
      PROVE  f \in Enclosing(i) /\ dies[f].low <= At.pc /\ At.pc < dies[f].high
               <=> f \in 1 .. i /\ Covering(dies, At.pc, f, i)
  <2>1. dies[f].low \in Nat /\ dies[f].high \in Nat
    BY <1>1 DEF Tree
  <2>2. dies[f].tag = "subprogram" => dies[f].high # At.pc
    BY <1>3 DEF AtEndOfFunction
  <2>3. dies[f].tag = "subprogram" /\ f \in 1 .. i => f < i
    BY <1>2, <1>3
  <2>4. f \in Enclosing(i) <=>
          /\ dies[f].tag = "subprogram" /\ f < i
          /\ \A m \in f + 1 .. i : dies[m].level > dies[f].level
    BY <1>3 DEF Enclosing
  <2>5. f < i => f \in 1 .. i
    BY <1>3
  <2> HIDE DEF dies
  <2> QED BY <1>1, <2>1, <2>2, <2>3, <2>4, <2>5 DEF Covering, HasRange, PcInDie
<1>5. Enclosing(i) \subseteq 1 .. Len(dies)
  BY <1>3 DEF Enclosing
<1>6. 1 .. i \subseteq 1 .. Len(dies)
  BY <1>3
<1> HIDE DEF dies
<1> QED BY <1>4, <1>5, <1>6 DEF Visible, dies

\* print and set mean the variable of the function that the tracee stands in
\* (sd_runtime_variable).
THEOREM OwnVariable == Spec => []OwnVariableFirst
<1>1. Stands /\ EntryMeant => OwnVariableFirst
  <2> SUFFICES ASSUME Stands, EntryMeant, OfVariable, alive, ~AtEndOfFunction
               PROVE  LET own == {i \in DOMAIN P.dies :
                                    IsVariable(P.dies[i], reply.cmd.name) /\ Visible(i)}
                      IN  own # {} => reply.entry \in own
    BY DEF OwnVariableFirst
  <2> DEFINE dies == P.dies
             name == reply.cmd.name
             e == reply.entry
             own == {i \in DOMAIN dies : IsVariable(dies[i], name) /\ Visible(i)}
             scoped == InScope(dies, At.pc, name, Len(dies))
  <2>1. Tree(dies) /\ At.pc \in Nat
    BY DieFacts, StopFacts DEF Stands, At
  <2>2. DOMAIN dies = 1 .. Len(dies)
    BY <2>1 DEF Tree
  <2>3. own = scoped
    BY <2>2, ScopeIsVisible DEF InScope
  <2>4. e = VariableEntry(dies, At.pc, name)
    BY DbgPcIs, EntryIs DEF EntryMeant
  <2>5. scoped # {} => IsFirst(e, scoped)
    <3> DEFINE v == VariableEntry(dies, At.pc, name)
               all == {j \in 1 .. Len(dies) : IsVariable(dies[j], name)}
    <3>1. At.pc \in Int
      BY <2>1
    <3>2. IF scoped # {} THEN IsFirst(v, scoped) ELSE IsFirst(v, all)
      <4> HIDE DEF dies, name
      <4> QED BY <2>1, <3>1, VariableEntryIs
    <3> HIDE DEF v, scoped, e, all
    <3>3. e = v
      BY <2>4 DEF v
    <3> QED BY <3>2, <3>3
  <2>6. own # {} => e \in own
    <3> HIDE DEF own, scoped, e
    <3> QED BY <2>3, <2>5 DEF IsFirst
  <2> QED BY <2>6
<1> QED BY <1>1, StandsKept, EntryMeantKept, PTL

-----------------------------------------------------------------------------
(* What is read back after a write, and what is written beside it. *)

\* What is confirmed as read after a write is what a read yields
\* (exec_set_memory, exec_set_register, exec_set_variable).
THEOREM ConfirmsTruly == Spec => []ConfirmTrue
<1>1. Init => ConfirmTrue
  BY DEF Init, Silent, ConfirmTrue
<1>2. ConfirmTrue /\ Stands /\ [Next]_vars => ConfirmTrue'
  <2> SUFFICES ASSUME ConfirmTrue, Stands, [Next]_vars
               PROVE  ConfirmTrue'
    OBVIOUS
  <2>1. CASE Shows
    <3>1. PICK cmd, e, l, w : reply' = PrintFiltered(mem, "shown", cmd, e, l, w)
      BY <2>1 DEF Shows
    <3>2. reply'.is # "confirmed"
      BY <3>1, PrintFilteredIs DEF Failed, Answer
    <3> QED BY <3>2 DEF ConfirmTrue
  <2>2. CASE Confirms
    <3>1. PICK cmd, e, l, w :
            /\ alive /\ l.kind # "neither" => ReadLocation(l)' = {w}
            /\ reply' = PrintFiltered(mem', "confirmed", cmd, e, l, w)
      BY <2>2 DEF Confirms
    <3> SUFFICES ASSUME reply'.is = "confirmed", reply'.loc.kind # "neither", alive'
                 PROVE  \E v \in ReadLocation(reply.loc)' :
                          reply' = PrintFiltered(mem, "confirmed", reply.cmd, reply.entry,
                                                 reply.loc, v)'
      BY DEF ConfirmTrue
    <3>2. reply'.cmd = cmd /\ reply'.entry = e /\ reply'.loc = l
      <4>1. reply' # Failed
        BY DEF Failed
      <4> QED BY <3>1, <4>1, PrintFilteredIs DEF Answer
    <3>3. UNCHANGED <<prog, alive>>
      BY <2>2 DEF Confirms
    <3>4. ReadLocation(reply.loc)' = {w}
      BY <3>1, <3>2, <3>3 DEF ReadLocation, ReadMemory, ReadIn, ReadRegister, Mapped
    <3>5. PrintFiltered(mem, "confirmed", reply.cmd, reply.entry, reply.loc, w)'
            = PrintFiltered(mem', "confirmed", cmd, e, l, w)
      <4>1. DOMAIN mem' = DOMAIN mem
        BY <2>2 DEF Confirms
      <4> QED BY <3>2, <3>3, <4>1, PrintFilteredSame
    <3> QED BY <3>1, <3>4, <3>5
  <2>3. CASE reply'.is \notin {"shown", "confirmed"}
    BY <2>3 DEF ConfirmTrue
  <2>4. CASE UNCHANGED <<prog, stop, mem, regs, alive, reply, sets>>
    <3>1. ReadLocation(reply.loc)' = ReadLocation(reply.loc)
      BY <2>4 DEF ReadLocation, ReadMemory, ReadIn, ReadRegister, Mapped
    <3>2. ASSUME NEW w
          PROVE  PrintFiltered(mem, "confirmed", reply.cmd, reply.entry, reply.loc, w)'
                   = PrintFiltered(mem, "confirmed", reply.cmd, reply.entry, reply.loc, w)
      <4>1. UNCHANGED prog /\ DOMAIN mem' = DOMAIN mem /\ mem' = mem /\ reply' = reply
        BY <2>4
      <4> QED BY <4>1, PrintFilteredSame
    <3> QED BY <2>4, <3>1, <3>2 DEF ConfirmTrue
  <2> QED BY <2>1, <2>2, <2>3, <2>4, StepReplies DEF Otherwise
<1> QED BY <1>1, <1>2, StandsKept, PTL DEF Spec

\* The set of a variable as wide as a word leaves alone what is not part of it
\* (exec_set_variable).
THEOREM WideSetsStayInside == Spec => WideSetsKeepNeighbours
<1>1. ASSUME Stands, [Next]_vars, sets' # sets, reply'.is = "confirmed", reply'.cmd.on = "var",
             SizeOf(P.dies[reply'.entry].type) = WORD,
             NEW a \in DOMAIN mem \ Storage(reply)'
      PROVE  mem'[a] = mem[a]
  <2>1. Confirms
    <3>1. ~Otherwise
      BY <1>1 DEF Otherwise
    <3>2. ~Shows
      BY <1>1 DEF Shows
    <3> QED BY <1>1, <3>1, <3>2, StepReplies
  <2>2. PICK cmd, e, l, w :
          /\ cmd.on = "var" =>
               \A b \in DOMAIN mem :
                 (l.kind = "addr" /\ b \in l.addr .. l.addr + WORD - 1) \/ mem'[b] = mem[b]
          /\ reply' = PrintFiltered(mem', "confirmed", cmd, e, l, w)
    BY <2>1 DEF Confirms
  <2>3. reply'.cmd = cmd /\ reply'.entry = e /\ reply'.loc = l
    <3>1. reply' # Failed
      BY <1>1 DEF Failed
    <3> QED BY <2>2, <3>1, PrintFilteredIs DEF Answer
  <2>4. P' = P
    BY <2>1 DEF Confirms, P, ProgramTable
  <2>5. Storage(reply)' = IF l.kind = "addr" THEN l.addr .. l.addr + WORD - 1 ELSE {}
    BY <1>1, <2>3, <2>4 DEF Storage
  <2> QED BY <1>1, <2>2, <2>3, <2>5
<1>2. Stands /\ [Next]_vars =>
        [sets' # sets /\ reply'.is = "confirmed" /\ reply'.cmd.on = "var"
         /\ SizeOf(P.dies[reply'.entry].type) = WORD =>
           \A a \in DOMAIN mem \ Storage(reply)' : mem'[a] = mem[a]]_vars
  BY <1>1
<1> QED BY <1>2, StandsKept, PTL DEF Spec, WideSetsKeepNeighbours

-----------------------------------------------------------------------------
(* What is printed of a variable. *)

\* The node that the value has, behind modifiers and typedefs only.
LEMMA ValueNodeIs ==
  ASSUME NEW type, Chain(type), HasType(type)
  PROVE  \E p \in 1 .. Len(type) :
           /\ ValueNode(type) = type[p] /\ type[p].tag \in {"base", "pointer"}
           /\ \A j \in 1 .. p - 1 : type[j].tag \in {"modifier", "typedef"}
<1> DEFINE n == Len(type)
           I == {i \in 1 .. n : type[i].tag \in {"base", "pointer"}}
           p == IF I # {} THEN Min(I) ELSE 0
<1>1. n \in Nat /\ DOMAIN type = 1 .. n
  BY DEF Chain
<1>2. ValueNode(type) = type[p]
  BY DEF ValueNode, SelectInSeq
<1>3. n \in I
  BY <1>1 DEF HasType, Last
<1>4. IsFirst(p, I)
  <2>1. I \in SUBSET Nat
    OBVIOUS
  <2> HIDE DEF I
  <2> QED BY <2>1, FirstOf
<1>5. p \in I /\ \A j \in I : p <= j
  <2> HIDE DEF I, p
  <2> QED BY <1>3, <1>4 DEF IsFirst
<1> HIDE DEF p
<1>6. ASSUME NEW j \in 1 .. p - 1
      PROVE  type[j].tag \in {"modifier", "typedef"}
  <2>1. j \in 1 .. n /\ j < p
    BY <1>1, <1>5
  <2>2. j \notin I
    BY <1>1, <1>5, <2>1
  <2>3. type[j].tag \in {"base", "pointer", "modifier", "typedef"}
    BY <1>1, <2>1 DEF HasType
  <2> QED BY <2>1, <2>2, <2>3
<1> QED BY <1>2, <1>5, <1>6

\* A number has one representative in any row of as many numbers as there are.
LEMMA OneInWindow ==
  ASSUME NEW m \in Nat \ {0}, NEW least \in Int, NEW n \in Int,
         NEW u \in least .. least + m - 1, (u - n) % m = 0
  PROVE  u = CHOOSE v \in least .. least + m - 1 : (v - n) % m = 0
<1> SUFFICES ASSUME NEW v \in least .. least + m - 1, (v - n) % m = 0
             PROVE  v = u
  OBVIOUS
<1>1. u - n \in Int /\ v - n \in Int
  OBVIOUS
<1>2. PICK p \in Int : u - n = m * p + ((u - n) % m)
  BY <1>1, Division
<1>3. PICK q \in Int : v - n = m * q + ((v - n) % m)
  BY <1>1, Division
<1>4. u - v = m * p - m * q
  BY <1>2, <1>3
<1> QED BY <1>4, InWindow

\* A two's complement number with the bits of another number.
LEMMA SignedIs ==
  ASSUME NEW size \in 1 .. WORD, NEW n \in Int
  PROVE  LET m == BYTE ^ size
             least == 0 - m \div 2
         IN  Signed(size, n % m) = CHOOSE v \in least .. least + m - 1 : (v - n) % m = 0
<1> DEFINE m == BYTE ^ size
           r == n % m
           least == 0 - m \div 2
           u == Signed(size, r)
<1>1. m \in Nat \ {0} /\ m % 2 = 0
  BY PowersAssumption
<1>2. u = IF r < m \div 2 THEN r ELSE r - m
  BY DEF Signed
<1> HIDE DEF u, m
<1>3. r \in 0 .. m - 1
  BY <1>1, Division
<1>4. PICK q \in Int : n = m * q + r
  BY <1>1, Division
<1> HIDE DEF r
<1>5. least \in Int /\ u \in least .. least + m - 1
  BY <1>1, <1>2, <1>3
<1>6. (u - n) % m = 0
  <2> DEFINE d == u - n
             k == IF r < m \div 2 THEN 0 - q ELSE (0 - 1) - q
  <2>1. d \in Int /\ k \in Int /\ d = m * k + 0 /\ 0 \in 0 .. m - 1
    <3>1. CASE r < m \div 2
      BY <1>1, <1>2, <1>3, <1>4, <3>1
    <3>2. CASE ~ (r < m \div 2)
      BY <1>1, <1>2, <1>3, <1>4, <3>2
    <3> QED BY <3>1, <3>2
  <2> HIDE DEF d, k
  <2>2. d % m = 0
    BY <1>1, <2>1, RemainderIs
  <2> QED BY <2>2 DEF d
<1> HIDE DEF least
<1>7. u = CHOOSE v \in least .. least + m - 1 : (v - n) % m = 0
  BY <1>1, <1>5, <1>6, OneInWindow
<1> QED BY <1>7 DEF u, m, r, least

\* A number without sign.
LEMMA UnsignedIs ==
  ASSUME NEW size \in 1 .. WORD, NEW n \in Int
  PROVE  LET m == BYTE ^ size
         IN  n % m = CHOOSE v \in 0 .. 0 + m - 1 : (v - n) % m = 0
<1> DEFINE m == BYTE ^ size
           u == n % m
<1>1. m \in Nat \ {0}
  BY PowersAssumption
<1> HIDE DEF m
<1>2. u \in 0 .. 0 + m - 1
  <2>1. u \in 0 .. m - 1
    BY <1>1, Division
  <2> QED BY <1>1, <2>1
<1>3. PICK q \in Int : n = m * q + u
  BY <1>1, Division
<1> HIDE DEF u
<1> DEFINE d == u - n
           k == 0 - q
<1>4. d \in Int /\ k \in Int /\ d = m * k + 0 /\ 0 \in 0 .. m - 1
  BY <1>1, <1>2, <1>3
<1> HIDE DEF d, k
<1>5. (u - n) % m = 0
  <2>1. d % m = 0
    BY <1>1, <1>4, RemainderIs
  <2> QED BY <2>1 DEF d
<1>6. u = CHOOSE v \in 0 .. 0 + m - 1 : (v - n) % m = 0
  BY <1>1, <1>2, <1>5, OneInWindow
<1> QED BY <1>6 DEF u, m

\* The bits of a base type are those of the whole word.
LEMMA MaskOfMask ==
  ASSUME NEW size \in 1 .. WORD, NEW n \in Int
  PROVE  Mask(size, n % BYTE ^ WORD) = n % BYTE ^ size
<1> DEFINE M == BYTE ^ WORD
           m == BYTE ^ size
<1>1. M \in Nat \ {0} /\ m \in Nat \ {0} /\ M % m = 0
  BY Powers, PowersAssumption
<1>2. Mask(size, n % M) = (n % M) % m
  BY DEF Mask
<1> HIDE DEF M, m
<1>3. (n % M) % m = n % m
  BY <1>1, RemainderOfRemainder
<1> QED BY <1>2, <1>3 DEF M, m

\* What is printed of the word for a number is the number as the type has it.
LEMMA PrintedValue ==
  ASSUME NEW type, Chain(type), HasType(type), NEW n \in Int
  PROVE  PrintVarValue(type, n % BYTE ^ WORD, "none") = ValueIn(type, n)
<1> DEFINE behind(i) == /\ type[i].tag \notin {"modifier", "typedef"}
                        /\ \A j \in 1 .. i - 1 : type[j].tag \in {"modifier", "typedef"}
           w == n % BYTE ^ WORD
<1>1. PICK p \in 1 .. Len(type) :
        /\ ValueNode(type) = type[p] /\ type[p].tag \in {"base", "pointer"}
        /\ \A j \in 1 .. p - 1 : type[j].tag \in {"modifier", "typedef"}
  BY ValueNodeIs
<1>2. DOMAIN type = 1 .. Len(type) /\ Len(type) \in Nat
  BY DEF Chain
<1>3. p = CHOOSE i \in DOMAIN type : behind(i)
  <2>1. p \in DOMAIN type /\ behind(p)
    BY <1>1, <1>2
  <2>2. ASSUME NEW i \in DOMAIN type, behind(i)
        PROVE  i = p
    <3>1. ~ (i < p)
      BY <1>1, <1>2, <2>2
    <3>2. ~ (p < i)
      BY <1>1, <1>2, <2>2
    <3> QED BY <1>2, <3>1, <3>2
  <2> HIDE DEF behind
  <2> QED BY <2>1, <2>2
<1> DEFINE node == type[p]
           size == IF node.tag = "pointer" THEN WORD ELSE node.size
           count == BYTE ^ size
           least == IF node.tag = "base" /\ node.signed THEN 0 - count \div 2 ELSE 0
<1>4. ValueIn(type, n) = CHOOSE v \in least .. least + count - 1 : (v - n) % count = 0
  <2> HIDE DEF behind
  <2>1. ValueIn(type, n)
          = LET q == CHOOSE i \in DOMAIN type : behind(i)
                c == BYTE ^ (IF type[q].tag = "pointer" THEN WORD ELSE type[q].size)
                l == IF type[q].tag = "base" /\ type[q].signed THEN 0 - c \div 2 ELSE 0
            IN  CHOOSE v \in l .. l + c - 1 : (v - n) % c = 0
    BY DEF ValueIn, behind
  <2> QED BY <1>3, <2>1
<1>5. node \in [tag : STRING, size : 0 .. WORD, signed : BOOLEAN]
  <2> DEFINE S == [tag : STRING, size : 0 .. WORD, signed : BOOLEAN]
  <2>1. type \in Seq(S)
    BY DEF Chain
  <2> HIDE DEF S
  <2>2. type[p] \in S
    BY <2>1
  <2> QED BY <2>2 DEF S
<1>6. size \in 1 .. WORD
  <2>1. node.tag = "base" => node.size # 0
    BY <1>2 DEF Chain
  <2>2. node.size \in 0 .. WORD
    BY <1>5
  <2>3. node.tag \in {"base", "pointer"}
    BY <1>1
  <2> HIDE DEF node
  <2> QED BY <2>1, <2>2, <2>3, Powers
<1>7. node.tag = "pointer" => PrintVarValue(type, w, "none") = w
  BY <1>1 DEF PrintVarValue
<1>8. node.tag = "base" =>
        PrintVarValue(type, w, "none") = PrintBaseType(node, w, "none")
  BY <1>1 DEF PrintVarValue
<1>9. node.signed \in BOOLEAN
  <2> HIDE DEF node
  <2> QED BY <1>5
<1> HIDE DEF node, w
<1>10. CASE node.tag = "pointer"
  <2>1. w = CHOOSE v \in 0 .. 0 + count - 1 : (v - n) % count = 0
    BY <1>6, <1>10, UnsignedIs DEF w
  <2>2. least = 0
    BY <1>10
  <2> QED BY <1>4, <1>7, <1>10, <2>1, <2>2 DEF w
<1>11. CASE node.tag = "base" /\ node.signed
  <2>1. PrintBaseType(node, w, "none") = Signed(size, n % count)
    BY <1>6, <1>11, MaskOfMask DEF PrintBaseType, w
  <2>2. Signed(size, n % count)
          = CHOOSE v \in 0 - count \div 2 .. (0 - count \div 2) + count - 1 : (v - n) % count = 0
    BY <1>6, SignedIs
  <2>3. least = 0 - count \div 2
    BY <1>11
  <2> HIDE DEF least, count
  <2> QED BY <1>4, <1>8, <1>11, <2>1, <2>2, <2>3 DEF w
<1>12. CASE node.tag = "base" /\ ~node.signed
  <2>1. PrintBaseType(node, w, "none") = n % count
    BY <1>6, <1>12, MaskOfMask DEF PrintBaseType, w
  <2>2. n % count = CHOOSE v \in 0 .. 0 + count - 1 : (v - n) % count = 0
    BY <1>6, UnsignedIs
  <2>3. least = 0
    BY <1>12
  <2> HIDE DEF least, count
  <2> QED BY <1>4, <1>8, <1>12, <2>1, <2>2, <2>3 DEF w
<1> QED BY <1>1, <1>10, <1>11, <1>12 DEF node

\* A read yields one word.
LEMMA OneWord ==
  ASSUME NEW l, NEW w \in ReadLocation(l)
  PROVE  alive /\ l.kind \in {"addr", "reg"} /\ ReadLocation(l) = {w}
BY DEF ReadLocation, ReadMemory, ReadIn, ReadRegister

LEMMA PlacesKept ==
  ASSUME UNCHANGED <<mem, regs, alive>>, NEW l
  PROVE  ReadLocation(l)' = ReadLocation(l)
BY DEF ReadLocation, ReadMemory, ReadIn, ReadRegister, Mapped

\* The place of the variable in a reply holds the word that the reply is about.
WordMeant ==
  OfVariable =>
    /\ reply.is = "confirmed" /\ reply.loc.kind # "neither" /\ alive =>
         ReadLocation(reply.loc) = {ParseNum(reply.cmd.typed)}
    /\ reply.is = "shown" /\ reply.cmd.filter = "none" =>
         \E w \in ReadLocation(reply.loc) :
           reply.value = PrintVarValue(P.dies[reply.entry].type, w, "none")

LEMMA WordMeantKept == Spec => []WordMeant
<1>1. Init => WordMeant
  BY DEF Init, Silent, WordMeant, OfVariable
<1>2. WordMeant /\ Stands /\ [Next]_vars => WordMeant'
  <2> SUFFICES ASSUME WordMeant, Stands, [Next]_vars, OfVariable'
               PROVE  WordMeant'
    BY DEF WordMeant
  <2>1. reply' # Failed
    BY DEF OfVariable, Failed
  <2>2. CASE Shows
    <3>1. PICK cmd, e, l, w :
            w \in ReadLocation(l) /\ reply' = PrintFiltered(mem, "shown", cmd, e, l, w)
      BY <2>2 DEF Shows
    <3>2. reply'.is = "shown" /\ reply'.cmd = cmd /\ reply'.entry = e /\ reply'.loc = l
      BY <2>1, <3>1, PrintFilteredIs DEF Answer
    <3>3. UNCHANGED <<prog, mem, regs, alive>>
      BY <2>2 DEF Shows
    <3>4. ReadLocation(l)' = ReadLocation(l)
      BY <3>3, PlacesKept
    <3>5. w \in ReadLocation(reply.loc)'
      BY <3>1, <3>2, <3>4 DEF ReadLocation, ReadMemory, ReadIn, ReadRegister, Mapped
    <3>6. cmd.on = "var" /\ P' = P
      BY <3>2, <3>3 DEF OfVariable, P, ProgramTable
    <3>7. cmd.filter = "none" => reply'.value = PrintVarValue(P.dies[e].type, w, "none")
      BY <3>1, <3>6 DEF PrintFiltered, Answer
    <3> QED BY <3>2, <3>5, <3>6, <3>7 DEF WordMeant
  <2>3. CASE Confirms
    <3>1. PICK cmd, e, l, w :
            /\ cmd.on = "var" => w = ParseNum(cmd.typed)
            /\ alive /\ l.kind # "neither" => ReadLocation(l)' = {w}
            /\ reply' = PrintFiltered(mem', "confirmed", cmd, e, l, w)
      BY <2>3 DEF Confirms
    <3>2. reply'.is = "confirmed" /\ reply'.cmd = cmd /\ reply'.entry = e /\ reply'.loc = l
      BY <2>1, <3>1, PrintFilteredIs DEF Answer
    <3>3. UNCHANGED alive /\ cmd.on = "var"
      BY <2>3, <3>2 DEF Confirms, OfVariable
    <3>4. alive' /\ reply'.loc.kind # "neither" =>
            ReadLocation(reply.loc)' = {ParseNum(cmd.typed)}
      BY <3>1, <3>2, <3>3 DEF ReadLocation, ReadMemory, ReadIn, ReadRegister, Mapped
    <3>5. ParseNum(reply.cmd.typed)' = ParseNum(cmd.typed)
      BY <3>2 DEF ParseNum, IsLong
    <3> QED BY <3>2, <3>4, <3>5 DEF WordMeant
  <2>4. CASE UNCHANGED <<prog, stop, mem, regs, alive, reply, sets>>
    <3>1. ReadLocation(reply.loc)' = ReadLocation(reply.loc)
      BY <2>4, PlacesKept DEF ReadLocation, ReadMemory, ReadIn, ReadRegister, Mapped
    <3>2. P' = P
      BY <2>4 DEF P, ProgramTable
    <3> QED BY <2>4, <3>1, <3>2 DEF WordMeant, OfVariable
  <2> QED BY <2>2, <2>3, <2>4, StepReplies DEF Otherwise, OfVariable
<1> QED BY <1>1, <1>2, StandsKept, PTL DEF Spec

\* The entry in a reply is that of a variable with a type.
LEMMA EntryHasType ==
  ASSUME Stands, EntryMeant, OfVariable, alive
  PROVE  /\ Chain(P.dies[reply.entry].type) /\ HasType(P.dies[reply.entry].type)
         /\ reply.cmd.typed \in Int /\ Place(reply.loc)
<1>1. /\ reply.cmd.name \in Names /\ reply.entry = Entry(reply.cmd.name)
      /\ reply.entry # NotFound /\ reply.cmd.typed \in Int /\ Place(reply.loc)
  BY DEF EntryMeant
<1>2. /\ reply.entry \in 1 .. Len(P.dies)
      /\ IsVariable(P.dies[reply.entry], reply.cmd.name)
  BY <1>1, EntryIsVariable
<1> QED BY <1>1, <1>2, DieFacts DEF IsVariable

\* A value that was set is the value that is printed next
\* (exec_set_variable, exec_print_variable).
THEOREM SetIsShown == Spec => SetThenShow
<1> DEFINE A == /\ reply.is = "confirmed" /\ reply.cmd.on = "var" /\ reply.loc.kind # "neither"
                /\ IsLong(reply.cmd.typed)
                /\ reply'.is = "shown" /\ reply'.cmd.on = "var" /\ reply'.cmd.filter = "none"
                /\ reply'.cmd.name = reply.cmd.name /\ reply'.loc = reply.loc
           B == reply'.value = ValueIn(P.dies[reply.entry].type, reply.cmd.typed)
<1>1. ASSUME Stands, Stands', EntryMeant, EntryMeant', WordMeant, [Next]_vars, A
      PROVE  B
  <2> DEFINE n == reply.cmd.typed
             type == P.dies[reply.entry].type
  <2>1. Shows
    <3>1. ~Confirms
      <4>1. ASSUME Confirms
            PROVE  FALSE
        <5>1. PICK cmd, e, l, w : reply' = PrintFiltered(mem', "confirmed", cmd, e, l, w)
          BY <4>1 DEF Confirms
        <5> QED BY <1>1, <5>1, PrintFilteredIs DEF Failed, Answer
      <4> QED BY <4>1
    <3>2. ~Otherwise
      BY <1>1 DEF Otherwise
    <3> QED BY <1>1, <3>1, <3>2, StepReplies
  <2>2. PICK cmd, e, l, w :
          w \in ReadLocation(l) /\ reply' = PrintFiltered(mem, "shown", cmd, e, l, w)
    BY <2>1 DEF Shows
  <2>3. reply'.cmd = cmd /\ reply'.entry = e /\ reply'.loc = l
    <3>1. reply' # Failed
      BY <1>1 DEF Failed
    <3> QED BY <2>2, <3>1, PrintFilteredIs DEF Answer
  <2>4. alive /\ alive' /\ ReadLocation(l) = {w}
    BY <2>1, <2>2, OneWord DEF Shows
  <2>5. OfVariable /\ OfVariable'
    BY <1>1 DEF OfVariable
  <2>6. Chain(type) /\ HasType(type) /\ n \in Int
    BY <1>1, <2>4, <2>5, EntryHasType
  <2>7. w = n % BYTE ^ WORD
    <3>1. ReadLocation(reply.loc) = {ParseNum(n)}
      BY <1>1, <2>4, <2>5 DEF WordMeant
    <3>2. w = ParseNum(n)
      BY <1>1, <2>3, <2>4, <3>1
    <3>3. IsLong(n)
      BY <1>1
    <3> HIDE DEF n
    <3> QED BY <2>6, <3>2, <3>3, ParseNumIsWord
  <2>8. e = reply.entry
    <3>1. reply.entry = Entry(reply.cmd.name)
      BY <1>1, <2>4, <2>5 DEF EntryMeant
    <3>2. reply'.entry = Entry(reply.cmd.name)'
      BY <1>1, <2>4, <2>5 DEF EntryMeant
    <3>3. UNCHANGED <<prog, stop, alive>> /\ reply'.cmd.name = reply.cmd.name
      BY <1>1, <2>1 DEF Shows
    <3>4. Entry(reply.cmd.name)' = Entry(reply.cmd.name)
      BY <3>3 DEF Entry, DbgPc, P, At, ProgramTable
    <3> QED BY <2>3, <3>1, <3>2, <3>4
  <2>9. reply'.value = PrintVarValue(type, w, "none")
    <3>1. cmd.on = "var" /\ cmd.filter = "none"
      BY <1>1, <2>3
    <3> QED BY <2>2, <2>8, <3>1 DEF PrintFiltered, Answer
  <2>10. PrintVarValue(type, n % BYTE ^ WORD, "none") = ValueIn(type, n)
    <3> HIDE DEF type, n
    <3> QED BY <2>6, PrintedValue
  <2> QED BY <2>7, <2>9, <2>10
<1>2. /\ Stands /\ Stands' /\ EntryMeant /\ EntryMeant' /\ WordMeant /\ [Next]_vars
      => [A => B]_vars
  BY <1>1
<1>3. Spec => [][A => B]_vars
  <2> HIDE DEF A, B
  <2> QED BY <1>2, StandsKept, EntryMeantKept, WordMeantKept, PTL DEF Spec
<1> QED BY <1>3 DEF SetThenShow

\* A pointer that is one up to modifiers and typedefs is printed as a word, and
\* what it points to as a number of the type behind it.
LEMMA PointerIs ==
  ASSUME NEW pointer, NEW type, Chain(pointer), HasType(pointer), Chain(type), HasType(type),
         PointsTo(pointer, type)
  PROVE  /\ SizeOf(pointer) = WORD
         /\ \A w : PrintVarDerefValue(pointer, w) = PrintVarValue(type, w, "none")
<1>1. DOMAIN pointer = 1 .. Len(pointer) /\ Len(pointer) \in Nat
  BY DEF Chain
<1>2. DOMAIN type = 1 .. Len(type) /\ Len(type) \in Nat
  BY DEF Chain
<1>3. PICK p \in 1 .. Len(pointer) - 1 :
        /\ pointer[p].tag = "pointer"
        /\ \A i \in 1 .. p - 1 : pointer[i].tag \in {"modifier", "typedef"}
        /\ \A i \in p + 1 .. Len(pointer) - 1 : pointer[i].tag = "modifier"
  BY DEF PointsTo
<1>4. SizeOf(pointer) = WORD
  <2>1. PICK q \in 1 .. Len(pointer) :
          /\ ValueNode(pointer) = pointer[q] /\ pointer[q].tag \in {"base", "pointer"}
          /\ \A j \in 1 .. q - 1 : pointer[j].tag \in {"modifier", "typedef"}
    BY ValueNodeIs
  <2>2. ~ (q < p)
    BY <1>1, <1>3, <2>1
  <2>3. ~ (p < q)
    BY <1>1, <1>3, <2>1
  <2>4. q = p
    BY <1>1, <1>3, <2>1, <2>2, <2>3
  <2> QED BY <1>3, <2>1, <2>4 DEF SizeOf
<1>5. ValueNode(type) = Last(type) /\ Last(type).tag = "base"
  <2>1. PICK q \in 1 .. Len(type) :
          /\ ValueNode(type) = type[q] /\ type[q].tag \in {"base", "pointer"}
          /\ \A j \in 1 .. q - 1 : type[j].tag \in {"modifier", "typedef"}
    BY ValueNodeIs
  <2>2. \A i \in 1 .. Len(type) - 1 : type[i].tag = "modifier"
    BY DEF PointsTo
  <2>3. ~ (q \in 1 .. Len(type) - 1)
    BY <2>1, <2>2
  <2>4. q = Len(type)
    <3> DEFINE n == Len(type)
    <3>1. n \in Nat /\ q \in 1 .. n /\ ~ (q \in 1 .. n - 1)
      BY <1>2, <2>3
    <3> HIDE DEF n
    <3>2. q = n
      BY <3>1
    <3> QED BY <3>2 DEF n
  <2> QED BY <2>1, <2>4 DEF Last, PointsTo
<1>6. DerefTyped(pointer) /\ Last(pointer) = Last(type)
  <2>1. p \in DOMAIN pointer
    BY <1>1, <1>3
  <2>2. \A i \in (p + 1) .. (Len(pointer) - 1) : pointer[i].tag # "typedef"
    BY <1>3
  <2> QED BY <1>3, <2>1, <2>2 DEF DerefTyped, PointsTo
<1>7. ASSUME NEW w
      PROVE  PrintVarDerefValue(pointer, w) = PrintVarValue(type, w, "none")
  BY <1>5, <1>6 DEF PrintVarDerefValue, PrintVarValue
<1> QED BY <1>4, <1>7

\* What a variable that points to another one shows with deref is what that
\* one shows (print_var_deref_value).
THEOREM PointeeIsShown == Spec => PointeeShown
<1> DEFINE A == /\ reply.is = "shown" /\ reply.cmd.on = "var" /\ reply.cmd.filter = "none"
                /\ reply'.is = "shown" /\ reply'.cmd.on = "var" /\ reply'.cmd.filter = "deref"
                /\ reply.loc.kind = "addr" /\ reply.loc.addr \in ReadLocation(reply'.loc)
                /\ PointsTo(P.dies[reply'.entry].type, P.dies[reply.entry].type)
           B == reply'.value = reply.value
<1>1. ASSUME Stands, Stands', EntryMeant, EntryMeant', WordMeant, [Next]_vars, A
      PROVE  B
  <2> DEFINE type == P.dies[reply.entry].type
             a == reply.loc.addr
  <2>1. Shows
    <3>1. ~Confirms
      <4>1. ASSUME Confirms
            PROVE  FALSE
        <5>1. PICK cmd, e, l, w : reply' = PrintFiltered(mem', "confirmed", cmd, e, l, w)
          BY <4>1 DEF Confirms
        <5> QED BY <1>1, <5>1, PrintFilteredIs DEF Failed, Answer
      <4> QED BY <4>1
    <3>2. ~Otherwise
      BY <1>1 DEF Otherwise
    <3> QED BY <1>1, <3>1, <3>2, StepReplies
  <2>2. PICK cmd, e, l, w :
          w \in ReadLocation(l) /\ reply' = PrintFiltered(mem, "shown", cmd, e, l, w)
    BY <2>1 DEF Shows
  <2> DEFINE pointer == P.dies[e].type
  <2>3. reply' # Failed /\ reply'.cmd = cmd /\ reply'.entry = e /\ reply'.loc = l
    <3>1. reply' # Failed
      BY <1>1 DEF Failed
    <3> QED BY <2>2, <3>1, PrintFilteredIs DEF Answer
  <2>4. alive /\ alive' /\ ReadLocation(l) = {w} /\ P' = P
    BY <2>1, <2>2, OneWord DEF Shows, P, ProgramTable
  <2>5. w = a
    BY <1>1, <2>3, <2>4
  <2>6. OfVariable /\ OfVariable'
    BY <1>1 DEF OfVariable
  <2>7. Chain(type) /\ HasType(type) /\ Place(reply.loc)
    BY <1>1, <2>4, <2>6, EntryHasType
  <2>8. Chain(pointer) /\ HasType(pointer)
    <3>1. /\ reply'.entry = Entry(reply.cmd.name)' /\ reply'.cmd.name \in Names
          /\ reply'.entry # NotFound
      BY <1>1, <2>4, <2>6 DEF EntryMeant
    <3>2. UNCHANGED <<prog, stop, alive>>
      BY <2>1 DEF Shows
    <3>3. Entry(reply.cmd.name)' = Entry(cmd.name)
      BY <2>3, <3>2 DEF Entry, DbgPc, P, At, ProgramTable
    <3>4. cmd.name \in Names /\ e = Entry(cmd.name) /\ e # NotFound
      BY <2>3, <3>1, <3>3
    <3>5. e \in 1 .. Len(P.dies) /\ IsVariable(P.dies[e], cmd.name)
      BY <1>1, <3>4, EntryIsVariable
    <3> QED BY <1>1, <3>5, DieFacts DEF IsVariable
  <2>9. PointsTo(pointer, type)
    BY <1>1, <2>3
  <2>10. /\ SizeOf(pointer) = WORD
         /\ \A v : PrintVarDerefValue(pointer, v) = PrintVarValue(type, v, "none")
    <3> HIDE DEF pointer, type
    <3> QED BY <2>7, <2>8, <2>9, PointerIs
  <2>11. PICK v \in ReadLocation(reply.loc) : reply.value = PrintVarValue(type, v, "none")
    BY <1>1, <2>6 DEF WordMeant
  <2>12. ReadIn(mem, a) = {v}
    BY <1>1, <2>4, <2>11, OneWord DEF ReadLocation, ReadMemory
  <2>13. Mask(WORD, a) = a
    <3>1. a \in WordValue
      BY <1>1, <2>7 DEF Place
    <3> HIDE DEF a
    <3> QED BY <3>1, MaskOfWord DEF Mask
  <2>14. Yielded({v}) = v
    BY DEF Yielded
  <2>15. cmd.on = "var" /\ cmd.filter = "deref"
    BY <1>1, <2>3
  <2>16. reply' = Answer("shown", cmd, e, l, PrintVarDerefValue(pointer, v))
    <3> HIDE DEF a, type
    <3>1. reply' = PrintFiltered(mem, "shown", cmd, e, l, a)
      BY <2>2, <2>5
    <3>2. Mask(SizeOf(pointer), a) = a
      BY <2>10, <2>13
    <3> HIDE DEF a
    <3> QED BY <3>1, <3>2, <2>12, <2>14, <2>15 DEF PrintFiltered
  <2>17. reply'.value = PrintVarValue(type, v, "none")
    BY <2>10, <2>16 DEF Answer
  <2> QED BY <2>11, <2>17
<1>2. /\ Stands /\ Stands' /\ EntryMeant /\ EntryMeant' /\ WordMeant /\ [Next]_vars
      => [A => B]_vars
  BY <1>1
<1>3. Spec => [][A => B]_vars
  <2> HIDE DEF A, B
  <2> QED BY <1>2, StandsKept, EntryMeantKept, WordMeantKept, PTL DEF Spec
<1> QED BY <1>3 DEF PointeeShown

-----------------------------------------------------------------------------
(* The backtrace. *)

\* The first k functions of a backtrace, from the outermost one on.
Inner(calls, k) == [i \in 1 .. k |-> calls[k - i + 1]]

LEMMA Outward ==
  ASSUME NEW calls \in Seq(STRING), NEW k \in Nat \ {0}, k < Len(calls)
  PROVE  /\ <<calls[k + 1]>> \o Inner(calls, k) = Inner(calls, k + 1)
         /\ Len(Inner(calls, k)) = k
<1> DEFINE inner == Inner(calls, k)
           head == <<calls[k + 1]>>
<1>1. inner \in Seq(STRING) /\ Len(inner) = k
  <2>1. \A i \in 1 .. k : k - i + 1 \in 1 .. Len(calls)
    OBVIOUS
  <2>2. inner \in [1 .. k -> STRING]
    BY <2>1 DEF Inner
  <2> QED BY <2>2 DEF Inner
<1>2. calls[k + 1] \in STRING /\ head \in Seq(STRING) /\ Len(head) = 1
  <2>1. k + 1 \in 1 .. Len(calls)
    OBVIOUS
  <2> QED BY <2>1
<1>3. head \o inner \in Seq(STRING) /\ Len(head \o inner) = k + 1
  BY <1>1, <1>2
<1>4. ASSUME NEW i \in 1 .. k + 1
      PROVE  (head \o inner)[i] = calls[(k + 1) - i + 1]
  <2>1. CASE i = 1
    BY <1>1, <1>2, <2>1
  <2>2. CASE i # 1
    <3>1. i - 1 \in 1 .. k /\ k - (i - 1) + 1 = (k + 1) - i + 1
      BY <2>2
    <3>2. (head \o inner)[i] = inner[i - 1]
      BY <1>1, <1>2, <2>2
    <3>3. inner[i - 1] = calls[k - (i - 1) + 1]
      BY <3>1 DEF Inner
    <3> QED BY <3>1, <3>2, <3>3
  <2> QED BY <2>1, <2>2
<1>5. DOMAIN (head \o inner) = 1 .. k + 1
  BY <1>3
<1>6. head \o inner = Inner(calls, k + 1)
  <2> DEFINE s == head \o inner
  <2>1. s = [i \in 1 .. k + 1 |-> s[i]]
    BY <1>3, <1>5
  <2> QED BY <1>4, <2>1 DEF Inner
<1> QED BY <1>1, <1>6

\* As long as nothing was set, the tracee has the stack and the registers with
\* which it stopped.
Untouched ==
  /\ DOMAIN mem = DOMAIN P.memory
  /\ sets \in Nat
  /\ sets = 0 => /\ regs = At.regs
                 /\ \A a \in DOMAIN At.stack : mem[a] = At.stack[a]

LEMMA UntouchedKept == Spec => []Untouched
<1>1. Init => Untouched
  <2> SUFFICES ASSUME Init
               PROVE  Untouched
    OBVIOUS
  <2>1. DOMAIN At.stack \subseteq DOMAIN P.memory
    BY StopFacts DEF Init, At
  <2> QED BY <2>1 DEF Init, WithStack, Untouched
<1>2. Untouched /\ Stands /\ [Next]_vars => Untouched'
  <2> SUFFICES ASSUME Untouched, Stands, [Next]_vars
               PROVE  Untouched'
    OBVIOUS
  <2>1. CASE Run
    <3>1. PICK s \in DOMAIN P.stops :
            stop' = s /\ regs' = P.stops[s].regs /\ mem' = WithStack(mem, P.stops[s].stack)
      BY <2>1 DEF Run
    <3>2. UNCHANGED <<prog, sets>> /\ P' = P /\ At' = P.stops[s]
      BY <2>1, <3>1 DEF Run, P, At, ProgramTable
    <3>3. DOMAIN P.stops[s].stack \subseteq DOMAIN P.memory
      BY StopFacts DEF Stands
    <3> QED BY <3>1, <3>2, <3>3 DEF WithStack, Untouched
  <2>2. ASSUME UNCHANGED <<prog, stop, mem, regs, sets>>
        PROVE  Untouched'
    BY <2>2 DEF Untouched, P, At, ProgramTable
  <2>3. ASSUME UNCHANGED <<prog, stop>>, DOMAIN mem' = DOMAIN mem, sets' = sets + 1
        PROVE  Untouched'
    BY <2>3 DEF Untouched, P, At, ProgramTable
  <2>4. CASE UNCHANGED vars
    BY <2>2, <2>4 DEF vars
  <2>5. CASE Kill \/ BacktraceCommand \/ BacktraceFrame
    BY <2>2, <2>5 DEF Kill, BacktraceCommand, BacktraceFrame
  <2>6. CASE \E f \in Filters \cup {"none"} :
               \/ \E a \in Places : PrintMemory(a, f)
               \/ \E r \in Registers : PrintRegister(r, f)
               \/ \E x \in Names : PrintVariable(x, f)
    BY <2>2, <2>6 DEF PrintMemory, PrintRegister, PrintVariable
  <2>7. CASE \E f \in Filters, n \in Numbers : \E a \in Places : SetMemory(a, n, f)
    BY <2>3, <2>7 DEF SetMemory, Stored
  <2>8. CASE \E f \in Filters, n \in Numbers : \E r \in Registers : SetRegister(r, n, f)
    BY <2>3, <2>8 DEF SetRegister
  <2>9. CASE \E f \in Filters, n \in Numbers : \E x \in Names : SetVariable(x, n, f)
    <3>1. PICK f \in Filters, n \in Numbers, x \in Names : SetVariable(x, n, f)
      BY <2>9
    <3>2. UNCHANGED <<prog, stop>> /\ sets' = sets + 1
      BY <3>1 DEF SetVariable
    <3>3. mem' = mem \/ \E a, w : mem' = Stored(mem, a, w)
      BY <3>1 DEF SetVariable
    <3> QED BY <2>3, <3>2, <3>3 DEF Stored
  <2> QED BY <2>1, <2>4, <2>5, <2>6, <2>7, <2>8, <2>9 DEF Next
<1> QED BY <1>1, <1>2, StandsKept, PTL DEF Spec

\* The tracee stands where the chain of its frames is whole.
Whole == alive /\ ~At.prologue /\ sets = 0 /\ P.load = 0

\* A backtrace has collected the innermost functions and is about to read the
\* frame of the last of them, or it has listed all of them.
Walking ==
  Whole =>
    /\ ~Ready => \E k \in 1 .. Len(At.fps) :
                   walk = [fp |-> At.fps[k], frames |-> Inner(At.calls, k)]
    /\ reply.is = "frames" => reply.frames = Inner(At.calls, Len(At.calls))

LEMMA FramesAre ==
  ASSUME Stands, Untouched, Whole
  PROVE  /\ Linked(prog, At) /\ DbgPc = At.pc /\ regs["rbp"] = At.regs["rbp"]
         /\ \A pc : FrameName(pc) = SymbolName(Programs[prog].symbols, pc)
         /\ At.fps \in Seq(Nat \ {0}) /\ At.calls \in Seq(STRING)
         /\ Len(At.calls) = Len(At.fps) + 1 /\ Len(At.calls) <= MaxFrames
         /\ Len(At.fps) \in Nat
<1>1. Linked(prog, At) /\ P = Programs[prog]
  BY StopFacts DEF Stands, Whole, At
<1> QED BY <1>1, DbgPcIs DEF Linked, Untouched, Whole, FrameName

\* Reading a frame yields the frame pointer and the return address in it.
LEMMA FrameRead ==
  ASSUME Stands, Untouched, Whole, NEW k \in 1 .. Len(At.fps)
  PROVE  /\ ReadMemory(At.fps[k]) = {IF k = Len(At.fps) THEN 0 ELSE At.fps[k + 1]}
         /\ \E ret : /\ ReadMemory(At.fps[k] + WORD) = {ret}
                     /\ FrameName(ret) = At.calls[k + 1]
<1> DEFINE a == At.fps[k]
<1>1. a \in Nat /\ k \in DOMAIN At.fps
  BY FramesAre
<1>2. a .. a + 2 * WORD - 1 \subseteq DOMAIN At.stack
  BY <1>1, FramesAre DEF Linked
<1>3. DOMAIN At.stack \subseteq DOMAIN mem
  BY StopFacts DEF Stands, At, Untouched
<1>4. ASSUME NEW b \in {a, a + WORD}
      PROVE  ReadMemory(b) = {WordAt(At.stack, b)}
  <2>1. b \in Int /\ b .. b + WORD - 1 \subseteq a .. a + 2 * WORD - 1
    <3> HIDE DEF a
    <3> QED BY <1>1, Powers
  <2>2. b .. b + WORD - 1 \subseteq DOMAIN At.stack
    BY <1>2, <2>1
  <2>3. Mapped(b)
    BY <1>3, <2>2 DEF Mapped
  <2>4. \A i \in 0 .. WORD - 1 : b + i \in DOMAIN At.stack
    <3> HIDE DEF a
    <3>1. \A i \in 0 .. WORD - 1 : b + i \in b .. b + WORD - 1
      BY <2>1, Powers
    <3> QED BY <2>2, <3>1
  <2>5. \A i \in 0 .. WORD - 1 : mem[b + i] = At.stack[b + i]
    BY <2>4 DEF Untouched, Whole
  <2>6. WordAt(mem, b) = WordAt(At.stack, b)
    BY <2>1, <2>5, SameBytes
  <2> QED BY <2>3, <2>6 DEF ReadMemory, ReadIn, Whole
<1>5. WordAt(At.stack, a) = IF k = Len(At.fps) THEN 0 ELSE At.fps[k + 1]
  BY <1>1, FramesAre DEF Linked
<1>6. FrameName(WordAt(At.stack, a + WORD)) = At.calls[k + 1]
  BY <1>1, FramesAre DEF Linked
<1> QED BY <1>4, <1>5, <1>6

LEMMA CommandWalks ==
  ASSUME Stands, Untouched, Whole, BacktraceCommand
  PROVE  Walking'
<1> SUFFICES ASSUME Whole'
             PROVE  Walking'
  BY DEF Walking
<1>1. UNCHANGED <<prog, stop, mem, regs, alive, sets>> /\ P' = P /\ At' = At
  BY DEF BacktraceCommand, P, At, ProgramTable
<1> DEFINE calls == At.calls
           fps == At.fps
<1>2. /\ fps \in Seq(Nat \ {0}) /\ calls \in Seq(STRING) /\ Len(calls) = Len(fps) + 1
      /\ Len(fps) \in Nat
  BY FramesAre
<1>3. <<FrameName(DbgPc)>> = Inner(calls, 1)
  <2>1. FrameName(DbgPc) = calls[1]
    BY FramesAre DEF Linked
  <2> HIDE DEF calls
  <2> QED BY <2>1 DEF Inner
<1>4. regs["rbp"] = IF fps = <<>> THEN 0 ELSE fps[1]
  BY FramesAre DEF Linked
<1>5. CASE regs["rbp"] = 0
  <2>1. fps = <<>>
    <3> HIDE DEF fps
    <3> QED BY <1>2, <1>4, <1>5
  <2>2. Len(calls) = 1
    BY <1>2, <2>1
  <2>3. reply' = Listed(Inner(calls, 1)) /\ UNCHANGED walk /\ Ready
    BY <1>3, <1>5 DEF BacktraceCommand, Whole
  <2> QED BY <1>1, <2>2, <2>3 DEF Walking, Listed, Ready
<1>6. CASE regs["rbp"] # 0
  <2>1. fps # <<>> /\ 1 \in 1 .. Len(fps) /\ regs["rbp"] = fps[1]
    <3> HIDE DEF fps, calls
    <3> QED BY <1>2, <1>4, <1>6
  <2>2. walk' = [fp |-> fps[1], frames |-> Inner(calls, 1)] /\ reply' = Silent
    BY <1>3, <1>6, <2>1 DEF BacktraceCommand, Whole
  <2> QED BY <1>1, <2>1, <2>2 DEF Walking, Silent
<1> QED BY <1>5, <1>6

LEMMA FrameWalks ==
  ASSUME Stands, Untouched, Whole, Walking, BacktraceFrame
  PROVE  Walking'
<1>1. UNCHANGED <<prog, stop, mem, regs, alive, sets>> /\ P' = P /\ At' = At
  BY DEF BacktraceFrame, P, At, ProgramTable
<1> DEFINE calls == At.calls
           fps == At.fps
<1>2. /\ fps \in Seq(Nat \ {0}) /\ calls \in Seq(STRING) /\ Len(calls) = Len(fps) + 1
      /\ Len(fps) \in Nat /\ Len(calls) <= MaxFrames
  BY FramesAre
<1>3. PICK k \in 1 .. Len(fps) : walk = [fp |-> fps[k], frames |-> Inner(calls, k)]
  BY DEF Walking, BacktraceFrame
<1>4. reply.is = "frames" => reply.frames = Inner(calls, Len(calls))
  BY DEF Walking
<1> DEFINE next == IF k = Len(fps) THEN 0 ELSE fps[k + 1]
<1>5. PICK ret : ReadMemory(fps[k] + WORD) = {ret} /\ FrameName(ret) = calls[k + 1]
  BY FrameRead
<1>6. ReadMemory(fps[k]) = {next}
  BY FrameRead
<1>7. k \in Nat \ {0} /\ k < Len(calls) /\ k < MaxFrames
  <2> HIDE DEF fps, calls
  <2> QED BY <1>2, BoundsAssumption
<1>8. <<calls[k + 1]>> \o Inner(calls, k) = Inner(calls, k + 1) /\ Len(Inner(calls, k)) = k
  <2> HIDE DEF calls
  <2> QED BY <1>2, <1>7, Outward
<1>9. walk.fp = fps[k] /\ walk.frames = Inner(calls, k)
  BY <1>3
<1>10. IF next = 0 THEN reply' = Listed(Inner(calls, k + 1)) /\ walk' = NoWalk
       ELSE walk' = [fp |-> next, frames |-> Inner(calls, k + 1)] /\ UNCHANGED reply
  <2> HIDE DEF next, fps, calls
  <2>1. ReadMemory(walk.fp) = {next} /\ ReadMemory(walk.fp + WORD) = {ret}
    BY <1>5, <1>6, <1>9
  <2>2. Len(walk.frames) < MaxFrames /\ <<FrameName(ret)>> \o walk.frames = Inner(calls, k + 1)
    BY <1>5, <1>7, <1>8, <1>9
  <2> QED BY <2>1, <2>2 DEF BacktraceFrame
<1>11. next = 0 <=> k = Len(fps)
  <2>1. k # Len(fps) => fps[k + 1] # 0
    <3> HIDE DEF fps
    <3>1. k # Len(fps) => k + 1 \in 1 .. Len(fps)
      BY <1>2
    <3> QED BY <1>2, <3>1
  <2> QED BY <2>1
<1>12. CASE k = Len(fps)
  <2>1. k + 1 = Len(calls)
    BY <1>2, <1>12
  <2> HIDE DEF next, fps, calls
  <2> QED BY <1>1, <1>10, <1>11, <1>12, <2>1 DEF Walking, Listed, Ready, calls, fps
<1>13. CASE k # Len(fps)
  <2>1. k + 1 \in 1 .. Len(fps) /\ next = fps[k + 1]
    <3> HIDE DEF fps
    <3> QED BY <1>2, <1>13
  <2>2. walk' = [fp |-> fps[k + 1], frames |-> Inner(calls, k + 1)] /\ UNCHANGED reply
    BY <1>10, <1>11, <1>13, <2>1
  <2> HIDE DEF next
  <2> QED BY <1>1, <1>4, <2>1, <2>2 DEF Walking
<1> QED BY <1>12, <1>13

LEMMA WalkingKept == Spec => []Walking
<1>1. Init => Walking
  BY DEF Init, Silent, Walking, Ready
<1>2. Walking /\ Untouched /\ Untouched' /\ Stands /\ [Next]_vars => Walking'
  <2> SUFFICES ASSUME Walking, Untouched, Untouched', Stands, [Next]_vars, Whole'
               PROVE  Walking'
    BY DEF Walking
  <2>1. ASSUME Ready, UNCHANGED walk, reply'.is # "frames"
        PROVE  Walking'
    BY <2>1 DEF Walking, Ready
  <2>2. CASE UNCHANGED vars
    BY <2>2 DEF vars, Walking, Whole, Ready, P, At, ProgramTable
  <2>3. CASE Run
    BY <2>1, <2>3 DEF Run, Silent
  <2>4. CASE Kill
    BY <2>4 DEF Kill, Whole
  <2>5. CASE BacktraceCommand
    <3>1. Whole
      BY <2>5 DEF BacktraceCommand, Whole, P, At, ProgramTable
    <3> QED BY <2>5, <3>1, CommandWalks
  <2>6. CASE BacktraceFrame
    <3>1. Whole
      BY <2>6 DEF BacktraceFrame, Whole, P, At, ProgramTable
    <3> QED BY <2>6, <3>1, FrameWalks
  <2>7. CASE \E f \in Filters \cup {"none"} :
               \/ \E a \in Places : PrintMemory(a, f)
               \/ \E r \in Registers : PrintRegister(r, f)
               \/ \E x \in Names : PrintVariable(x, f)
    <3>1. Ready /\ UNCHANGED <<walk, prog, stop, mem, regs, alive, sets>>
      BY <2>7 DEF PrintMemory, PrintRegister, PrintVariable
    <3>2. reply' = Failed \/ \E cmd, e, l, w : reply' = PrintFiltered(mem, "shown", cmd, e, l, w)
      BY <2>7 DEF PrintMemory, PrintRegister, PrintVariable
    <3>3. reply'.is # "frames"
      BY <3>2, PrintFilteredIs DEF Failed, Answer
    <3> QED BY <2>1, <3>1, <3>3
  <2>8. CASE \E f \in Filters, n \in Numbers :
               \/ \E a \in Places : SetMemory(a, n, f)
               \/ \E r \in Registers : SetRegister(r, n, f)
               \/ \E x \in Names : SetVariable(x, n, f)
    <3>1. sets' = sets + 1
      BY <2>8 DEF SetMemory, SetRegister, SetVariable
    <3> QED BY <3>1 DEF Untouched, Whole
  <2> QED BY <2>2, <2>3, <2>4, <2>5, <2>6, <2>7, <2>8 DEF Next
<1> QED BY <1>1, <1>2, StandsKept, UntouchedKept, PTL DEF Spec

\* Behind the prologue, the backtrace lists exactly the active functions
\* (init_backtrace).
THEOREM BacktraceIsTrue == Spec => []BacktraceTrue
<1>1. Stands /\ Untouched /\ Walking => BacktraceTrue
  <2> SUFFICES ASSUME Stands, Untouched, Walking, Whole, reply.is = "frames"
               PROVE  reply.frames = Reverse(At.calls)
    BY DEF BacktraceTrue, Whole
  <2>1. reply.frames = Inner(At.calls, Len(At.calls))
    BY DEF Walking
  <2>2. Inner(At.calls, Len(At.calls)) = Reverse(At.calls)
    BY FramesAre DEF Inner, Reverse
  <2> QED BY <2>1, <2>2
<1> QED BY <1>1, StandsKept, UntouchedKept, WalkingKept, PTL

=============================================================================
