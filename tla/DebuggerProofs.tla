--------------------------- MODULE DebuggerProofs ---------------------------
(***************************************************************************)
(* Which breakpoints are enabled, and what the process does under the      *)
(* debugger, whatever the program.                                         *)
(*                                                                         *)
(* At the prompt, the enabled breakpoints are the user's.  The proof       *)
(* follows what the activations on the call stack still owe: one of        *)
(* single_step_breakpoint the breakpoint it has disabled, one of step_over *)
(* or run_debugger the deletion of those it has added.                     *)
(*                                                                         *)
(* When a breakpoint of the user is run through: only while                *)
(* single_step_breakpoint holds it disabled and a SIGWINCH has set the     *)
(* process running.                                                        *)
(*                                                                         *)
(* Where the process is when the debugger waits for a command.  Two facts  *)
(* carry the proof: while the process runs, or waitpid has something to    *)
(* report, the next thing the debugger does is to wait; and a trap that    *)
(* has been executed is one of an enabled breakpoint or the program's own  *)
(* int3.                                                                   *)
(*                                                                         *)
(* What a command does before it returns: it runs an instruction, and it   *)
(* stops where it was told.  Both follow from who can have called whom:    *)
(* the chain of callers on the stack says on whose behalf the process has  *)
(* been set running, and who is told that it has stopped.                  *)
(*                                                                         *)
(* Where next does not go: on every statement of another line of its       *)
(* function there is a breakpoint from the command to its end, and it is   *)
(* never the one that is being stepped over.                               *)
(***************************************************************************)
EXTENDS Debugger, FirstProofs, SequenceTheorems, TLAPS

-----------------------------------------------------------------------------
(* Call stacks. *)

\* The functions that delete breakpoints when they go on.
Deleters == {"step_over_run", "step_over_done", "run_debugger_run", "run_debugger_done"}
Stepper == "single_step_breakpoint"

\* A sequence of activations, with a deleter at most at its bottom.
Stack(k) ==
  /\ k \in Seq(Range(k))
  /\ \A i \in 1 .. Len(k) : k[i].fn \in Deleters => i = Len(k)

\* The breakpoints to be enabled again, and those to be deleted.
Steps(k) == {r.addr : r \in {x \in Range(k) : x.fn = Stepper}}
Dels(k) == UNION {r.dels : r \in {x \in Range(k) : x.fn \in Deleters}}

\* Up to what is owed, the breakpoints A are those of the user.
Balanced(A, k) ==
  /\ A \union Steps(k) = user \union (Dels(k) \intersect Mapped)
  /\ Dels(k) \intersect user = {}

\* What each call is entered with, and what holds between any two steps.
Owing(A, k) ==
  /\ Stack(k)
  /\ A \subseteq Mapped /\ user \subseteq Mapped
  /\ Alive => Balanced(A, k)

\* When spray has ended nothing is owed any more, whatever is enabled.
IInv ==
  /\ Stack(ctl)
  /\ armed \subseteq Mapped /\ user \subseteq Mapped
  /\ Session /\ Alive => Balanced(armed, ctl)
  /\ ~Session => ctl = <<>>
  /\ phase = "setup" => user = {}

\* The elements of a sequence are in its range.
LEMMA StackSeq ==
  ASSUME NEW S, NEW k \in Seq(S)
  PROVE  /\ k \in Seq(Range(k)) /\ Range(k) = {k[i] : i \in 1 .. Len(k)}
         /\ Range(k) \subseteq S /\ Len(k) \in Nat
<1>1. DOMAIN k = 1 .. Len(k) /\ Len(k) \in Nat
  OBVIOUS
<1>2. Range(k) = {k[i] : i \in 1 .. Len(k)}
  BY <1>1 DEF Range
<1>3. \A i \in 1 .. Len(k) : k[i] \in Range(k) /\ k[i] \in S
  BY <1>2
<1>4. k \in Seq(Range(k))
  BY <1>1, <1>3
<1> QED
  BY <1>1, <1>2, <1>3, <1>4

\* Nothing is owed on the empty stack.
LEMMA EmptyStack == Stack(<<>>) /\ Steps(<<>>) = {} /\ Dels(<<>>) = {}
<1>1. Range(<<>>) = {}
  BY DEF Range
<1>2. Stack(<<>>)
  BY <1>1 DEF Stack
<1> QED
  BY <1>1, <1>2 DEF Steps, Dels

\* What a sequence with one more element in front looks like.
LEMMA PushSeq ==
  ASSUME NEW k, Stack(k), NEW e
  PROVE  /\ <<e>> \o k \in Seq(Range(<<e>> \o k))
         /\ Range(<<e>> \o k) = {e} \union Range(k)
         /\ Len(<<e>> \o k) = Len(k) + 1 /\ (<<e>> \o k)[1] = e
         /\ \A i \in 1 .. Len(k) : (<<e>> \o k)[i + 1] = k[i]
         /\ Len(k) \in Nat
<1> DEFINE S == {e} \union Range(k)
           s == <<e>> \o k
<1>1. k \in Seq(Range(k)) /\ k \in Seq(S) /\ <<e>> \in Seq(S)
  BY DEF Stack
<1>2. s \in Seq(S) /\ Len(s) = Len(k) + 1 /\ s[1] = e /\ Len(k) \in Nat
  BY <1>1
<1>3. \A i \in 1 .. Len(k) : s[i + 1] = k[i]
  BY <1>1
<1>4. Range(k) = {k[i] : i \in 1 .. Len(k)} /\ Range(s) = {s[i] : i \in 1 .. Len(s)}
  BY <1>1, <1>2, StackSeq
<1>5. Range(s) = {e} \union Range(k)
  <2>1. ASSUME NEW x \in Range(s) PROVE x \in {e} \union Range(k)
    <3>1. PICK i \in 1 .. Len(s) : x = s[i]
      BY <1>4, <2>1
    <3>2. CASE i = 1
      BY <3>1, <3>2, <1>2
    <3>3. CASE i # 1
      <4>1. i - 1 \in 1 .. Len(k) /\ s[(i - 1) + 1] = k[i - 1]
        BY <3>1, <3>3, <1>2, <1>3
      <4>2. (i - 1) + 1 = i
        BY <3>1, <1>2
      <4> QED
        BY <4>1, <4>2, <3>1, <1>4
    <3> QED
      BY <3>2, <3>3
  <2>2. e \in Range(s)
    BY <1>2, <1>4
  <2>3. ASSUME NEW i \in 1 .. Len(k) PROVE k[i] \in Range(s)
    BY <1>2, <1>3, <1>4
  <2> QED
    BY <2>1, <2>2, <2>3, <1>4
<1>6. s \in Seq(Range(s))
  BY <1>2, StackSeq
<1> QED
  BY <1>2, <1>3, <1>5, <1>6

\* A call of a function that owes nothing.
LEMMA PushOther ==
  ASSUME NEW k, Stack(k), NEW e, e.fn \notin Deleters, e.fn # Stepper
  PROVE  /\ Stack(<<e>> \o k)
         /\ Steps(<<e>> \o k) = Steps(k) /\ Dels(<<e>> \o k) = Dels(k)
<1> DEFINE s == <<e>> \o k
<1>1. /\ s \in Seq(Range(s)) /\ Range(s) = {e} \union Range(k)
      /\ Len(s) = Len(k) + 1 /\ s[1] = e /\ Len(k) \in Nat
      /\ \A i \in 1 .. Len(k) : s[i + 1] = k[i]
  BY PushSeq
<1>2. ASSUME NEW i \in 1 .. Len(s), s[i].fn \in Deleters PROVE i = Len(s)
  <2>1. i # 1
    BY <1>1, <1>2
  <2>2. i - 1 \in 1 .. Len(k) /\ s[(i - 1) + 1] = k[i - 1] /\ (i - 1) + 1 = i
    BY <1>1, <2>1
  <2>3. i - 1 = Len(k)
    BY <2>2, <1>2 DEF Stack
  <2> QED
    BY <2>2, <2>3, <1>1
<1>3. Steps(s) = Steps(k) /\ Dels(s) = Dels(k)
  <2>1. {x \in Range(s) : x.fn = Stepper} = {x \in Range(k) : x.fn = Stepper}
    BY <1>1
  <2>2. {x \in Range(s) : x.fn \in Deleters} = {x \in Range(k) : x.fn \in Deleters}
    BY <1>1
  <2> QED
    BY <2>1, <2>2 DEF Steps, Dels
<1> QED
  BY <1>1, <1>2, <1>3 DEF Stack

\* A call of single_step_breakpoint.
LEMMA PushStep ==
  ASSUME NEW k, Stack(k), NEW a
  PROVE  /\ Stack(<<StepBreakpoint(a)>> \o k)
         /\ Steps(<<StepBreakpoint(a)>> \o k) = Steps(k) \union {a}
         /\ Dels(<<StepBreakpoint(a)>> \o k) = Dels(k)
<1> DEFINE e == StepBreakpoint(a)
           s == <<e>> \o k
<1>0. e.fn = Stepper /\ e.addr = a /\ e.fn \notin Deleters
  BY DEF StepBreakpoint, Stepper, Deleters
<1> HIDE DEF e
<1>1. /\ s \in Seq(Range(s)) /\ Range(s) = {e} \union Range(k)
      /\ Len(s) = Len(k) + 1 /\ s[1] = e /\ Len(k) \in Nat
      /\ \A i \in 1 .. Len(k) : s[i + 1] = k[i]
  BY PushSeq
<1>2. ASSUME NEW i \in 1 .. Len(s), s[i].fn \in Deleters PROVE i = Len(s)
  <2>1. i # 1
    BY <1>0, <1>1, <1>2
  <2>2. i - 1 \in 1 .. Len(k) /\ s[(i - 1) + 1] = k[i - 1] /\ (i - 1) + 1 = i
    BY <1>1, <2>1
  <2>3. i - 1 = Len(k)
    BY <2>2, <1>2 DEF Stack
  <2> QED
    BY <2>2, <2>3, <1>1
<1>3. Steps(s) = Steps(k) \union {a} /\ Dels(s) = Dels(k)
  <2>1. {x \in Range(s) : x.fn = Stepper} = {x \in Range(k) : x.fn = Stepper} \union {e}
    BY <1>0, <1>1
  <2>2. {x \in Range(s) : x.fn \in Deleters} = {x \in Range(k) : x.fn \in Deleters}
    BY <1>0, <1>1
  <2> QED
    BY <2>1, <2>2, <1>0 DEF Steps, Dels
<1>4. Stack(s)
  BY <1>1, <1>2 DEF Stack
<1> QED
  BY <1>3, <1>4 DEF e

\* Two calls at once.
LEMMA PushTwo ==
  ASSUME NEW k, Stack(k), NEW d, NEW e
  PROVE  <<d, e>> \o k = <<d>> \o (<<e>> \o k)
<1> DEFINE S == {d, e} \union Range(k)
           s == <<d, e>> \o k
           t == <<d>> \o (<<e>> \o k)
<1>1. k \in Seq(S) /\ <<d, e>> \in Seq(S) /\ <<d>> \in Seq(S) /\ <<e>> \in Seq(S)
  BY DEF Stack
<1>2. <<e>> \o k \in Seq(S) /\ Len(<<e>> \o k) = Len(k) + 1 /\ Len(k) \in Nat
  BY <1>1
<1>3. /\ s \in Seq(S) /\ t \in Seq(S) /\ Len(s) = Len(k) + 2 /\ Len(t) = Len(k) + 2
  BY <1>1, <1>2
<1>4. ASSUME NEW i \in 1 .. Len(s) PROVE s[i] = t[i]
  <2>1. CASE i = 1
    BY <1>1, <1>2, <2>1
  <2>2. CASE i = 2
    BY <1>1, <1>2, <2>2
  <2>3. CASE i > 2
    <3>1. s[i] = k[i - 2]
      BY <1>1, <1>2, <1>3, <2>3
    <3>2. t[i] = (<<e>> \o k)[i - 1]
      BY <1>1, <1>2, <1>3, <2>3
    <3>3. (<<e>> \o k)[i - 1] = k[(i - 1) - 1]
      BY <1>1, <1>2, <1>3, <2>3
    <3> QED
      BY <3>1, <3>2, <3>3
  <2> QED
    BY <2>1, <2>2, <2>3, <1>2, <1>3
<1> HIDE DEF S, s, t
<1> QED
  BY <1>3, <1>4, SeqEqual DEF s, t

\* A call from an empty stack.
LEMMA PushFirst ==
  ASSUME NEW e
  PROVE  <<e>> \o <<>> = <<e>>
OBVIOUS

\* A deleter alone.
LEMMA OneDeleter ==
  ASSUME NEW e, e.fn \in Deleters
  PROVE  Stack(<<e>>) /\ Steps(<<e>>) = {} /\ Dels(<<e>>) = e.dels
<1>1. <<e>> \in Seq({e}) /\ Len(<<e>>) = 1 /\ <<e>>[1] = e
  OBVIOUS
<1>2. <<e>> \in Seq(Range(<<e>>)) /\ Range(<<e>>) = {e}
  <2>1. <<e>> \in Seq(Range(<<e>>)) /\ Range(<<e>>) = {<<e>>[i] : i \in 1 .. Len(<<e>>)}
    BY <1>1, StackSeq
  <2> QED
    BY <2>1, <1>1
<1>3. Stack(<<e>>)
  BY <1>1, <1>2 DEF Stack
<1>4. {x \in Range(<<e>>) : x.fn = Stepper} = {} /\ {x \in Range(<<e>>) : x.fn \in Deleters} = {e}
  BY <1>2 DEF Stepper, Deleters
<1> QED
  BY <1>3, <1>4 DEF Steps, Dels

\* A return pays what the innermost activation owes.
LEMMA Pop ==
  ASSUME NEW k, Stack(k), k # <<>>
  PROVE  /\ Stack(Tail(k))
         /\ Head(k).fn \in Deleters =>
              Tail(k) = <<>> /\ Steps(k) = {} /\ Dels(k) = Head(k).dels
         /\ Head(k).fn \notin Deleters => Dels(k) = Dels(Tail(k))
         /\ Head(k).fn = Stepper => Steps(k) = {Head(k).addr} \union Steps(Tail(k))
         /\ Head(k).fn # Stepper => Steps(k) = Steps(Tail(k))
<1> DEFINE t == Tail(k)
<1>1. /\ k \in Seq(Range(k)) /\ Len(k) \in Nat /\ Len(k) > 0 /\ Head(k) = k[1]
      /\ t \in Seq(Range(k)) /\ Len(t) = Len(k) - 1
      /\ \A i \in 1 .. Len(t) : t[i] = k[i + 1]
  BY DEF Stack
<1>2. /\ Range(k) = {k[i] : i \in 1 .. Len(k)} /\ Range(t) = {t[i] : i \in 1 .. Len(t)}
      /\ t \in Seq(Range(t))
  BY <1>1, StackSeq
<1>3. Range(k) = {Head(k)} \union Range(t)
  <2>1. ASSUME NEW x \in Range(k) PROVE x \in {Head(k)} \union Range(t)
    <3>1. PICK i \in 1 .. Len(k) : x = k[i]
      BY <1>2
    <3>2. CASE i = 1
      BY <3>1, <3>2, <1>1
    <3>3. CASE i # 1
      <4>1. i - 1 \in 1 .. Len(t) /\ t[i - 1] = k[(i - 1) + 1] /\ (i - 1) + 1 = i
        BY <1>1, <3>1, <3>3
      <4> QED
        BY <4>1, <3>1, <1>2
    <3> QED
      BY <3>2, <3>3
  <2>2. Head(k) \in Range(k)
    BY <1>1, <1>2
  <2>3. ASSUME NEW i \in 1 .. Len(t) PROVE t[i] \in Range(k)
    BY <1>1, <1>2
  <2> QED
    BY <2>1, <2>2, <2>3, <1>2
<1>4. Stack(t)
  <2>1. ASSUME NEW i \in 1 .. Len(t), t[i].fn \in Deleters PROVE i = Len(t)
    <3>1. i + 1 \in 1 .. Len(k) /\ k[i + 1].fn \in Deleters
      BY <1>1, <2>1
    <3>2. i + 1 = Len(k)
      BY <3>1 DEF Stack
    <3> QED
      BY <3>2, <1>1
  <2> QED
    BY <2>1, <1>2 DEF Stack
<1>5. CASE Head(k).fn \in Deleters
  <2>1. Len(k) = 1
    <3>1. 1 \in 1 .. Len(k) /\ k[1].fn \in Deleters
      BY <1>1, <1>5
    <3> QED
      BY <3>1 DEF Stack
  <2>2. t = <<>>
    <3>1. Len(t) = 0
      BY <2>1, <1>1
    <3> HIDE DEF t
    <3> QED
      BY <3>1, <1>1, EmptySeq
  <2>3. Range(t) = {}
    BY <2>2 DEF Range
  <2>4. {x \in Range(k) : x.fn = Stepper} = {} /\ {x \in Range(k) : x.fn \in Deleters} = {Head(k)}
    BY <2>3, <1>3, <1>5 DEF Stepper, Deleters
  <2>5. Steps(k) = {} /\ Dels(k) = Head(k).dels
    BY <2>4 DEF Steps, Dels
  <2> QED
    BY <2>2, <2>5, <1>4, <1>5, EmptyStack DEF Stepper, Deleters
<1>6. CASE Head(k).fn \notin Deleters
  <2>1. {x \in Range(k) : x.fn \in Deleters} = {x \in Range(t) : x.fn \in Deleters}
    BY <1>3, <1>6
  <2>2. Dels(k) = Dels(t)
    BY <2>1 DEF Dels
  <2>3. CASE Head(k).fn = Stepper
    <3>1. {x \in Range(k) : x.fn = Stepper} = {Head(k)} \union {x \in Range(t) : x.fn = Stepper}
      BY <1>3, <2>3
    <3>2. Steps(k) = {Head(k).addr} \union Steps(t)
      BY <3>1 DEF Steps
    <3> QED
      BY <3>2, <2>2, <2>3, <1>4, <1>6
  <2>4. CASE Head(k).fn # Stepper
    <3>1. {x \in Range(k) : x.fn = Stepper} = {x \in Range(t) : x.fn = Stepper}
      BY <1>3, <2>4
    <3>2. Steps(k) = Steps(t)
      BY <3>1 DEF Steps
    <3> QED
      BY <3>2, <2>2, <2>4, <1>4, <1>6
  <2> QED
    BY <2>3, <2>4
<1> QED
  BY <1>5, <1>6

\* Where the elements come from after a push and after a pop.
LEMMA PushIndex ==
  ASSUME NEW k, Stack(k), NEW e, NEW i \in 1 .. Len(<<e>> \o k)
  PROVE  \/ i = 1 /\ (<<e>> \o k)[i] = e
         \/ i # 1 /\ i - 1 \in 1 .. Len(k) /\ (<<e>> \o k)[i] = k[i - 1]
<1>1. /\ Len(<<e>> \o k) = Len(k) + 1 /\ (<<e>> \o k)[1] = e /\ Len(k) \in Nat
      /\ \A j \in 1 .. Len(k) : (<<e>> \o k)[j + 1] = k[j]
  BY PushSeq
<1>2. CASE i # 1
  <2>1. i - 1 \in 1 .. Len(k) /\ (i - 1) + 1 = i
    BY <1>1, <1>2
  <2>2. (<<e>> \o k)[(i - 1) + 1] = k[i - 1]
    BY <1>1, <2>1
  <2> QED
    BY <1>2, <2>1, <2>2
<1> QED
  BY <1>1, <1>2

LEMMA PopIndex ==
  ASSUME NEW k, Stack(k), k # <<>>
  PROVE  /\ Len(k) \in Nat \ {0} /\ Len(Tail(k)) = Len(k) - 1 /\ Head(k) = k[1]
         /\ \A i \in 1 .. Len(Tail(k)) : i + 1 \in 1 .. Len(k) /\ Tail(k)[i] = k[i + 1]
BY DEF Stack

-----------------------------------------------------------------------------
(* The calls preserve what is owed. *)

\* pt_continue_execution and pt_single_step do not kill the process.
LEMMA PtLives == (PtContinue \/ PtSingleStep) => (Alive' <=> Alive)
BY DEF PtContinue, PtSingleStep, Alive

\* single_step_breakpoint owes what it disables.
LEMMA CallStepBreakpointOwes ==
  ASSUME NEW A, NEW k, Owing(A, k), GetPc \in A, CallStepBreakpoint(A, k),
         UNCHANGED <<prog, user>>
  PROVE  Owing(armed, ctl)'
<1> DEFINE k1 == <<StepBreakpoint(GetPc)>> \o k
<1>1. /\ Stack(k1) /\ Dels(k1) = Dels(k)
      /\ Steps(k1) = Steps(k) \union {GetPc}
  BY PushStep DEF Owing
<1>2. ctl' = <<Wait>> \o k1
  BY PushTwo DEF Owing, CallStepBreakpoint
<1>3. /\ Wait.fn \notin Deleters /\ Wait.fn # Stepper
  BY DEF Wait, Deleters, Stepper
<1> HIDE DEF k1
<1>4. /\ Stack(ctl') /\ Dels(ctl') = Dels(k)
      /\ Steps(ctl') = Steps(k) \union {GetPc}
  BY <1>1, <1>2, <1>3, PushOther
<1>5. /\ armed' = (IF Alive THEN A \ {GetPc} ELSE A)
      /\ Alive' <=> Alive
      /\ Mapped' = Mapped /\ user' = user
  BY PtLives DEF CallStepBreakpoint, Disabled, Mapped
<1>6. armed' \subseteq Mapped /\ user' \subseteq Mapped
  BY <1>5 DEF Owing
<1>7. ASSUME Alive
      PROVE  /\ armed' \union Steps(ctl') = user \union (Dels(ctl') \intersect Mapped)
             /\ Dels(ctl') \intersect user = {}
  BY <1>4, <1>5, <1>7 DEF Owing, Balanced
<1> QED
  BY <1>4, <1>5, <1>6, <1>7 DEF Owing, Balanced

\* continue_execution, without a breakpoint at the program counter.
LEMMA CallPtContinueOwes ==
  ASSUME NEW A, NEW k, Owing(A, k), CallPtContinue(A, k), UNCHANGED <<prog, user>>
  PROVE  Owing(armed, ctl)'
<1>1. /\ armed' = A /\ ctl' = k
      /\ Alive' <=> Alive
      /\ Mapped' = Mapped /\ user' = user
  BY PtLives DEF CallPtContinue, Mapped
<1> QED
  BY <1>1 DEF Owing, Balanced

\* Activations of continue_execution, single_step_instruction and the like
\* owe nothing.
LEMMA PushKeepsOwing ==
  ASSUME NEW A, NEW k, Owing(A, k), NEW e, e.fn \notin Deleters, e.fn # Stepper
  PROVE  Owing(A, <<e>> \o k)
BY PushOther DEF Owing, Balanced

\* continue_execution and single_step_instruction, whatever calls them.
LEMMA CallContinueOwes ==
  ASSUME NEW A, NEW k, Owing(A, k), CallContinue(A, k), UNCHANGED <<prog, user>>
  PROVE  Owing(armed, ctl)'
<1>1. CASE GetPc \in A /\ CallStepBreakpoint(A, <<Continue>> \o k)
  <2>1. Owing(A, <<Continue>> \o k)
    BY PushKeepsOwing DEF Continue, Deleters, Stepper
  <2> QED
    BY <1>1, <2>1, CallStepBreakpointOwes
<1>2. CASE GetPc \notin A /\ CallPtContinue(A, k)
  BY <1>2, CallPtContinueOwes
<1> QED
  BY <1>1, <1>2 DEF CallContinue

LEMMA CallStepInstructionOwes ==
  ASSUME NEW A, NEW k, Owing(A, k), CallStepInstruction(A, k), UNCHANGED <<prog, user>>
  PROVE  Owing(armed, ctl)'
<1>1. CASE GetPc \in A /\ CallStepBreakpoint(A, <<StepInstruction>> \o k)
  <2>1. Owing(A, <<StepInstruction>> \o k)
    BY PushKeepsOwing DEF StepInstruction, Deleters, Stepper
  <2> QED
    BY <1>1, <2>1, CallStepBreakpointOwes
<1>2. CASE /\ armed' = A
           /\ PtSingleStep
           /\ ctl' = <<Wait>> \o k
  <2>1. Owing(A, <<Wait>> \o k)
    BY PushKeepsOwing DEF Wait, Deleters, Stepper
  <2>2. Alive' <=> Alive
    BY <1>2, PtLives
  <2>3. Mapped' = Mapped /\ user' = user
    BY DEF Mapped
  <2> QED
    BY <1>2, <2>1, <2>2, <2>3 DEF Owing, Balanced
<1> QED
  BY <1>1, <1>2 DEF CallStepInstruction

-----------------------------------------------------------------------------
(* Between the steps. *)

\* What a step from a session to a session has to establish.
LEMMA StaysInSession ==
  ASSUME Owing(armed, ctl)', phase' \in {"setup", "repl"},
         phase' = "setup" => user' = {}
  PROVE  IInv'
BY DEF IInv, Owing, Session

\* What a call of continue_execution with one more breakpoint owes: the
\* commands next and leave and the start of the debugger.
LEMMA AddedOwes ==
  ASSUME NEW B, NEW dels, NEW e, e.fn \in Deleters, e.dels = dels,
         user \subseteq Mapped, B \subseteq Mapped,
         Alive => /\ B = user \union (dels \intersect Mapped)
                  /\ dels \intersect user = {}
  PROVE  Owing(B, <<e>>)
BY OneDeleter DEF Owing, Balanced

\* The innermost activation returns and owes nothing.
LEMMA PopKeepsOwing ==
  ASSUME NEW A, NEW k, Owing(A, k), k # <<>>,
         Head(k).fn \notin Deleters, Head(k).fn # Stepper
  PROVE  Owing(A, Tail(k))
BY Pop DEF Owing, Balanced

\* At the prompt nothing is owed.
LEMMA NothingOwed ==
  ASSUME IInv, ctl = <<>>, Session
  PROVE  Owing(armed, ctl) /\ (Alive => armed = user)
BY EmptyStack DEF IInv, Owing, Balanced

\* The stack is k, nothing else that is owed has changed, and nothing revives
\* the process.
LEMMA OnlyStackChanges ==
  ASSUME NEW k, Owing(armed, k), armed' = armed, ctl' = k, UNCHANGED <<prog, user>>,
         Alive' => Alive
  PROVE  Owing(armed, ctl)'
<1>1. Mapped' = Mapped /\ user' = user
  BY DEF Mapped
<1> QED
  BY <1>1 DEF Owing, Balanced

\* A step inside a command or of the start.
LEMMA InsideCommand ==
  ASSUME IInv, ctl # <<>>
  PROVE  /\ Session /\ Owing(armed, ctl)
         /\ Owing(armed, ctl)' /\ UNCHANGED <<phase, user>> => IInv'
<1>1. Session
  BY DEF IInv
<1>2. Owing(armed, ctl)
  BY <1>1 DEF IInv, Owing
<1>3. ASSUME Owing(armed, ctl)', UNCHANGED <<phase, user>> PROVE IInv'
  <2>1. phase' \in {"setup", "repl"} /\ (phase' = "setup" => user' = {})
    BY <1>1, <1>3 DEF Session, IInv
  <2> QED
    BY <1>3, <2>1, StaysInSession
<1> QED
  BY <1>1, <1>2, <1>3

\* wait_for_signal owes nothing, and so does what it calls on SIGWINCH.
LEMMA WaitForSignalKeeps == IInv /\ WaitForSignal => IInv'
<1> SUFFICES ASSUME IInv, WaitForSignal PROVE IInv'
  OBVIOUS
<1>1. Waiting
  BY DEF WaitForSignal, WaitDeath, WaitSigtrap, WaitOther, WaitWinch, WaitKilled, WaitNobody
<1>2. ctl # <<>> /\ Head(ctl).fn \notin Deleters /\ Head(ctl).fn # Stepper
  BY <1>1 DEF Waiting, Wait, Deleters, Stepper
<1>3. Owing(armed, ctl) /\ (Owing(armed, ctl)' /\ UNCHANGED <<phase, user>> => IInv')
  BY <1>2, InsideCommand
<1>4. Owing(armed, Tail(ctl))
  BY <1>2, <1>3, PopKeepsOwing
<1>5. CASE WaitDeath
  <2>1. ~ Alive'
    BY <1>5 DEF WaitDeath, Alive
  <2>2. armed' = armed /\ ctl' = Tail(ctl) /\ UNCHANGED <<prog, user, phase>>
    BY <1>5 DEF WaitDeath, Return
  <2> QED
    BY <1>3, <1>4, <2>1, <2>2, OnlyStackChanges
<1>6. CASE WaitSigtrap
  <2>1. Alive' => Alive
    BY <1>6 DEF WaitSigtrap, Alive
  <2>2. armed' = armed /\ ctl' = Tail(ctl) /\ UNCHANGED <<prog, user, phase>>
    BY <1>6 DEF WaitSigtrap, Return
  <2> QED
    BY <1>3, <1>4, <2>1, <2>2, OnlyStackChanges
<1>7. CASE WaitOther
  <2>1. Alive' => Alive
    BY <1>7 DEF WaitOther, Alive
  <2>2. armed' = armed /\ ctl' = Tail(ctl) /\ UNCHANGED <<prog, user, phase>>
    BY <1>7 DEF WaitOther, Return
  <2> QED
    BY <1>3, <1>4, <2>1, <2>2, OnlyStackChanges
<1>8. CASE WaitWinch
  <2>1. Owing(armed, <<Winch>> \o Tail(ctl))
    BY <1>4, PushKeepsOwing DEF Winch, Deleters, Stepper
  <2>2. CallContinue(armed, <<Winch>> \o Tail(ctl)) /\ UNCHANGED <<prog, user, phase>>
    BY <1>8 DEF WaitWinch
  <2> QED
    BY <1>3, <2>1, <2>2, CallContinueOwes
<1>9. CASE WaitKilled
  <2>1. ~ Alive'
    BY <1>9 DEF WaitKilled, Alive
  <2>2. armed' = armed /\ ctl' = Tail(ctl) /\ UNCHANGED <<prog, user, phase>>
    BY <1>9 DEF WaitKilled, Return
  <2> QED
    BY <1>3, <1>4, <2>1, <2>2, OnlyStackChanges
<1>10. CASE WaitNobody
  <2>1. Alive' => Alive
    BY <1>10 DEF WaitNobody, Alive, traceeVars
  <2>2. armed' = armed /\ ctl' = Tail(ctl) /\ UNCHANGED <<prog, user, phase>>
    BY <1>10 DEF WaitNobody, Return, traceeVars
  <2> QED
    BY <1>3, <1>4, <2>1, <2>2, OnlyStackChanges
<1> QED
  BY <1>5, <1>6, <1>7, <1>8, <1>9, <1>10 DEF WaitForSignal

-----------------------------------------------------------------------------
(* The returns: one lemma for each kind of activation. *)

\* Those that owe nothing.
LEMMA OtherReturnsKeep ==
  ASSUME IInv,
         \/ WinchReturns \/ ContinueReturns \/ StepInstructionReturns
         \/ ExecContinueReturns \/ StepLineReturns
  PROVE  IInv'
<1>1. ctl # <<>> /\ Head(ctl).fn \notin Deleters /\ Head(ctl).fn # Stepper
  BY DEF WinchReturns, ContinueReturns, StepInstructionReturns, ExecContinueReturns,
         StepLineReturns, Returned, Deleters, Stepper
<1>2. /\ Owing(armed, ctl)
      /\ Owing(armed, ctl)' /\ UNCHANGED <<phase, user>> => IInv'
  BY <1>1, InsideCommand
<1>3. Owing(armed, Tail(ctl))
  BY <1>1, <1>2, PopKeepsOwing
<1>4. UNCHANGED <<prog, user, phase>>
  BY DEF WinchReturns, ContinueReturns, StepInstructionReturns, ExecContinueReturns,
         StepLineReturns, Untouched
<1>5. ASSUME NEW r, Return(r), UNCHANGED <<armed, mode>> PROVE IInv'
  <2>1. ctl' = Tail(ctl) /\ (Alive' => Alive)
    BY <1>5 DEF Return, Alive
  <2> QED
    BY <1>2, <1>3, <1>4, <1>5, <2>1, OnlyStackChanges
<1>6. ASSUME WaitThen(Tail(ctl)) PROVE IInv'
  <2>1. Owing(armed, <<Wait>> \o Tail(ctl))
    BY <1>3, PushKeepsOwing DEF Wait, Deleters, Stepper
  <2>2. ctl' = <<Wait>> \o Tail(ctl) /\ armed' = armed /\ (Alive' => Alive)
    BY <1>6 DEF WaitThen, Alive
  <2> QED
    BY <1>2, <1>4, <2>1, <2>2, OnlyStackChanges
<1>7. CASE WinchReturns
  BY <1>6, <1>7 DEF WinchReturns
<1>8. CASE ContinueReturns
  BY <1>2, <1>3, <1>4, <1>8, CallPtContinueOwes DEF ContinueReturns
<1>9. CASE StepInstructionReturns
  BY <1>5, <1>9 DEF StepInstructionReturns
<1>10. CASE ExecContinueReturns
  BY <1>5, <1>6, <1>10 DEF ExecContinueReturns
<1>11. CASE StepLineReturns
  <2>1. PICK l, n : \/ Return("SP_ERR") /\ UNCHANGED <<armed, mode>>
                    \/ Return("SP_OK") /\ UNCHANGED <<armed, mode>>
                    \/ CallStepInstruction(armed, <<StepLine(l, n)>> \o Tail(ctl))
    BY <1>11 DEF StepLineReturns
  <2>2. Owing(armed, <<StepLine(l, n)>> \o Tail(ctl))
    BY <1>3, PushKeepsOwing DEF StepLine, Deleters, Stepper
  <2>3. CASE CallStepInstruction(armed, <<StepLine(l, n)>> \o Tail(ctl))
    BY <1>2, <1>4, <2>2, <2>3, CallStepInstructionOwes
  <2> QED
    BY <1>5, <2>1, <2>3
<1> QED
  BY <1>7, <1>8, <1>9, <1>10, <1>11

\* single_step_breakpoint pays by enabling its breakpoint again.
LEMMA StepBreakpointReturnsKeeps ==
  ASSUME IInv, StepBreakpointReturns
  PROVE  IInv'
<1> DEFINE a == Head(ctl).addr
<1>1. /\ ctl # <<>> /\ Head(ctl).fn \notin Deleters /\ Head(ctl).fn = Stepper
      /\ armed' = (IF Alive THEN armed \union ({a} \intersect Mapped) ELSE armed)
      /\ ctl' = Tail(ctl)
      /\ UNCHANGED <<prog, user, phase>> /\ (Alive' <=> Alive)
  BY DEF StepBreakpointReturns, Returned, Return, Enabled, Untouched, Deleters, Stepper, Alive
<1>2. /\ Owing(armed, ctl)
      /\ Owing(armed, ctl)' /\ UNCHANGED <<phase, user>> => IInv'
  BY <1>1, InsideCommand
<1>3. /\ Stack(Tail(ctl)) /\ Dels(ctl) = Dels(Tail(ctl))
      /\ Steps(ctl) = {a} \union Steps(Tail(ctl))
  BY <1>1, <1>2, Pop DEF Owing
<1> HIDE DEF a
<1>4. /\ Mapped' = Mapped /\ user' = user
      /\ armed' \subseteq Mapped /\ user' \subseteq Mapped
  BY <1>1, <1>2 DEF Owing, Mapped
<1>5. ASSUME Alive
      PROVE  /\ armed' \union Steps(ctl') = user \union (Dels(ctl') \intersect Mapped)
             /\ Dels(ctl') \intersect user = {}
  <2>1. /\ armed \union Steps(ctl) = user \union (Dels(ctl) \intersect Mapped)
        /\ Dels(ctl) \intersect user = {}
    BY <1>2, <1>5 DEF Owing, Balanced
  <2>2. a \in Mapped
    BY <1>2, <1>3, <2>1 DEF Owing
  <2> QED
    BY <1>1, <1>3, <1>5, <2>1, <2>2
<1>6. Owing(armed, ctl)'
  BY <1>1, <1>3, <1>4, <1>5 DEF Owing, Balanced
<1> QED
  BY <1>1, <1>2, <1>6

\* The activation of a deleter is the only one, and what is owed is its own.
LEMMA DeleterAlone ==
  ASSUME IInv, ctl # <<>>, Head(ctl).fn \in Deleters
  PROVE  /\ Tail(ctl) = <<>>
         /\ Alive => /\ armed = user \union (Head(ctl).dels \intersect Mapped)
                     /\ Head(ctl).dels \intersect user = {}
<1>1. Owing(armed, ctl)
  BY InsideCommand
<1>2. Tail(ctl) = <<>> /\ Steps(ctl) = {} /\ Dels(ctl) = Head(ctl).dels
  BY <1>1, Pop DEF Owing
<1> QED
  BY <1>1, <1>2 DEF Owing, Balanced

\* It goes on waiting with the same debt.
LEMMA DeleterWaits ==
  ASSUME IInv, ctl # <<>>, Head(ctl).fn \in Deleters,
         NEW e, e.fn \in Deleters, e.dels = Head(ctl).dels
  PROVE  Owing(armed, <<Wait>> \o <<e>>)
<1>1. /\ Alive => /\ armed = user \union (e.dels \intersect Mapped)
                  /\ e.dels \intersect user = {}
      /\ user \subseteq Mapped /\ armed \subseteq Mapped
  BY DeleterAlone DEF IInv
<1>2. Owing(armed, <<e>>)
  BY <1>1, AddedOwes
<1> QED
  BY <1>2, PushKeepsOwing DEF Wait, Deleters, Stepper

\* step_over and step_out pay by disabling what they have added.
LEMMA RunToReturnsKeeps ==
  ASSUME IInv, RunToReturns
  PROVE  IInv'
<1> DEFINE e == CleanUp(Head(ctl).dels)
<1>1. /\ ctl # <<>> /\ Head(ctl).fn \in Deleters
      /\ ctl' = <<Wait>> \o (<<e>> \o Tail(ctl))
      /\ armed' = armed /\ UNCHANGED <<prog, user, phase>> /\ (Alive' => Alive)
  BY DEF RunToReturns, Returned, WaitThen, Untouched, Deleters, Alive
<1>2. e.fn \in Deleters /\ e.dels = Head(ctl).dels
  BY DEF CleanUp, Deleters
<1> HIDE DEF e
<1>3. <<e>> \o Tail(ctl) = <<e>>
  BY <1>1, DeleterAlone, PushFirst
<1>4. Owing(armed, <<Wait>> \o <<e>>)
  BY <1>1, <1>2, DeleterWaits
<1>5. Owing(armed, ctl)'
  BY <1>1, <1>3, <1>4, OnlyStackChanges
<1> QED
  BY <1>1, <1>5, InsideCommand

\* The stack is empty and the breakpoints are the user's.
LEMMA AllPaid ==
  ASSUME armed' \subseteq Mapped, user' \subseteq Mapped, ctl' = <<>>,
         UNCHANGED prog, Alive' => armed' = user'
  PROVE  Owing(armed, ctl)'
<1>1. Mapped' = Mapped
  BY DEF Mapped
<1> QED
  BY <1>1, EmptyStack DEF Owing, Balanced

LEMMA CleanUpReturnsKeeps ==
  ASSUME IInv, CleanUpReturns
  PROVE  IInv'
<1>1. /\ ctl # <<>> /\ Head(ctl).fn \in Deleters /\ ctl' = Tail(ctl)
      /\ armed' = (IF Alive THEN armed \ Head(ctl).dels ELSE armed)
      /\ UNCHANGED <<prog, user, phase>> /\ (Alive' <=> Alive)
  BY DEF CleanUpReturns, Returned, Return, Disabled, Untouched, Deleters, Alive
<1>2. /\ ctl' = <<>>
      /\ armed' \subseteq Mapped /\ user \subseteq Mapped
      /\ Alive' => armed' = user
  BY <1>1, DeleterAlone DEF IInv
<1>3. Owing(armed, ctl)'
  BY <1>1, <1>2, AllPaid
<1> QED
  BY <1>1, <1>3, InsideCommand

\* run_debugger, too, unless it ends: then the loop never starts.
LEMMA EndsUnpaid ==
  ASSUME IInv, ctl' = <<>>, phase' \in {"finished", "aborted"}, armed' = armed,
         UNCHANGED <<prog, user>>
  PROVE  IInv'
<1>1. Mapped' = Mapped /\ user' = user
  BY DEF Mapped
<1>2. Stack(ctl')
  BY EmptyStack
<1> QED
  BY <1>1, <1>2 DEF IInv, Session

LEMMA RunMainReturnsKeeps ==
  ASSUME IInv, RunMainReturns
  PROVE  IInv'
<1> DEFINE e == MainReached(Head(ctl).dels)
<1>1. /\ ctl # <<>> /\ Head(ctl).fn \in Deleters
      /\ UNCHANGED <<prog, user>>
  BY DEF RunMainReturns, Returned, Untouched, Deleters
<1>2. CASE WaitThen(<<e>>) /\ UNCHANGED phase
  <2>1. e.fn \in Deleters /\ e.dels = Head(ctl).dels
    BY DEF MainReached, Deleters
  <2>2. Owing(armed, <<Wait>> \o <<e>>)
    BY <1>1, <2>1, DeleterWaits
  <2>3. ctl' = <<Wait>> \o <<e>> /\ armed' = armed /\ (Alive' => Alive)
    BY <1>2 DEF WaitThen, Alive
  <2>4. Owing(armed, ctl)'
    BY <1>1, <2>2, <2>3, OnlyStackChanges
  <2> QED
    BY <1>1, <1>2, <2>4, InsideCommand
<1>3. CASE Return(ret) /\ phase' = "finished" /\ UNCHANGED <<armed, mode>>
  <2>1. ctl' = <<>>
    BY <1>1, <1>3, DeleterAlone DEF Return
  <2> QED
    BY <1>1, <1>3, <2>1, EndsUnpaid
<1> QED
  BY <1>2, <1>3 DEF RunMainReturns

LEMMA MainReachedReturnsKeeps ==
  ASSUME IInv, MainReachedReturns
  PROVE  IInv'
<1>1. /\ ctl # <<>> /\ Head(ctl).fn \in Deleters
      /\ ctl' = Tail(ctl)
      /\ UNCHANGED <<prog, user>> /\ (Alive' <=> Alive)
  BY DEF MainReachedReturns, Returned, Return, Untouched, Deleters, Alive
<1>2. ctl' = <<>>
  BY <1>1, DeleterAlone
<1>3. CASE armed' = Disabled(armed, Head(ctl).dels) /\ phase' = "repl"
  <2>1. armed' = IF Alive THEN armed \ Head(ctl).dels ELSE armed
    BY <1>3 DEF Disabled
  <2>2. /\ armed' \subseteq Mapped /\ user \subseteq Mapped
        /\ Alive' => armed' = user
    BY <1>1, <2>1, DeleterAlone DEF IInv
  <2>3. Owing(armed, ctl)'
    BY <1>1, <1>2, <2>2, AllPaid
  <2> QED
    BY <1>3, <2>3, StaysInSession
<1>4. CASE phase' = "finished" /\ UNCHANGED armed
  BY <1>1, <1>2, <1>4, EndsUnpaid
<1> QED
  BY <1>3, <1>4 DEF MainReachedReturns

LEMMA CallReturnsKeep == IInv /\ CallReturns => IInv'
BY OtherReturnsKeep, StepBreakpointReturnsKeeps, RunToReturnsKeeps, CleanUpReturnsKeeps,
   RunMainReturnsKeeps, MainReachedReturnsKeeps DEF CallReturns

-----------------------------------------------------------------------------
(* The start and the commands. *)

\* A step that changes nothing the invariant is about.
LEMMA NothingChanges ==
  ASSUME IInv, UNCHANGED <<prog, armed, ctl, user, phase>>, Alive' => Alive
  PROVE  IInv'
<1>1. Mapped' = Mapped
  BY DEF Mapped
<1> QED
  BY <1>1 DEF IInv, Session, Balanced

LEMMA RunDebuggerKeeps ==
  ASSUME IInv, RunDebugger
  PROVE  IInv'
<1>1. /\ ctl = <<>> /\ Session /\ user = {} /\ UNCHANGED <<prog, user>>
      /\ phase = "setup" /\ user \subseteq Mapped
  BY DEF RunDebugger, Session, IInv, Untouched
<1>2. Owing(armed, <<>>) /\ (Alive => armed = user) /\ armed \subseteq Mapped
  BY <1>1, NothingOwed DEF IInv
<1>3. ASSUME phase' = "finished", UNCHANGED <<armed, mode, ctl, ret>> PROVE IInv'
  BY <1>1, <1>3, EndsUnpaid
<1>4. ASSUME phase' = "repl", UNCHANGED <<armed, mode, ctl, ret>> PROVE IInv'
  <2>1. Owing(armed, ctl)'
    BY <1>1, <1>2, <1>4, AllPaid DEF Alive
  <2> QED
    BY <1>4, <2>1, StaysInSession
<1>5. ASSUME NEW a, CallContinue(Enabled(armed, {a}), <<RunMain({a})>>), UNCHANGED phase
      PROVE  IInv'
  <2> DEFINE B == Enabled(armed, {a})
             e == RunMain({a})
  <2>1. e.fn \in Deleters /\ e.dels = {a}
    BY DEF RunMain, Deleters
  <2>2. /\ B \subseteq Mapped
        /\ Alive => B = user \union ({a} \intersect Mapped) /\ {a} \intersect user = {}
    BY <1>1, <1>2 DEF Enabled
  <2> HIDE DEF e, B
  <2>3. Owing(B, <<e>>)
    BY <1>1, <2>1, <2>2, AddedOwes
  <2>4. Owing(armed, ctl)'
    BY <1>1, <1>5, <2>3, CallContinueOwes DEF e, B
  <2> QED
    BY <1>1, <1>5, <2>4, StaysInSession
<1> QED
  BY <1>3, <1>4, <1>5 DEF RunDebugger

\* At the prompt.
LEMMA Prompt ==
  ASSUME IInv, AtPrompt
  PROVE  /\ ctl = <<>> /\ phase = "repl" /\ Owing(armed, <<>>)
         /\ Alive => armed = user
         /\ armed \subseteq Mapped /\ user \subseteq Mapped
         /\ Owing(armed, ctl)' /\ UNCHANGED phase => IInv'
BY NothingOwed, StaysInSession DEF AtPrompt, Session, IInv

\* break and delete change both sides.
LEMMA BreakKeeps ==
  ASSUME IInv, NEW loc, Break(loc)
  PROVE  IInv'
<1> DEFINE N == Named(loc)
<1>1. /\ AtPrompt /\ UNCHANGED <<prog, mode, ctl, phase>>
      /\ armed' = (IF Alive THEN armed \union (N \intersect Mapped) ELSE armed)
      /\ user' = user \union (N \intersect armed') /\ (Alive' <=> Alive)
  BY DEF Break, Enabled, Unissued, Alive
<1> HIDE DEF N
<1>2. /\ armed' \subseteq Mapped /\ user' \subseteq Mapped
      /\ Alive' => armed' = user'
  BY <1>1, Prompt
<1>3. Owing(armed, ctl)'
  BY <1>1, <1>2, Prompt, AllPaid
<1> QED
  BY <1>1, <1>3, Prompt

LEMMA DeleteKeeps ==
  ASSUME IInv, NEW loc, Delete(loc)
  PROVE  IInv'
<1> DEFINE N == Named(loc)
<1>1. /\ AtPrompt /\ UNCHANGED <<prog, mode, ctl, phase>>
      /\ armed' = (IF Alive THEN armed \ N ELSE armed)
      /\ user' = user \ (N \ armed') /\ (Alive' <=> Alive)
  BY DEF Delete, Disabled, Unissued, Alive
<1> HIDE DEF N
<1>2. /\ armed' \subseteq Mapped /\ user' \subseteq Mapped
      /\ Alive' => armed' = user'
  BY <1>1, Prompt
<1>3. Owing(armed, ctl)'
  BY <1>1, <1>2, Prompt, AllPaid
<1> QED
  BY <1>1, <1>3, Prompt

\* continue, inst and step add nothing.
LEMMA ContinueCommandKeeps ==
  ASSUME IInv, ContinueCommand
  PROVE  IInv'
<1>1. /\ AtPrompt /\ UNCHANGED <<prog, user, phase>>
      /\ CallContinue(armed, <<ExecContinue>>)
  BY DEF ContinueCommand, Unissued
<1>2. Owing(armed, <<ExecContinue>> \o <<>>)
  BY <1>1, Prompt, PushKeepsOwing DEF ExecContinue, Deleters, Stepper
<1>3. Owing(armed, ctl)'
  BY <1>1, <1>2, PushFirst, CallContinueOwes
<1> QED
  BY <1>1, <1>3, Prompt

LEMMA InstCommandKeeps ==
  ASSUME IInv, InstCommand
  PROVE  IInv'
<1>1. /\ AtPrompt /\ UNCHANGED <<prog, user, phase>>
      /\ CallStepInstruction(armed, <<>>)
  BY DEF InstCommand, Unissued
<1>2. Owing(armed, ctl)'
  BY <1>1, Prompt, CallStepInstructionOwes
<1> QED
  BY <1>1, <1>2, Prompt

LEMMA StepCommandKeeps ==
  ASSUME IInv, StepCommand
  PROVE  IInv'
<1>1. AtPrompt /\ UNCHANGED <<prog, user, phase>>
  BY DEF StepCommand, Unissued
<1>2. CASE Refuse
  BY <1>1, <1>2, NothingChanges DEF Refuse, Alive
<1>3. ASSUME NEW l, CallStepInstruction(armed, <<StepLine(l, 0)>>) PROVE IInv'
  <2>1. Owing(armed, <<StepLine(l, 0)>> \o <<>>)
    BY <1>1, Prompt, PushKeepsOwing DEF StepLine, Deleters, Stepper
  <2>2. Owing(armed, ctl)'
    BY <1>1, <1>3, <2>1, PushFirst, CallStepInstructionOwes
  <2> QED
    BY <1>1, <2>2, Prompt
<1> QED
  BY <1>2, <1>3 DEF StepCommand

\* leave and next delete exactly what they have enabled: the arguments of
\* their calls.
LEMMA LeaveCommandKeeps ==
  ASSUME IInv, LeaveCommand
  PROVE  IInv'
<1>1. AtPrompt /\ UNCHANGED <<prog, user>>
  BY DEF LeaveCommand, Unissued
<1>2. CASE phase' = "aborted" /\ UNCHANGED <<armed, mode, ctl, ret>>
  BY <1>1, <1>2, Prompt, EndsUnpaid
<1>3. CASE /\ CallContinue(Enabled(armed, {ReturnAddress}), <<RunTo({ReturnAddress} \ armed)>>)
           /\ UNCHANGED phase
  <2> DEFINE B == Enabled(armed, {ReturnAddress})
             e == RunTo({ReturnAddress} \ armed)
  <2>1. e.fn \in Deleters /\ e.dels = {ReturnAddress} \ armed
    BY DEF RunTo, Deleters
  <2>2. /\ B \subseteq Mapped
        /\ Alive => /\ B = user \union (({ReturnAddress} \ armed) \intersect Mapped)
                    /\ ({ReturnAddress} \ armed) \intersect user = {}
    BY <1>1, Prompt DEF Enabled
  <2> HIDE DEF e, B
  <2>3. Owing(B, <<e>>)
    BY <1>1, <2>1, <2>2, Prompt, AddedOwes
  <2>4. Owing(armed, ctl)'
    BY <1>1, <1>3, <2>3, CallContinueOwes DEF e, B
  <2> QED
    BY <1>1, <1>3, <2>4, Prompt
<1> QED
  BY <1>2, <1>3 DEF LeaveCommand

LEMMA NextCommandKeeps ==
  ASSUME IInv, NextCommand
  PROVE  IInv'
<1>1. AtPrompt /\ UNCHANGED <<prog, user, phase>>
  BY DEF NextCommand, Unissued
<1>2. CASE Refuse
  BY <1>1, <1>2, NothingChanges DEF Refuse, Alive
<1>3. ASSUME NEW lines,
             CallContinue(Enabled(armed, lines \union {ReturnAddress}),
                          <<RunTo(StepOverDels(lines))>>)
      PROVE  IInv'
  <2> DEFINE B == Enabled(armed, lines \union {ReturnAddress})
             D == StepOverDels(lines)
             e == RunTo(D)
  <2>1. e.fn \in Deleters /\ e.dels = D
    BY DEF RunTo, Deleters
  <2>2. B \subseteq Mapped
    BY <1>1, Prompt DEF Enabled
  <2>3. ASSUME Alive
        PROVE  B = user \union (D \intersect Mapped) /\ D \intersect user = {}
    <3>1. /\ armed = user /\ armed \subseteq Mapped
          /\ B = armed \union ((lines \union {ReturnAddress}) \intersect Mapped)
          /\ D = (lines \ armed)
                   \union ({ReturnAddress} \ (armed \union (lines \intersect Mapped)))
      BY <1>1, <2>3, Prompt DEF Enabled, StepOverDels
    <3> HIDE DEF B, D
    <3> QED
      BY <3>1
  <2> HIDE DEF e, B, D
  <2>4. Owing(B, <<e>>)
    BY <1>1, <2>1, <2>2, <2>3, Prompt, AddedOwes
  <2>5. Owing(armed, ctl)'
    BY <1>1, <1>3, <2>4, CallContinueOwes DEF e, B, D
  <2> QED
    BY <1>1, <2>5, Prompt
<1> QED
  BY <1>2, <1>3 DEF NextCommand

LEMMA CommandKeeps == IInv /\ Command => IInv'
<1> SUFFICES ASSUME IInv, Command PROVE IInv'
  OBVIOUS
<1>1. CASE Quit
  <2>1. /\ ctl' = <<>> /\ phase' = "finished" /\ armed' = armed
        /\ UNCHANGED <<prog, user>>
    BY <1>1 DEF Quit, AtPrompt, traceeVars
  <2> QED
    BY <2>1, EndsUnpaid
<1> QED
  BY <1>1, BreakKeeps, DeleteKeeps, ContinueCommandKeeps, InstCommandKeeps,
     LeaveCommandKeeps, StepCommandKeeps, NextCommandKeeps DEF Command

-----------------------------------------------------------------------------
(* The process in between. *)

LEMMA ProcessKeeps == IInv /\ (TraceeRuns \/ OthersSignal \/ Terminated) => IInv'
<1> SUFFICES ASSUME IInv, TraceeRuns \/ OthersSignal \/ Terminated PROVE IInv'
  OBVIOUS
<1>1. CASE TraceeStops
  BY <1>1, NothingChanges
  DEF TraceeStops, SignalStop, TrapStop, debuggerVars, Alive, Running
<1>2. CASE TraceeExecutes
  <2>1. UNCHANGED <<prog, armed, ctl, user, phase>> /\ Alive
    BY <1>2 DEF TraceeExecutes, Execute, Alive, Running
  <2> QED
    BY <2>1, NothingChanges
<1>3. CASE OthersSignal
  <2>1. CASE \E s \in {"winch", "other"} : Signal(s)
    BY <1>3, <2>1, NothingChanges DEF OthersSignal, Signal, debuggerVars, Alive
  <2>2. CASE Kill
    BY <1>3, <2>2, NothingChanges DEF OthersSignal, Kill, debuggerVars, Alive
  <2> QED
    BY <1>3, <2>1, <2>2 DEF OthersSignal
<1>4. CASE Terminated
  BY <1>4, NothingChanges DEF Terminated, vars, traceeVars, debuggerVars, Alive
<1> QED
  BY <1>1, <1>2, <1>3, <1>4 DEF TraceeRuns

-----------------------------------------------------------------------------
(* The theorem. *)

\* What the call stack owes accounts for the difference between the enabled
\* breakpoints and the user's at every moment of a session (enable_breakpoint
\* and disable_breakpoint as single_step_breakpoint, step_over, step_out and
\* run_debugger call them).
THEOREM BreakpointsAccountedFor == Spec => []IInv
<1>1. Init => IInv
  BY EmptyStack DEF Init, TraceeInit, DebuggerInit, IInv, Session, Balanced
<1>2. IInv /\ [Next]_vars => IInv'
  <2> SUFFICES ASSUME IInv, [Next]_vars PROVE IInv'
    OBVIOUS
  <2>1. CASE RunDebugger
    BY <2>1, RunDebuggerKeeps
  <2>2. CASE DebuggerWorks
    BY <2>2, WaitForSignalKeeps, CallReturnsKeep DEF DebuggerWorks
  <2>3. CASE Command
    BY <2>3, CommandKeeps
  <2>4. CASE TraceeRuns \/ OthersSignal \/ Terminated
    BY <2>4, ProcessKeeps
  <2>5. CASE UNCHANGED vars
    BY <2>5, NothingChanges DEF vars, traceeVars, debuggerVars, Alive
  <2> QED
    BY <2>1, <2>2, <2>3, <2>4, <2>5 DEF Next
<1> QED
  BY <1>1, <1>2, PTL DEF Spec

\* At the prompt the enabled breakpoints are the user's: no command leaves one
\* of its own behind and none loses one of the user's, in any program, however
\* the process stops, is signalled or dies (step_over, step_out,
\* single_step_breakpoint, run_debugger).
THEOREM UserBreakpointsSurvive == Spec => []PromptBreakpointsAreUsers
<1>1. IInv => PromptBreakpointsAreUsers
  BY NothingOwed DEF PromptBreakpointsAreUsers, AtPrompt, Session
<1> QED
  BY <1>1, BreakpointsAccountedFor, PTL

-----------------------------------------------------------------------------
(* The breakpoints that are run through. *)

\* Activations of single_step_breakpoint are records of StepBreakpoint.
Typed(k) == \A i \in 1 .. Len(k) : k[i].fn = Stepper => k[i] = StepBreakpoint(k[i].addr)

NoStepper(k) == \A i \in 1 .. Len(k) : k[i].fn # Stepper
NoStepLine(k) == \A i \in 1 .. Len(k) : k[i].fn # "single_step_line"

\* Above an activation of single_step_breakpoint is at most the wait it calls.
StepperOnTop(k) ==
  \A i \in 1 .. Len(k) :
    k[i].fn = Stepper => i = 1 \/ (i = 2 /\ k[1].fn = "wait_for_signal")

\* Without SIGWINCH a disabled breakpoint is single-stepped only, and by a
\* command that runs on only as its first instruction.
MInv ==
  /\ {"cmd", "steps", "winched"} \subseteq DOMAIN last
  /\ Typed(ctl)
  /\ phase = "setup" => last.cmd = "none"
  /\ NoStepLine(ctl) \/ last.cmd = "step"
  /\ ~last.winched =>
       /\ StepperOnTop(ctl)
       /\ NoStepper(ctl) \/ mode # "cont"
       /\ NoStepper(ctl) \/ mode # "step" \/ last.cmd \notin Runs \/ last.steps = 0

-----------------------------------------------------------------------------
(* The call stacks of single_step_breakpoint. *)

\* A call of anything but single_step_breakpoint.
LEMMA PushFree ==
  ASSUME NEW k, Stack(k), NEW e, e.fn # Stepper
  PROVE  /\ Typed(k) => Typed(<<e>> \o k)
         /\ NoStepper(k) => NoStepper(<<e>> \o k)
         /\ e.fn # "single_step_line" /\ NoStepLine(k) => NoStepLine(<<e>> \o k)
<1> DEFINE s == <<e>> \o k
<1>1. ASSUME NEW i \in 1 .. Len(s)
      PROVE  s[i] = e \/ (i - 1 \in 1 .. Len(k) /\ s[i] = k[i - 1])
  BY <1>1, PushIndex
<1> HIDE DEF s
<1>2. /\ Typed(k) => Typed(s)
      /\ NoStepper(k) => NoStepper(s)
      /\ e.fn # "single_step_line" /\ NoStepLine(k) => NoStepLine(s)
  BY <1>1 DEF Typed, NoStepper, NoStepLine
<1> QED
  BY <1>2 DEF s

\* single_step_breakpoint and the wait in it.
LEMMA PushStepper ==
  ASSUME NEW k, Stack(k), Typed(k), NEW a
  PROVE  /\ Typed(<<Wait, StepBreakpoint(a)>> \o k)
         /\ NoStepper(k) => StepperOnTop(<<Wait, StepBreakpoint(a)>> \o k)
         /\ NoStepLine(k) => NoStepLine(<<Wait, StepBreakpoint(a)>> \o k)
<1> DEFINE e == StepBreakpoint(a)
           t == <<e>> \o k
           s == <<Wait>> \o t
<1>0. /\ e.fn = Stepper /\ e.addr = a /\ e.fn # "single_step_line"
      /\ Wait.fn = "wait_for_signal" /\ Wait.fn # Stepper /\ Wait.fn # "single_step_line"
  BY DEF StepBreakpoint, Stepper, Wait
<1>1. <<Wait, e>> \o k = s /\ Stack(t)
  BY PushTwo, PushStep
<1>2. ASSUME NEW i \in 1 .. Len(t)
      PROVE  (i = 1 /\ t[i] = e) \/ (i # 1 /\ i - 1 \in 1 .. Len(k) /\ t[i] = k[i - 1])
  BY <1>2, PushIndex
<1>3. ASSUME NEW i \in 1 .. Len(s)
      PROVE  (i = 1 /\ s[i] = Wait) \/ (i # 1 /\ i - 1 \in 1 .. Len(t) /\ s[i] = t[i - 1])
  BY <1>1, <1>3, PushIndex
<1>4. Len(s) \in Nat \ {0} /\ s[1] = Wait
  BY <1>1, PushSeq
<1>5. e = StepBreakpoint(e.addr)
  BY <1>0
<1> HIDE DEF e, t, s
<1>6. Typed(t)
  BY <1>2, <1>5 DEF Typed
<1>7. Typed(s)
  BY <1>0, <1>3, <1>6 DEF Typed
<1>8. ASSUME NoStepper(k) PROVE StepperOnTop(s)
  <2>1. ASSUME NEW i \in 1 .. Len(s), s[i].fn = Stepper PROVE i = 2
    <3>1. i # 1 /\ i - 1 \in 1 .. Len(t) /\ t[i - 1].fn = Stepper
      BY <1>0, <1>3, <2>1
    <3>2. i - 1 = 1
      BY <1>2, <1>8, <3>1 DEF NoStepper
    <3> QED
      BY <3>2
  <2> QED
    BY <1>0, <1>4, <2>1 DEF StepperOnTop
<1>9. ASSUME NoStepLine(k) PROVE NoStepLine(s)
  BY <1>0, <1>2, <1>3, <1>9 DEF NoStepLine
<1> QED
  BY <1>1, <1>7, <1>8, <1>9 DEF e

LEMMA EmptyFree == Typed(<<>>) /\ NoStepper(<<>>) /\ NoStepLine(<<>>)
BY DEF Typed, NoStepper, NoStepLine

LEMMA FreeOnTop ==
  ASSUME NEW k, NoStepper(k)
  PROVE  StepperOnTop(k)
BY DEF NoStepper, StepperOnTop

\* A return.
LEMMA PopFree ==
  ASSUME NEW k, Stack(k), k # <<>>
  PROVE  /\ Typed(k) => Typed(Tail(k))
         /\ NoStepper(k) => NoStepper(Tail(k))
         /\ NoStepLine(k) => NoStepLine(Tail(k)) /\ Head(k).fn # "single_step_line"
         /\ StepperOnTop(k) => StepperOnTop(Tail(k))
         /\ StepperOnTop(k) /\ Head(k).fn # "wait_for_signal" => NoStepper(Tail(k))
<1> DEFINE t == Tail(k)
<1>1. /\ Len(k) \in Nat \ {0} /\ Len(t) = Len(k) - 1 /\ Head(k) = k[1]
      /\ \A i \in 1 .. Len(t) : i + 1 \in 1 .. Len(k) /\ t[i] = k[i + 1]
  BY PopIndex
<1> HIDE DEF t
<1>2. /\ Typed(k) => Typed(t)
      /\ NoStepper(k) => NoStepper(t)
      /\ NoStepLine(k) => NoStepLine(t) /\ Head(k).fn # "single_step_line"
  BY <1>1 DEF Typed, NoStepper, NoStepLine
<1>3. ASSUME StepperOnTop(k), NEW i \in 1 .. Len(t), t[i].fn = Stepper
      PROVE  i = 1 /\ Head(k).fn = "wait_for_signal"
  <2>1. i + 1 \in 1 .. Len(k) /\ k[i + 1].fn = Stepper /\ i + 1 # 1
    BY <1>1, <1>3
  <2>2. i + 1 = 2 /\ k[1].fn = "wait_for_signal"
    BY <1>3, <2>1 DEF StepperOnTop
  <2> QED
    BY <1>1, <2>2
<1> QED
  BY <1>2, <1>3 DEF t, StepperOnTop, NoStepper

-----------------------------------------------------------------------------
(* Calls: nothing else is above it. *)

LEMMA CallStepBreakpointSteps ==
  ASSUME NEW A, NEW k, Stack(k), Typed(k), CallStepBreakpoint(A, k)
  PROVE  /\ Typed(ctl') /\ (NoStepLine(k) => NoStepLine(ctl'))
         /\ mode' # "cont"
         /\ NoStepper(k) => StepperOnTop(ctl')
<1>1. ctl' = <<Wait, StepBreakpoint(GetPc)>> \o k /\ mode' # "cont"
  BY DEF CallStepBreakpoint, PtSingleStep, Alive
<1> QED
  BY <1>1, PushStepper

LEMMA CallSteps ==
  ASSUME NEW A, NEW k, Stack(k), Typed(k), CallContinue(A, k) \/ CallStepInstruction(A, k)
  PROVE  /\ Typed(ctl') /\ (NoStepLine(k) => NoStepLine(ctl'))
         /\ NoStepper(k) => /\ StepperOnTop(ctl')
                            /\ NoStepper(ctl') \/ mode' # "cont"
<1>1. ASSUME NEW e, Stack(<<e>> \o k), e.fn # Stepper, e.fn # "single_step_line",
             CallStepBreakpoint(A, <<e>> \o k)
      PROVE  /\ Typed(ctl') /\ (NoStepLine(k) => NoStepLine(ctl'))
             /\ mode' # "cont"
             /\ NoStepper(k) => StepperOnTop(ctl')
  BY <1>1, PushFree, CallStepBreakpointSteps
<1>2. CASE CallStepBreakpoint(A, <<Continue>> \o k)
  <2>1. /\ Continue.fn # Stepper /\ Continue.fn # "single_step_line"
        /\ Continue.fn \notin Deleters
    BY DEF Continue, Stepper, Deleters
  <2> QED
    BY <1>1, <1>2, <2>1, PushOther
<1>3. CASE CallStepBreakpoint(A, <<StepInstruction>> \o k)
  <2>1. /\ StepInstruction.fn # Stepper /\ StepInstruction.fn # "single_step_line"
        /\ StepInstruction.fn \notin Deleters
    BY DEF StepInstruction, Stepper, Deleters
  <2> QED
    BY <1>1, <1>3, <2>1, PushOther
<1>4. CASE CallPtContinue(A, k)
  BY <1>4, FreeOnTop DEF CallPtContinue
<1>5. CASE ctl' = <<Wait>> \o k
  <2>1. Wait.fn # Stepper /\ Wait.fn # "single_step_line"
    BY DEF Wait, Stepper
  <2> QED
    BY <1>5, <2>1, PushFree, FreeOnTop
<1> QED
  BY <1>2, <1>3, <1>4, <1>5 DEF CallContinue, CallStepInstruction

-----------------------------------------------------------------------------
(* The steps of the debugger and of the process. *)

\* The history of the command is kept.
SameHistory ==
  /\ DOMAIN last' = DOMAIN last /\ last'.cmd = last.cmd
  /\ last'.winched = last.winched /\ last'.steps = last.steps
  /\ phase' = "setup" => phase = "setup"

\* A function returns to the one below, or the process dies.
LEMMA ReturnKeeps ==
  ASSUME IInv, MInv, SameHistory, ctl # <<>>, ctl' = Tail(ctl),
         mode' = mode \/ mode' \notin {"cont", "step"}
  PROVE  MInv'
BY PopFree DEF IInv, MInv, SameHistory

\* No activation of single_step_breakpoint is left.
LEMMA FreeKeeps ==
  ASSUME MInv, SameHistory, Typed(ctl'), NoStepLine(ctl) => NoStepLine(ctl'),
         ~last.winched => NoStepper(ctl')
  PROVE  MInv'
BY FreeOnTop DEF MInv, SameHistory

LEMMA WaitForSignalSteps ==
  ASSUME IInv, MInv, WaitForSignal
  PROVE  MInv'
<1>1. Waiting /\ UNCHANGED phase
  BY DEF WaitForSignal, WaitDeath, WaitSigtrap, WaitOther, WaitWinch, WaitKilled, WaitNobody
<1>2. ctl # <<>> /\ Stack(ctl) /\ Stack(Tail(ctl)) /\ Typed(Tail(ctl))
      /\ (NoStepLine(ctl) => NoStepLine(Tail(ctl)))
  BY <1>1, Pop, PopFree DEF Waiting, IInv, MInv
<1>3. {"cmd", "steps", "winched"} \subseteq DOMAIN last
  BY DEF MInv
<1>4. CASE WaitDeath \/ WaitKilled \/ WaitNobody
  <2>1. last' = last /\ ctl' = Tail(ctl) /\ (mode' = mode \/ mode' \notin {"cont", "step"})
    BY <1>4 DEF WaitDeath, WaitKilled, WaitNobody, Return, traceeVars
  <2> QED
    BY <1>1, <1>2, <2>1, ReturnKeeps DEF SameHistory
<1>5. CASE WaitSigtrap
  <2>1. ctl' = Tail(ctl) /\ mode' = mode
    BY <1>5 DEF WaitSigtrap, Return
  <2>2. PICK b : last' = [last EXCEPT !.odd = b]
    BY <1>5 DEF WaitSigtrap
  <2>3. SameHistory
    BY <1>1, <1>3, <2>2 DEF SameHistory
  <2> QED
    BY <1>2, <2>1, <2>3, ReturnKeeps
<1>6. CASE WaitOther
  <2>1. ctl' = Tail(ctl) /\ mode' = mode
    BY <1>6 DEF WaitOther, Return
  <2>2. last' = [last EXCEPT !.signalled = TRUE]
    BY <1>6 DEF WaitOther
  <2>3. SameHistory
    BY <1>1, <1>3, <2>2 DEF SameHistory
  <2> QED
    BY <1>2, <2>1, <2>3, ReturnKeeps
<1>7. CASE WaitWinch
  <2>1. last' = [last EXCEPT !.winched = TRUE] /\ CallContinue(armed, <<Winch>> \o Tail(ctl))
    BY <1>7 DEF WaitWinch
  <2>2. DOMAIN last' = DOMAIN last /\ last'.winched /\ last'.cmd = last.cmd
    BY <1>3, <2>1
  <2>3. Winch.fn # Stepper /\ Winch.fn # "single_step_line" /\ Winch.fn \notin Deleters
    BY DEF Winch, Stepper, Deleters
  <2>4. Typed(ctl') /\ (NoStepLine(ctl) => NoStepLine(ctl'))
    BY <1>2, <2>1, <2>3, PushFree, PushOther, CallSteps
  <2> QED
    BY <1>1, <2>2, <2>4 DEF MInv
<1> QED
  BY <1>4, <1>5, <1>6, <1>7 DEF WaitForSignal

\* A function other than wait_for_signal goes on when the call above it has
\* returned, so that without SIGWINCH no single_step_breakpoint is below it.
LEMMA CallReturnsSteps ==
  ASSUME IInv, MInv, CallReturns
  PROVE  MInv'
<1> DEFINE k == Tail(ctl)
<1>1. /\ ctl # <<>> /\ Head(ctl).fn # "wait_for_signal" /\ last' = last
      /\ phase' = phase \/ phase' # "setup"
  BY DEF CallReturns, WinchReturns, StepBreakpointReturns, ContinueReturns,
     StepInstructionReturns, ExecContinueReturns, StepLineReturns, RunToReturns,
     CleanUpReturns, RunMainReturns, MainReachedReturns, Returned, Untouched
<1>2. SameHistory
  BY <1>1 DEF SameHistory
<1>3. /\ Stack(k) /\ Typed(k)
      /\ NoStepLine(ctl) => NoStepLine(k)
      /\ ~last.winched => NoStepper(k)
  BY <1>1, Pop, PopFree DEF IInv, MInv
<1>4. ASSUME NEW r, Return(r) PROVE MInv'
  <2>1. ctl' = k
    BY <1>4 DEF Return
  <2> QED
    BY <1>2, <1>3, <2>1, FreeKeeps
<1>5. ASSUME NEW e, e.fn # Stepper, e.fn # "single_step_line", e.fn \notin Deleters,
             ctl' = <<e>> \o k
      PROVE  MInv'
  BY <1>2, <1>3, <1>5, PushFree, FreeKeeps
<1>6. Wait.fn # Stepper /\ Wait.fn # "single_step_line" /\ Wait.fn \notin Deleters
  BY DEF Wait, Stepper, Deleters
<1>7. CASE WinchReturns
  BY <1>5, <1>6, <1>7 DEF WinchReturns, WaitThen
<1>8. CASE StepBreakpointReturns
  BY <1>4, <1>8 DEF StepBreakpointReturns
<1>9. CASE ContinueReturns
  <2>1. ctl' = k
    BY <1>9 DEF ContinueReturns, CallPtContinue
  <2> QED
    BY <1>2, <1>3, <2>1, FreeKeeps
<1>10. CASE StepInstructionReturns
  BY <1>4, <1>10 DEF StepInstructionReturns
<1>11. CASE ExecContinueReturns
  BY <1>4, <1>5, <1>6, <1>11 DEF ExecContinueReturns, WaitThen
<1>12. CASE StepLineReturns
  <2>1. PICK l, n : \/ Return("SP_ERR")
                    \/ Return("SP_OK")
                    \/ CallStepInstruction(armed, <<StepLine(l, n)>> \o k)
    BY <1>12 DEF StepLineReturns
  <2>2. CASE CallStepInstruction(armed, <<StepLine(l, n)>> \o k)
    <3> DEFINE e == StepLine(l, n)
    <3>1. e.fn # Stepper /\ e.fn \notin Deleters
      BY DEF StepLine, Stepper, Deleters
    <3> HIDE DEF e
    <3>2. /\ Stack(<<e>> \o k) /\ Typed(<<e>> \o k)
          /\ ~last.winched => NoStepper(<<e>> \o k)
      BY <1>3, <3>1, PushFree, PushOther
    <3>3. /\ Typed(ctl')
          /\ ~last.winched => /\ StepperOnTop(ctl')
                              /\ NoStepper(ctl') \/ mode' # "cont"
      BY <2>2, <3>2, CallSteps DEF e
    <3>4. last.cmd = "step" /\ last.cmd \notin Runs
      <4>1. Head(ctl).fn = "single_step_line"
        BY <1>12 DEF StepLineReturns, Returned
      <4>2. 1 \in 1 .. Len(ctl) /\ Head(ctl) = ctl[1]
        BY <1>1, PopIndex DEF IInv
      <4>3. ~NoStepLine(ctl)
        BY <4>1, <4>2 DEF NoStepLine
      <4> QED
        BY <4>3 DEF MInv, Runs
    <3> QED
      BY <1>2, <3>3, <3>4 DEF MInv, SameHistory
  <2> QED
    BY <1>4, <2>1, <2>2
<1>13. CASE RunToReturns
  <2> DEFINE e == CleanUp(Head(ctl).dels)
  <2>1. Head(ctl).fn \in Deleters /\ ctl' = <<Wait>> \o (<<e>> \o k)
    BY <1>13 DEF RunToReturns, Returned, WaitThen, Deleters
  <2>2. k = <<>>
    BY <1>1, <2>1, DeleterAlone
  <2>3. e.fn # Stepper /\ e.fn # "single_step_line" /\ e.fn \in Deleters
    BY DEF CleanUp, Stepper, Deleters
  <2> HIDE DEF e
  <2>4. Stack(<<e>>) /\ <<e>> \o k = <<e>>
    BY <2>2, <2>3, OneDeleter, PushFirst
  <2>5. /\ Typed(<<e>>) /\ NoStepper(<<e>>)
        /\ NoStepLine(ctl) => NoStepLine(<<e>>)
    BY <1>3, <2>2, <2>3, <2>4, PushFree, EmptyFree
  <2>6. ctl' = <<Wait>> \o <<e>>
    BY <2>1, <2>4
  <2>7. /\ Typed(ctl') /\ NoStepper(ctl')
        /\ NoStepLine(ctl) => NoStepLine(ctl')
    BY <1>6, <2>4, <2>5, <2>6, PushFree
  <2> QED
    BY <1>2, <2>7, FreeKeeps
<1>14. CASE CleanUpReturns
  BY <1>4, <1>14 DEF CleanUpReturns
<1>15. CASE RunMainReturns
  <2> DEFINE e == MainReached(Head(ctl).dels)
  <2>1. CASE ctl' = <<Wait>> \o <<e>>
    <3>1. e.fn # Stepper /\ e.fn # "single_step_line" /\ e.fn \in Deleters
      BY DEF MainReached, Stepper, Deleters
    <3> HIDE DEF e
    <3>2. Stack(<<e>>) /\ Stack(<<>>) /\ <<e>> \o <<>> = <<e>>
      BY <3>1, OneDeleter, PushFirst, EmptyStack
    <3>3. Typed(<<e>>) /\ NoStepper(<<e>>) /\ NoStepLine(<<e>>)
      BY <3>1, <3>2, PushFree, EmptyFree
    <3>4. Typed(ctl') /\ NoStepper(ctl') /\ NoStepLine(ctl')
      BY <1>6, <2>1, <3>2, <3>3, PushFree
    <3> QED
      BY <1>2, <3>4, FreeKeeps
  <2> QED
    BY <1>4, <1>15, <2>1 DEF RunMainReturns, WaitThen
<1>16. CASE MainReachedReturns
  BY <1>4, <1>16 DEF MainReachedReturns
<1> QED
  BY <1>7, <1>8, <1>9, <1>10, <1>11, <1>12, <1>13, <1>14, <1>15, <1>16 DEF CallReturns

\* One activation on an empty stack.
LEMMA OneFree ==
  ASSUME NEW e, e.fn # Stepper
  PROVE  /\ Typed(<<e>>) /\ NoStepper(<<e>>)
         /\ e.fn # "single_step_line" => NoStepLine(<<e>>)
BY PushFree, PushFirst, EmptyStack, EmptyFree

LEMMA RunDebuggerSteps ==
  ASSUME IInv, MInv, RunDebugger
  PROVE  MInv'
<1>1. ctl = <<>> /\ phase = "setup" /\ last' = last /\ last.cmd = "none"
  BY DEF RunDebugger, Untouched, MInv
<1>2. SameHistory
  BY <1>1 DEF SameHistory
<1>3. CASE ctl' = ctl
  BY <1>1, <1>2, <1>3, EmptyFree, FreeKeeps
<1>4. ASSUME NEW A, NEW d, CallContinue(A, <<RunMain(d)>>) PROVE MInv'
  <2> DEFINE e == RunMain(d)
  <2>1. e.fn # Stepper /\ e.fn # "single_step_line" /\ e.fn \in Deleters
    BY DEF RunMain, Stepper, Deleters
  <2> HIDE DEF e
  <2>2. Stack(<<e>>) /\ Typed(<<e>>) /\ NoStepper(<<e>>) /\ NoStepLine(<<e>>)
    BY <2>1, OneDeleter, OneFree
  <2>3. /\ Typed(ctl') /\ NoStepLine(ctl') /\ StepperOnTop(ctl')
        /\ NoStepper(ctl') \/ mode' # "cont"
    BY <1>4, <2>2, CallSteps DEF e
  <2>4. last.cmd \notin Runs
    BY <1>1 DEF Runs
  <2> QED
    BY <1>2, <2>3, <2>4 DEF MInv, SameHistory
<1> QED
  BY <1>3, <1>4 DEF RunDebugger

\* A command that runs the process issues itself with no step taken.
LEMMA IssuedSteps ==
  ASSUME NEW cmd, NEW told, Issued(cmd, told), phase' # "setup",
         Typed(ctl'), NoStepLine(ctl') \/ cmd = "step", StepperOnTop(ctl'),
         NoStepper(ctl') \/ mode' # "cont"
  PROVE  MInv'
<1>1. /\ {"cmd", "steps", "winched"} \subseteq DOMAIN last'
      /\ last'.cmd = cmd /\ last'.steps = 0
  BY DEF Issued
<1> QED
  BY <1>1 DEF MInv

\* It calls continue_execution or single_step_instruction from e.
LEMMA IssuedCallSteps ==
  ASSUME NEW cmd, NEW told, Issued(cmd, told), phase' # "setup",
         NEW A, NEW k, Stack(k), Typed(k), NoStepper(k),
         NoStepLine(k) \/ cmd = "step",
         CallContinue(A, k) \/ CallStepInstruction(A, k)
  PROVE  MInv'
BY CallSteps, IssuedSteps

LEMMA AloneStack ==
  ASSUME NEW e
  PROVE  Stack(<<e>>)
<1>1. CASE e.fn \in Deleters
  BY <1>1, OneDeleter
<1>2. CASE e.fn = Stepper
  <2>1. <<e>> \in Seq({e}) /\ Len(<<e>>) = 1 /\ <<e>>[1] = e
    OBVIOUS
  <2>2. <<e>> \in Seq(Range(<<e>>))
    BY <2>1, StackSeq
  <2> QED
    BY <2>1, <2>2 DEF Stack
<1>3. CASE e.fn \notin Deleters /\ e.fn # Stepper
  BY <1>3, PushOther, PushFirst, EmptyStack
<1> QED
  BY <1>1, <1>2, <1>3

LEMMA CommandSteps ==
  ASSUME IInv, MInv, Command
  PROVE  MInv'
<1>1. AtPrompt /\ ctl = <<>> /\ phase = "repl" /\ phase' # "setup"
  BY DEF Command, Break, Delete, ContinueCommand, InstCommand, LeaveCommand,
         StepCommand, NextCommand, Quit, AtPrompt
<1>2. ASSUME last' = last, ctl' = ctl PROVE MInv'
  BY <1>1, <1>2, EmptyFree, FreeKeeps DEF SameHistory
<1>3. ASSUME NEW cmd, NEW told, Issued(cmd, told), ctl' = ctl PROVE MInv'
  BY <1>1, <1>3, EmptyFree, FreeOnTop, IssuedSteps
<1>4. CASE (\E loc \in Locations : Break(loc) \/ Delete(loc)) \/ Quit
  BY <1>2, <1>4 DEF Break, Delete, Quit
<1>5. CASE ContinueCommand
  <2> DEFINE e == ExecContinue
  <2>1. e.fn # Stepper /\ e.fn # "single_step_line"
    BY DEF ExecContinue, Stepper
  <2>2. Issued("continue", {}) /\ CallContinue(armed, <<e>>)
    BY <1>5 DEF ContinueCommand
  <2> HIDE DEF e
  <2> QED
    BY <1>1, <2>1, <2>2, AloneStack, OneFree, IssuedCallSteps
<1>6. CASE InstCommand
  <2>1. Issued("inst", {}) /\ CallStepInstruction(armed, <<>>)
    BY <1>6 DEF InstCommand
  <2> QED
    BY <1>1, <2>1, EmptyStack, EmptyFree, IssuedCallSteps
<1>7. CASE LeaveCommand
  <2> DEFINE e == RunTo({ReturnAddress} \ armed)
  <2>1. e.fn # Stepper /\ e.fn # "single_step_line"
    BY DEF RunTo, Stepper
  <2>2. /\ Issued("leave", {ReturnAddress})
        /\ ctl' = ctl \/ CallContinue(Enabled(armed, {ReturnAddress}), <<e>>)
    BY <1>7 DEF LeaveCommand
  <2> HIDE DEF e
  <2> QED
    BY <1>1, <1>3, <2>1, <2>2, AloneStack, OneFree, IssuedCallSteps
<1>8. CASE StepCommand
  <2> DEFINE e == StepLine(CurrentPosition.ln, 0)
  <2>1. e.fn # Stepper
    BY DEF StepLine, Stepper
  <2>2. /\ Issued("step", {})
        /\ ctl' = ctl \/ CallStepInstruction(armed, <<e>>)
    BY <1>8 DEF StepCommand, Refuse
  <2> HIDE DEF e
  <2> QED
    BY <1>1, <1>3, <2>1, <2>2, AloneStack, OneFree, IssuedCallSteps
<1>9. CASE NextCommand
  <2>1. PICK A, d, told : /\ Issued("next", told)
                          /\ ctl' = ctl \/ CallContinue(A, <<RunTo(d)>>)
    BY <1>9 DEF NextCommand, Refuse
  <2> DEFINE e == RunTo(d)
  <2>2. e.fn # Stepper /\ e.fn # "single_step_line"
    BY DEF RunTo, Stepper
  <2> HIDE DEF e
  <2>3. Issued("next", told) /\ (ctl' = ctl \/ CallContinue(A, <<e>>))
    BY <2>1 DEF e
  <2> QED
    BY <1>1, <1>3, <2>2, <2>3, AloneStack, OneFree, IssuedCallSteps
<1> QED
  BY <1>4, <1>5, <1>6, <1>7, <1>8, <1>9 DEF Command

\* What the process does is bounded by how it was set running: a single step
\* stops it again.
LEMMA ProcessSteps ==
  ASSUME IInv, MInv, TraceeRuns \/ OthersSignal \/ Terminated \/ UNCHANGED vars
  PROVE  MInv'
<1>1. ctl' = ctl /\ phase' = phase
  BY DEF TraceeRuns, TraceeStops, TraceeExecutes, OthersSignal, Terminated, vars, debuggerVars
<1>2. ASSUME last' = last, mode' = mode \/ mode' \notin {"cont", "step"} PROVE MInv'
  BY <1>1, <1>2 DEF MInv
<1>3. CASE TraceeStops
  BY <1>2, <1>3 DEF TraceeStops, SignalStop, TrapStop, debuggerVars
<1>4. CASE TraceeExecutes
  <2>1. /\ mode \in {"cont", "step"}
        /\ mode' \notin {"cont", "step"} \/ (mode = "cont" /\ mode' = "cont")
    BY <1>4 DEF TraceeExecutes, Execute, Running
  <2>2. /\ {"cmd", "steps", "winched"} \subseteq DOMAIN last'
        /\ last'.cmd = last.cmd /\ last'.winched = last.winched
    <3>1. PICK n : last' = [last EXCEPT !.steps = n]
      BY <1>4 DEF TraceeExecutes
    <3> QED
      BY <3>1 DEF MInv
  <2> QED
    BY <1>1, <2>1, <2>2 DEF MInv
<1>5. CASE OthersSignal
  BY <1>2, <1>5 DEF OthersSignal, Signal, Kill, debuggerVars
<1>6. CASE Terminated \/ UNCHANGED vars
  BY <1>2, <1>6 DEF Terminated, vars, traceeVars, debuggerVars
<1> QED
  BY <1>3, <1>4, <1>5, <1>6 DEF TraceeRuns

\* The instruction at a breakpoint of the user that is not armed.
LEMMA MissedIsHeld ==
  ASSUME IInv, MInv, TraceeExecutes, cpu.pc \in user,
         mode = "cont" \/ (last.cmd \in Runs /\ last.steps > 0)
  PROVE  last.winched /\ StepBreakpoint(cpu.pc) \in Range(ctl)
<1>1. /\ Session /\ Alive /\ cpu.pc \notin armed
      /\ mode \in {"cont", "step"}
  BY DEF TraceeExecutes, Execute, Running, Alive
<1>2. cpu.pc \in Steps(ctl)
  BY <1>1 DEF IInv, Balanced
<1>3. PICK x \in Range(ctl) : x.fn = Stepper /\ x.addr = cpu.pc
  BY <1>2 DEF Steps
<1>4. PICK i \in 1 .. Len(ctl) : x = ctl[i]
  BY StackSeq DEF IInv, Stack
<1>5. StepBreakpoint(cpu.pc) \in Range(ctl)
  BY <1>3, <1>4 DEF MInv, Typed
<1>6. ~NoStepper(ctl)
  BY <1>3, <1>4 DEF NoStepper
<1>7. last.steps # 0 \/ mode = "cont"
  OBVIOUS
<1> QED
  BY <1>1, <1>5, <1>6, <1>7 DEF MInv

-----------------------------------------------------------------------------
(* Only SIGWINCH makes the process miss a breakpoint. *)

\* Without SIGWINCH an activation of single_step_breakpoint is innermost but
\* for its wait, and the process runs its one instruction only.
THEOREM SteppingStaysOnTop == Spec => []MInv
<1>1. Init => MInv
  BY EmptyFree, FreeOnTop DEF Init, TraceeInit, DebuggerInit, MInv
<1>2. IInv /\ MInv /\ [Next]_vars => MInv'
  BY RunDebuggerSteps, WaitForSignalSteps, CallReturnsSteps, CommandSteps, ProcessSteps
  DEF Next, DebuggerWorks
<1> QED
  BY <1>1, <1>2, BreakpointsAccountedFor, PTL DEF Spec

\* The process runs through a breakpoint of the user, other than the one it
\* starts from, only when a SIGWINCH came while it was disabled to be stepped
\* over: in any program and any order of signals (wait_for_signal,
\* single_step_breakpoint).
THEOREM OnlyWinchMisses == Spec => MissedOnlyInWinch
<1>1. IInv /\ MInv /\ [Next]_vars =>
        [/\ TraceeExecutes
         /\ cpu.pc \in user
         /\ mode = "cont" \/ (last.cmd \in Runs /\ last.steps > 0)
         => last.winched /\ StepBreakpoint(cpu.pc) \in Range(ctl)]_vars
  BY MissedIsHeld
<1> QED
  BY <1>1, BreakpointsAccountedFor, SteppingStaysOnTop, PTL DEF Spec, MissedOnlyInWinch

-----------------------------------------------------------------------------
(* Where the process is. *)

\* The functions that wait after they have called continue_execution.
Listeners ==
  {"wait_for_signal_winch", "exec_continue", "step_over_run", "run_debugger_run"}

\* Nobody else calls it.
Based(k) ==
  \A i \in 1 .. Len(k) :
    k[i].fn = "continue_execution" => i + 1 \in 1 .. Len(k) /\ k[i + 1].fn \in Listeners

\* The next thing the debugger does is to wait.
Listening ==
  /\ ctl # <<>>
  /\ Head(ctl) = Wait \/ (Head(ctl).fn \in Listeners /\ ret = "SP_OK")

\* Where the program counter is, up to the trap that has just been executed.
PcFollows ==
  /\ event # "trap" => cpu.pc = flow
  /\ event = "trap" => \/ cpu.pc - 1 \in armed /\ cpu.pc - 1 = flow
                       \/ cpu.pc - 1 \notin armed /\ cpu.pc = flow

PInv ==
  /\ prog \in Programs /\ "pc" \in DOMAIN cpu
  /\ "odd" \in DOMAIN last /\ last.odd \in BOOLEAN
  /\ pending \subseteq {"winch", "other"}
  /\ Based(ctl)
  /\ Running => event = "none"
  /\ Session /\ Alive => (mode = "stopped" /\ event = "none") \/ Listening
  /\ Alive /\ ~last.odd => PcFollows

-----------------------------------------------------------------------------
(* The call stacks of who continues the process. *)

LEMMA EmptyBased == Based(<<>>)
BY DEF Based

\* A call of anything but continue_execution, and one of it by a listener.
LEMMA PushBased ==
  ASSUME NEW k, Stack(k), Based(k), NEW e,
         e.fn = "continue_execution" => k # <<>> /\ Head(k).fn \in Listeners
  PROVE  Based(<<e>> \o k)
<1> DEFINE s == <<e>> \o k
<1>1. /\ Len(s) = Len(k) + 1 /\ s[1] = e /\ Len(k) \in Nat
      /\ \A i \in 1 .. Len(k) : s[i + 1] = k[i]
  BY PushSeq
<1>2. ASSUME NEW i \in 1 .. Len(s)
      PROVE  \/ i = 1 /\ s[i] = e
             \/ i # 1 /\ i - 1 \in 1 .. Len(k) /\ s[i] = k[i - 1]
  BY <1>2, PushIndex
<1>3. k # <<>> => Len(k) \in Nat \ {0} /\ Head(k) = k[1]
  BY PopIndex
<1> HIDE DEF s
<1>4. ASSUME NEW i \in 1 .. Len(s), s[i].fn = "continue_execution"
      PROVE  i + 1 \in 1 .. Len(s) /\ s[i + 1].fn \in Listeners
  <2>1. CASE i = 1
    <3>1. s[i] = e
      BY <1>2, <2>1
    <3>2. 1 \in 1 .. Len(k) /\ k[1].fn \in Listeners
      BY <1>3, <1>4, <3>1
    <3>3. s[1 + 1] = k[1]
      BY <1>1, <3>2
    <3> QED
      BY <1>1, <2>1, <3>2, <3>3
  <2>2. CASE i # 1
    <3>1. i - 1 \in 1 .. Len(k) /\ k[i - 1].fn = "continue_execution"
      BY <1>2, <1>4, <2>2
    <3>2. (i - 1) + 1 \in 1 .. Len(k) /\ k[(i - 1) + 1].fn \in Listeners
      BY <3>1 DEF Based
    <3>3. i \in 1 .. Len(k) /\ k[i].fn \in Listeners
      BY <3>2
    <3> QED
      BY <1>1, <3>3
  <2> QED
    BY <2>1, <2>2
<1> QED
  BY <1>4 DEF Based, s

\* A return.
LEMMA PopBased ==
  ASSUME NEW k, Stack(k), Based(k), k # <<>>
  PROVE  /\ Based(Tail(k))
         /\ Head(k).fn = "continue_execution" =>
              Tail(k) # <<>> /\ Head(Tail(k)).fn \in Listeners
<1> DEFINE t == Tail(k)
<1>1. /\ Len(k) \in Nat \ {0} /\ Len(t) = Len(k) - 1 /\ Head(k) = k[1]
      /\ \A i \in 1 .. Len(t) : i + 1 \in 1 .. Len(k) /\ t[i] = k[i + 1]
  BY PopIndex
<1>2. Stack(t)
  BY Pop
<1>3. t # <<>> => Head(t) = t[1]
  BY <1>2, PopIndex
<1> HIDE DEF t
<1>4. Len(t) # 0 => t # <<>>
  BY EmptySeq
<1>5. ASSUME NEW i \in 1 .. Len(t), t[i].fn = "continue_execution"
      PROVE  i + 1 \in 1 .. Len(t) /\ t[i + 1].fn \in Listeners
  <2>1. i + 1 \in 1 .. Len(k) /\ k[i + 1].fn = "continue_execution"
    BY <1>1, <1>5
  <2>2. (i + 1) + 1 \in 1 .. Len(k) /\ k[(i + 1) + 1].fn \in Listeners
    BY <2>1 DEF Based
  <2>3. i + 1 \in 1 .. Len(t)
    BY <1>1, <2>2
  <2> QED
    BY <1>1, <2>2, <2>3
<1>6. ASSUME Head(k).fn = "continue_execution"
      PROVE  t # <<>> /\ Head(t).fn \in Listeners
  <2>1. 1 \in 1 .. Len(k) /\ k[1].fn = "continue_execution"
    BY <1>1, <1>6
  <2>2. 1 + 1 \in 1 .. Len(k) /\ k[1 + 1].fn \in Listeners
    BY <2>1 DEF Based
  <2>3. 1 \in 1 .. Len(t) /\ t[1] = k[1 + 1]
    BY <1>1, <2>2
  <2> QED
    BY <1>1, <1>3, <1>4, <2>2, <2>3
<1> QED
  BY <1>5, <1>6 DEF t, Based

-----------------------------------------------------------------------------
(* Calls: with nothing to report before, somebody waits afterwards. *)

\* What a call leaves behind, where the process lives.
Called ==
  /\ Based(ctl)'
  /\ Alive => mode' \in {"cont", "step"} /\ Listening'
  /\ ~Alive => mode' = mode

LEMMA CallPtContinueListens ==
  ASSUME NEW A, NEW k, Stack(k), Based(k), k # <<>>, Head(k).fn \in Listeners,
         CallPtContinue(A, k)
  PROVE  Called
BY DEF Called, CallPtContinue, PtContinue, Alive, Listening

LEMMA CallStepBreakpointListens ==
  ASSUME NEW A, NEW k, Stack(k), Based(k), CallStepBreakpoint(A, k)
  PROVE  Called
<1> DEFINE t == <<StepBreakpoint(GetPc)>> \o k
<1>1. ctl' = <<Wait>> \o t /\ Stack(t)
  BY PushTwo, PushStep DEF CallStepBreakpoint
<1>2. StepBreakpoint(GetPc).fn # "continue_execution" /\ Wait.fn # "continue_execution"
  BY DEF StepBreakpoint, Wait
<1>3. Based(t)
  BY <1>2, PushBased
<1> HIDE DEF t
<1>4. Based(ctl')
  BY <1>1, <1>2, <1>3, PushBased
<1>5. Wait.fn \notin Deleters /\ Wait.fn # Stepper
  BY DEF Wait, Deleters, Stepper
<1>6. Stack(ctl') /\ ctl'[1] = Wait /\ Len(ctl') # 0
  BY <1>1, <1>5, PushOther, PushSeq
<1>7. ctl' # <<>> /\ Head(ctl') = Wait
  BY <1>6, PopIndex
<1> QED
  BY <1>4, <1>7 DEF Called, CallStepBreakpoint, PtSingleStep, Alive, Listening

LEMMA CallContinueListens ==
  ASSUME NEW A, NEW k, Stack(k), Based(k), k # <<>>, Head(k).fn \in Listeners,
         CallContinue(A, k)
  PROVE  Called
<1>1. CASE CallStepBreakpoint(A, <<Continue>> \o k)
  <2>1. Stack(<<Continue>> \o k)
    BY PushOther DEF Continue, Deleters, Stepper
  <2>2. Based(<<Continue>> \o k)
    BY PushBased
  <2> QED
    BY <1>1, <2>1, <2>2, CallStepBreakpointListens
<1>2. CASE CallPtContinue(A, k)
  BY <1>2, CallPtContinueListens
<1> QED
  BY <1>1, <1>2 DEF CallContinue

LEMMA WaitOnTop ==
  ASSUME NEW k, Stack(k), Based(k)
  PROVE  /\ Based(<<Wait>> \o k) /\ <<Wait>> \o k # <<>> /\ Head(<<Wait>> \o k) = Wait
<1>1. Wait.fn \notin Deleters /\ Wait.fn # Stepper /\ Wait.fn # "continue_execution"
  BY DEF Wait, Deleters, Stepper
<1>2. /\ Stack(<<Wait>> \o k) /\ (<<Wait>> \o k)[1] = Wait /\ Len(<<Wait>> \o k) # 0
  BY <1>1, PushOther, PushSeq
<1> QED
  BY <1>1, <1>2, PushBased, PopIndex

LEMMA CallStepInstructionListens ==
  ASSUME NEW A, NEW k, Stack(k), Based(k), CallStepInstruction(A, k)
  PROVE  Called
<1>1. CASE CallStepBreakpoint(A, <<StepInstruction>> \o k)
  <2>1. Stack(<<StepInstruction>> \o k)
    BY PushOther DEF StepInstruction, Deleters, Stepper
  <2>2. Based(<<StepInstruction>> \o k)
    BY PushBased DEF StepInstruction
  <2> QED
    BY <1>1, <2>1, <2>2, CallStepBreakpointListens
<1>2. CASE PtSingleStep /\ ctl' = <<Wait>> \o k
  BY <1>2, WaitOnTop DEF Called, PtSingleStep, Alive, Listening
<1> QED
  BY <1>1, <1>2 DEF CallStepInstruction

-----------------------------------------------------------------------------
(* The three ways in which a step of the debugger preserves the invariant. *)

\* What the debugger keeps of the process, and of the history.
ProcessKept == UNCHANGED <<prog, cpu, pending, flow>>
OddKept == "odd" \in DOMAIN last' /\ last'.odd = last.odd

\* The process is stopped and has nothing to report.
Calm == Alive => mode = "stopped" /\ event = "none"

\* It sets the process running, and waits next.
LEMMA CalledKeeps ==
  ASSUME PInv, Called, ProcessKept, OddKept, event' = "none",
         Alive /\ ~last.odd => cpu.pc = flow
  PROVE  PInv'
<1>1. Alive' => Alive
  BY DEF Called, Alive
<1>2. Based(ctl')
  BY DEF Called
<1>3. Alive' => Listening'
  BY <1>1 DEF Called
<1>4. Alive' /\ ~last'.odd => PcFollows'
  BY <1>1 DEF ProcessKept, OddKept, PcFollows
<1> QED
  BY <1>2, <1>3, <1>4 DEF PInv, ProcessKept, OddKept

\* It leaves a stopped process alone, whatever breakpoints it changes.
LEMMA CalmKeeps ==
  ASSUME PInv, Calm, ProcessKept, OddKept, UNCHANGED <<mode, event>>, Based(ctl')
  PROVE  PInv'
<1>1. Alive' <=> Alive
  BY DEF Alive
<1>2. Running' <=> Running
  BY DEF Running
<1>3. Alive' => mode' = "stopped" /\ event' = "none"
  BY <1>1 DEF Calm
<1>4. Alive' /\ ~last'.odd => PcFollows'
  BY <1>1, <1>3 DEF Calm, PInv, ProcessKept, OddKept, PcFollows
<1> QED
  BY <1>2, <1>3, <1>4 DEF PInv, ProcessKept, OddKept

\* It goes on to wait.
LEMMA ListenKeeps ==
  ASSUME PInv, ProcessKept, OddKept, UNCHANGED <<mode, event, armed>>,
         NEW k, Stack(k), Based(k), ctl' = <<Wait>> \o k
  PROVE  PInv'
<1>1. Based(ctl') /\ ctl' # <<>> /\ Head(ctl') = Wait
  BY WaitOnTop
<1>2. Listening'
  BY <1>1 DEF Listening
<1>3. (Alive' <=> Alive) /\ (Running' <=> Running)
  BY DEF Alive, Running
<1>4. Alive' /\ ~last'.odd => PcFollows'
  BY <1>3 DEF PInv, ProcessKept, OddKept, PcFollows
<1> QED
  BY <1>1, <1>2, <1>3, <1>4 DEF PInv, ProcessKept, OddKept

\* The process is dead.
LEMMA DeadKeeps ==
  ASSUME PInv, ProcessKept, OddKept, Based(ctl'), ~Alive'
  PROVE  PInv'
<1>1. ~Running'
  BY DEF Alive, Running
<1> QED
  BY <1>1 DEF PInv, ProcessKept, OddKept

-----------------------------------------------------------------------------
(* wait_for_signal *)

LEMMA WaitForSignalPc ==
  ASSUME IInv, PInv, WaitForSignal
  PROVE  PInv'
<1>1. Waiting
  BY DEF WaitForSignal, WaitDeath, WaitSigtrap, WaitOther, WaitWinch, WaitKilled, WaitNobody
<1>2. /\ ctl # <<>> /\ Stack(ctl) /\ Stack(Tail(ctl)) /\ Based(Tail(ctl))
      /\ "odd" \in DOMAIN last
  BY <1>1, Pop, PopBased DEF Waiting, IInv, PInv
<1>3. CASE WaitDeath \/ WaitKilled \/ WaitNobody
  <2>1. ctl' = Tail(ctl) /\ ~Alive' /\ ProcessKept /\ last' = last
    BY <1>3 DEF WaitDeath, WaitKilled, WaitNobody, Return, Alive, traceeVars, ProcessKept
  <2> QED
    BY <1>2, <2>1, DeadKeeps DEF OddKept
<1>4. CASE WaitSigtrap
  <2>1. /\ event \in {"trap", "step", "syscall_step"} /\ event' = "none"
        /\ cpu' = [cpu EXCEPT !.pc = RewoundPc]
        /\ ctl' = Tail(ctl)
        /\ UNCHANGED <<prog, mode, pending, armed, flow>>
    BY <1>4 DEF WaitSigtrap, Return
  <2>2. last' = [last EXCEPT !.odd =
                   @ \/ event = "syscall_step" \/ (event = "trap" /\ cpu.pc - 1 \notin armed)]
    BY <1>4 DEF WaitSigtrap
  <2> DEFINE o == last.odd \/ event = "syscall_step"
                    \/ (event = "trap" /\ cpu.pc - 1 \notin armed)
  <2>3. "odd" \in DOMAIN last' /\ last'.odd = o
    BY <1>2, <2>2
  <2>4. o \in BOOLEAN
    BY DEF PInv
  <2>5. "pc" \in DOMAIN cpu' /\ cpu'.pc = RewoundPc
    BY <2>1 DEF PInv
  <2>6. ~Running /\ ~Running' /\ (Alive' <=> Alive) /\ (Alive => mode' = "stopped")
    BY <2>1 DEF PInv, Running, Alive
  <2>7. ASSUME Alive, ~o PROVE cpu'.pc = flow'
    <3>1. PcFollows /\ event # "syscall_step" /\ (event = "trap" => cpu.pc - 1 \in armed)
      BY <2>7 DEF PInv
    <3> QED
      BY <2>1, <2>5, <3>1 DEF PcFollows, RewoundPc
  <2> HIDE DEF o
  <2>8. Alive' /\ ~last'.odd => PcFollows'
    BY <2>1, <2>3, <2>6, <2>7 DEF PcFollows
  <2> QED
    BY <1>2, <2>1, <2>3, <2>4, <2>5, <2>6, <2>8 DEF PInv
<1>5. CASE WaitOther
  <2>1. /\ event = "other" /\ event' = "none" /\ ctl' = Tail(ctl)
        /\ UNCHANGED mode /\ ProcessKept
        /\ last' = [last EXCEPT !.signalled = TRUE]
    BY <1>5 DEF WaitOther, Return, ProcessKept
  <2>2. OddKept
    BY <1>2, <2>1 DEF OddKept
  <2>3. ~Running /\ ~Running' /\ (Alive' <=> Alive) /\ (Alive => mode' = "stopped")
    BY <2>1 DEF PInv, Running, Alive
  <2>4. Alive' /\ ~last'.odd => PcFollows'
    BY <2>1, <2>2, <2>3 DEF PInv, ProcessKept, OddKept, PcFollows
  <2> QED
    BY <1>2, <2>1, <2>2, <2>3, <2>4 DEF PInv, ProcessKept, OddKept
<1>6. CASE WaitWinch
  <2>1. /\ event = "winch" /\ event' = "none" /\ ProcessKept
        /\ last' = [last EXCEPT !.winched = TRUE]
        /\ CallContinue(armed, <<Winch>> \o Tail(ctl))
    BY <1>6 DEF WaitWinch, ProcessKept
  <2>2. OddKept
    BY <1>2, <2>1 DEF OddKept
  <2>3. /\ Winch.fn \notin Deleters /\ Winch.fn # Stepper /\ Winch.fn # "continue_execution"
        /\ Winch.fn \in Listeners
    BY DEF Winch, Deleters, Stepper, Listeners
  <2> DEFINE k == <<Winch>> \o Tail(ctl)
  <2>4. Stack(k) /\ Based(k) /\ k[1] = Winch /\ Len(k) # 0
    BY <1>2, <2>3, PushOther, PushBased, PushSeq
  <2> HIDE DEF k
  <2>5. k # <<>> /\ Head(k) = Winch
    BY <2>4, PopIndex
  <2>6. Called
    BY <2>1, <2>3, <2>4, <2>5, CallContinueListens DEF k
  <2>7. Alive /\ ~last.odd => cpu.pc = flow
    BY <2>1 DEF PInv, PcFollows
  <2> QED
    BY <2>1, <2>2, <2>6, <2>7, CalledKeeps
<1> QED
  BY <1>3, <1>4, <1>5, <1>6 DEF WaitForSignal

-----------------------------------------------------------------------------
(* The returns. *)

\* Unless it is about to wait, a function goes on in a calm process.
LEMMA CalmUnlessListening ==
  ASSUME PInv, Session, ~Listening
  PROVE  Calm
BY DEF PInv, Calm

LEMMA CallReturnsPc ==
  ASSUME IInv, PInv, CallReturns
  PROVE  PInv'
<1> DEFINE k == Tail(ctl)
<1>1. /\ ctl # <<>> /\ Head(ctl).fn # "wait_for_signal"
      /\ UNCHANGED event /\ ProcessKept /\ last' = last
  BY DEF CallReturns, WinchReturns, StepBreakpointReturns, ContinueReturns,
     StepInstructionReturns, ExecContinueReturns, StepLineReturns, RunToReturns,
     CleanUpReturns, RunMainReturns, MainReachedReturns, Returned, Untouched, ProcessKept
<1>2. /\ Stack(k) /\ Based(k) /\ OddKept
      /\ Head(ctl).fn = "continue_execution" => k # <<>> /\ Head(k).fn \in Listeners
  BY <1>1, Pop, PopBased DEF IInv, PInv, OddKept
<1>3. Session
  BY <1>1, InsideCommand
<1>4. Head(ctl) # Wait
  BY <1>1 DEF Wait
<1>5. Head(ctl).fn \notin Listeners \/ ret # "SP_OK" => Calm
  BY <1>3, <1>4, CalmUnlessListening DEF Listening
<1>6. ASSUME Calm, Called PROVE PInv'
  <2>1. Alive /\ ~last.odd => cpu.pc = flow
    BY <1>6 DEF PInv, PcFollows, Calm
  <2>2. CASE Alive
    BY <1>1, <1>2, <1>6, <2>1, <2>2, CalledKeeps DEF Calm
  <2>3. CASE ~Alive
    <3>1. ~Alive' /\ Based(ctl')
      BY <1>6, <2>3 DEF Called, Alive
    <3> QED
      BY <1>1, <1>2, <3>1, DeadKeeps
  <2> QED
    BY <2>2, <2>3
<1>7. ASSUME Calm, NEW r, Return(r), UNCHANGED mode PROVE PInv'
  <2>1. ctl' = k
    BY <1>7 DEF Return
  <2> QED
    BY <1>1, <1>2, <1>7, <2>1, CalmKeeps
<1>8. ASSUME NEW t, Stack(t), Based(t), WaitThen(t) PROVE PInv'
  BY <1>1, <1>2, <1>8, ListenKeeps DEF WaitThen
<1>9. CASE WinchReturns
  BY <1>2, <1>8, <1>9 DEF WinchReturns
<1>10. CASE StepBreakpointReturns
  <2>1. Calm /\ Return(ret) /\ UNCHANGED mode
    BY <1>5, <1>10 DEF StepBreakpointReturns, Returned, Listeners
  <2> QED
    BY <1>7, <2>1
<1>11. CASE ContinueReturns
  <2>1. /\ Calm /\ CallPtContinue(armed, k)
        /\ k # <<>> /\ Head(k).fn \in Listeners
    BY <1>2, <1>5, <1>11 DEF ContinueReturns, Returned, Listeners
  <2> QED
    BY <1>2, <1>6, <2>1, CallPtContinueListens
<1>12. CASE StepInstructionReturns
  <2>1. Calm /\ Return("SP_OK") /\ UNCHANGED mode
    BY <1>5, <1>12 DEF StepInstructionReturns, Returned, Listeners
  <2> QED
    BY <1>7, <2>1
<1>13. CASE ExecContinueReturns
  <2>1. CASE ret = "SP_ERR" /\ Return(ret) /\ UNCHANGED mode
    BY <1>5, <1>7, <2>1
  <2> QED
    BY <1>2, <1>8, <1>13, <2>1 DEF ExecContinueReturns
<1>14. CASE StepLineReturns
  <2>1. Calm
    BY <1>5, <1>14 DEF StepLineReturns, Returned, Listeners
  <2>2. PICK l, n : \/ Return("SP_ERR") /\ UNCHANGED mode
                    \/ Return("SP_OK") /\ UNCHANGED mode
                    \/ CallStepInstruction(armed, <<StepLine(l, n)>> \o k)
    BY <1>14 DEF StepLineReturns
  <2>3. CASE CallStepInstruction(armed, <<StepLine(l, n)>> \o k)
    <3>1. Stack(<<StepLine(l, n)>> \o k)
      BY <1>2, PushOther DEF StepLine, Deleters, Stepper
    <3>2. Based(<<StepLine(l, n)>> \o k)
      BY <1>2, PushBased DEF StepLine
    <3> QED
      BY <1>6, <2>1, <2>3, <3>1, <3>2, CallStepInstructionListens
  <2> QED
    BY <1>7, <2>1, <2>2, <2>3
<1>15. CASE RunToReturns
  <2> DEFINE e == CleanUp(Head(ctl).dels)
  <2>1. Head(ctl).fn \in Deleters /\ WaitThen(<<e>> \o k)
    BY <1>15 DEF RunToReturns, Returned, Deleters
  <2>2. e.fn \in Deleters /\ e.fn # "continue_execution"
    BY DEF CleanUp, Deleters
  <2> HIDE DEF e
  <2>3. <<e>> \o k = <<e>> /\ Stack(<<e>>)
    BY <1>1, <2>1, <2>2, DeleterAlone, PushFirst, OneDeleter
  <2>4. Based(<<e>> \o k)
    BY <1>2, <2>2, PushBased
  <2> QED
    BY <1>8, <2>1, <2>3, <2>4
<1>16. CASE CleanUpReturns
  <2>1. Calm /\ Return(ret) /\ UNCHANGED mode
    BY <1>5, <1>16 DEF CleanUpReturns, Returned, Listeners
  <2> QED
    BY <1>7, <2>1
<1>17. CASE RunMainReturns
  <2> DEFINE e == MainReached(Head(ctl).dels)
  <2>1. e.fn \in Deleters /\ e.fn # "continue_execution"
    BY DEF MainReached, Deleters
  <2>2. CASE ret = "SP_ERR" /\ Return(ret) /\ UNCHANGED mode
    BY <1>5, <1>7, <2>2
  <2>3. CASE WaitThen(<<e>>)
    <3> HIDE DEF e
    <3>1. Stack(<<e>>) /\ <<e>> \o <<>> = <<e>> /\ Based(<<e>> \o <<>>)
      BY <2>1, OneDeleter, PushFirst, PushBased, EmptyStack, EmptyBased
    <3> QED
      BY <1>8, <2>3, <3>1
  <2> QED
    BY <1>17, <2>2, <2>3 DEF RunMainReturns
<1>18. CASE MainReachedReturns
  <2>1. Calm /\ Return(ret) /\ UNCHANGED mode
    BY <1>5, <1>18 DEF MainReachedReturns, Returned, Listeners
  <2> QED
    BY <1>7, <2>1
<1> QED
  BY <1>9, <1>10, <1>11, <1>12, <1>13, <1>14, <1>15, <1>16, <1>17, <1>18 DEF CallReturns

-----------------------------------------------------------------------------
(* The start, the commands and the process. *)

\* On an empty stack nobody listens.
LEMMA PromptCalm ==
  ASSUME PInv, Session, ctl = <<>>
  PROVE  Calm
BY CalmUnlessListening DEF Listening

LEMMA CalmCalled ==
  ASSUME PInv, Calm, Called, ProcessKept, OddKept, UNCHANGED event
  PROVE  PInv'
<1>1. CASE Alive
  BY <1>1, CalledKeeps DEF Calm, PInv, PcFollows
<1>2. CASE ~Alive
  <2>1. ~Alive' /\ Based(ctl')
    BY <1>2 DEF Called, Alive
  <2> QED
    BY <2>1, DeadKeeps
<1> QED
  BY <1>1, <1>2

\* An activation on an empty stack.
LEMMA OneListener ==
  ASSUME NEW e, e.fn # "continue_execution", e.fn # Stepper
  PROVE  /\ Stack(<<e>>) /\ Based(<<e>>) /\ <<e>> # <<>> /\ Head(<<e>>) = e
<1>1. Stack(<<e>>)
  <2>1. CASE e.fn \in Deleters
    BY <2>1, OneDeleter
  <2>2. CASE e.fn \notin Deleters
    BY <2>2, PushOther, PushFirst, EmptyStack
  <2> QED
    BY <2>1, <2>2
<1>2. Based(<<e>>)
  BY PushBased, PushFirst, EmptyStack, EmptyBased
<1> QED
  BY <1>1, <1>2

LEMMA RunDebuggerPc ==
  ASSUME IInv, PInv, RunDebugger
  PROVE  PInv'
<1>1. /\ ctl = <<>> /\ Session /\ last' = last /\ ProcessKept /\ UNCHANGED event
  BY DEF RunDebugger, Session, Untouched, ProcessKept
<1>2. Calm /\ OddKept
  BY <1>1, PromptCalm DEF PInv, OddKept
<1>3. CASE UNCHANGED <<mode, ctl>>
  BY <1>1, <1>2, <1>3, CalmKeeps, EmptyBased
<1>4. ASSUME NEW A, NEW d, CallContinue(A, <<RunMain(d)>>) PROVE PInv'
  <2> DEFINE e == RunMain(d)
  <2>1. e.fn # "continue_execution" /\ e.fn # Stepper /\ e.fn \in Listeners
    BY DEF RunMain, Stepper, Listeners
  <2> HIDE DEF e
  <2>2. Called
    BY <1>4, <2>1, OneListener, CallContinueListens DEF e
  <2> QED
    BY <1>1, <1>2, <2>2, CalmCalled
<1> QED
  BY <1>3, <1>4 DEF RunDebugger

LEMMA CommandPc ==
  ASSUME IInv, PInv, Command
  PROVE  PInv'
<1>1. /\ ctl = <<>> /\ Session /\ ProcessKept /\ UNCHANGED event
  BY DEF Command, Break, Delete, ContinueCommand, InstCommand, LeaveCommand,
         StepCommand, NextCommand, Quit, AtPrompt, Session, Unissued, ProcessKept, traceeVars
<1>2. Calm
  BY <1>1, PromptCalm
<1>3. ASSUME OddKept, UNCHANGED <<mode, ctl>> PROVE PInv'
  BY <1>1, <1>2, <1>3, CalmKeeps, EmptyBased
<1>4. ASSUME NEW cmd, NEW told, Issued(cmd, told) PROVE OddKept
  BY <1>4 DEF Issued, OddKept
<1>5. ASSUME OddKept, NEW A, NEW e, e.fn # "continue_execution", e.fn # Stepper,
             e.fn \in Listeners, CallContinue(A, <<e>>)
      PROVE  PInv'
  <2>1. Called
    BY <1>5, OneListener, CallContinueListens
  <2> QED
    BY <1>1, <1>2, <1>5, <2>1, CalmCalled
<1>6. CASE (\E loc \in Locations : Break(loc) \/ Delete(loc)) \/ Quit
  <2>1. last' = last /\ UNCHANGED <<mode, ctl>>
    BY <1>6 DEF Break, Delete, Quit, traceeVars
  <2> QED
    BY <1>3, <2>1 DEF PInv, OddKept
<1>7. CASE ContinueCommand
  BY <1>4, <1>5, <1>7 DEF ContinueCommand, ExecContinue, Stepper, Listeners
<1>8. CASE InstCommand
  <2>1. OddKept /\ CallStepInstruction(armed, <<>>)
    BY <1>4, <1>8 DEF InstCommand
  <2>2. Called
    BY <2>1, EmptyStack, EmptyBased, CallStepInstructionListens
  <2> QED
    BY <1>1, <1>2, <2>1, <2>2, CalmCalled
<1>9. CASE LeaveCommand
  <2>1. PICK d, A : /\ OddKept
                    /\ UNCHANGED <<mode, ctl>> \/ CallContinue(A, <<RunTo(d)>>)
    BY <1>4, <1>9 DEF LeaveCommand
  <2>2. /\ RunTo(d).fn # "continue_execution" /\ RunTo(d).fn # Stepper
        /\ RunTo(d).fn \in Listeners
    BY DEF RunTo, Stepper, Listeners
  <2> QED
    BY <1>3, <1>5, <2>1, <2>2
<1>10. CASE StepCommand
  <2>1. PICK l : /\ OddKept
                 /\ UNCHANGED <<mode, ctl>> \/ CallStepInstruction(armed, <<StepLine(l, 0)>>)
    BY <1>4, <1>10 DEF StepCommand, Refuse
  <2>2. StepLine(l, 0).fn # "continue_execution" /\ StepLine(l, 0).fn # Stepper
    BY DEF StepLine, Stepper
  <2>3. ASSUME CallStepInstruction(armed, <<StepLine(l, 0)>>) PROVE Called
    BY <2>2, <2>3, OneListener, CallStepInstructionListens
  <2> QED
    BY <1>1, <1>2, <1>3, <2>1, <2>3, CalmCalled
<1>11. CASE NextCommand
  <2>1. PICK d, A : /\ OddKept
                    /\ UNCHANGED <<mode, ctl>> \/ CallContinue(A, <<RunTo(d)>>)
    BY <1>4, <1>11 DEF NextCommand, Refuse
  <2>2. /\ RunTo(d).fn # "continue_execution" /\ RunTo(d).fn # Stepper
        /\ RunTo(d).fn \in Listeners
    BY DEF RunTo, Stepper, Listeners
  <2> QED
    BY <1>3, <1>5, <2>1, <2>2
<1> QED
  BY <1>6, <1>7, <1>8, <1>9, <1>10, <1>11 DEF Command

\* The process runs only while somebody is about to wait for it.
LEMMA ProcessPc ==
  ASSUME IInv, PInv, TraceeRuns \/ OthersSignal \/ Terminated \/ UNCHANGED vars
  PROVE  PInv'
<1>1. ctl' = ctl /\ ret' = ret /\ phase' = phase /\ prog' = prog /\ armed' = armed
  BY DEF TraceeRuns, TraceeStops, TraceeExecutes, OthersSignal, Terminated, vars,
         SignalStop, TrapStop, Execute, Signal, Kill, debuggerVars, traceeVars
<1>2. Listening' <=> Listening
  BY <1>1 DEF Listening
<1>3. ASSUME TraceeStops \/ TraceeExecutes
      PROVE  /\ Running /\ Alive /\ Session /\ Listening /\ event = "none"
             /\ ~last.odd => cpu.pc = flow
  <2>1. Running /\ Session
    BY <1>3 DEF TraceeStops, TraceeExecutes, SignalStop, TrapStop, Execute
  <2> QED
    BY <2>1 DEF PInv, Running, Alive, PcFollows
<1>4. CASE TraceeStops /\ SignalStop
  <2>1. PICK s \in pending : event' = s /\ pending' = pending \ {s}
    BY <1>4 DEF SignalStop
  <2>2. s # "trap" /\ pending' \subseteq {"winch", "other"}
    BY <2>1 DEF PInv
  <2>3. mode' = "stopped" /\ UNCHANGED <<cpu, flow>> /\ last' = last
    BY <1>4 DEF TraceeStops, SignalStop, debuggerVars
  <2>4. ~Running' /\ (~last.odd => PcFollows')
    BY <1>3, <1>4, <2>1, <2>2, <2>3 DEF Running, PcFollows
  <2> QED
    BY <1>1, <1>2, <1>3, <1>4, <2>1, <2>2, <2>3, <2>4 DEF PInv
<1>5. CASE TraceeStops /\ TrapStop
  <2>1. /\ cpu.pc \in armed /\ cpu' = [cpu EXCEPT !.pc = @ + 1] /\ event' = "trap"
        /\ mode' = "stopped" /\ UNCHANGED <<flow, pending>> /\ last' = last
    BY <1>5 DEF TraceeStops, TrapStop, debuggerVars
  <2>2. "pc" \in DOMAIN cpu' /\ cpu'.pc = cpu.pc + 1
    BY <2>1 DEF PInv
  <2>3. cpu.pc \in Nat
    BY <2>1, ProgramsAssumption DEF IInv, PInv, Mapped
  <2>4. ~Running' /\ (~last.odd => PcFollows')
    BY <1>1, <1>3, <1>5, <2>1, <2>2, <2>3 DEF Running, PcFollows
  <2> QED
    BY <1>1, <1>2, <1>3, <1>5, <2>1, <2>2, <2>4 DEF PInv
<1>6. CASE TraceeExecutes
  <2>1. /\ cpu.pc \in Mapped \ armed /\ cpu' = Executed /\ flow' = Executed.pc
        /\ UNCHANGED pending
    BY <1>6 DEF TraceeExecutes, Execute
  <2>2. PICK n : last' = [last EXCEPT !.steps = n]
    BY <1>6 DEF TraceeExecutes
  <2>3. OddKept
    BY <2>2 DEF PInv, OddKept
  <2> DEFINE op == prog.code[cpu.pc].op
  <2>4. cpu.pc \in Nat /\ op \in Ops
    BY <2>1, ProgramsAssumption DEF PInv, Mapped
  <2>5. "pc" \in DOMAIN Executed
    <3>1. DOMAIN Executed = DOMAIN cpu
      BY <2>4 DEF Executed, Ops
    <3> QED
      BY <3>1 DEF PInv
  <2>6. \/ op = "int3" /\ event' = "trap" /\ mode' = "stopped"
        \/ event' \notin {"none", "trap"} /\ mode' \in {"stopped", "gone"}
        \/ event' = event /\ mode' = mode
    BY <1>6 DEF TraceeExecutes, Execute
  <2>7. op = "int3" => cpu'.pc = cpu.pc + 1
    BY <2>1 DEF PInv, Executed
  <2>8. ~last.odd => PcFollows'
    <3>1. CASE op = "int3" /\ event' = "trap"
      BY <1>1, <2>1, <2>4, <2>7, <3>1 DEF PcFollows
    <3>2. CASE event' # "trap"
      BY <2>1, <3>2 DEF PcFollows
    <3> QED
      BY <1>3, <1>6, <2>6, <3>1, <3>2
  <2>9. Running' => event' = "none"
    BY <1>3, <1>6, <2>6 DEF Running
  <2> QED
    BY <1>1, <1>2, <1>3, <1>6, <2>1, <2>3, <2>5, <2>8, <2>9 DEF PInv, OddKept
<1>7. CASE OthersSignal /\ \E s \in {"winch", "other"} : Signal(s)
  <2>1. /\ pending' \subseteq pending \union {"winch", "other"}
        /\ UNCHANGED <<cpu, mode, event, flow>> /\ last' = last
    BY <1>7 DEF OthersSignal, Signal, debuggerVars
  <2> QED
    BY <1>1, <1>2, <2>1 DEF PInv, Running, Alive, PcFollows, Session
<1>8. CASE OthersSignal /\ Kill
  <2>1. ProcessKept /\ OddKept /\ Based(ctl') /\ ~Alive'
    BY <1>1, <1>8 DEF OthersSignal, Kill, debuggerVars, ProcessKept, OddKept, PInv, Alive
  <2> QED
    BY <2>1, DeadKeeps
<1>9. CASE UNCHANGED vars
  BY <1>2, <1>9 DEF vars, traceeVars, debuggerVars, PInv, Running, Alive, Session, PcFollows
<1> QED
  BY <1>4, <1>5, <1>6, <1>7, <1>8, <1>9
  DEF TraceeRuns, TraceeStops, OthersSignal, Terminated

-----------------------------------------------------------------------------
(* The program counter at the prompt. *)

\* The process runs, or has something to report, only while the debugger is
\* about to wait for it; and its program counter is that of the program, up to
\* a trap just executed (wait_for_signal, handle_sigtrap, continue_execution).
THEOREM NobodyRunsUnwatched == Spec => []PInv
<1>1. Init => PInv
  BY EmptyBased DEF Init, TraceeInit, DebuggerInit, PInv, Running, Alive, PcFollows
<1>2. IInv /\ PInv /\ [Next]_vars => PInv'
  BY RunDebuggerPc, WaitForSignalPc, CallReturnsPc, CommandPc, ProcessPc
  DEF Next, DebuggerWorks
<1> QED
  BY <1>1, <1>2, BreakpointsAccountedFor, PTL DEF Spec

\* At the prompt the process is stopped, at the instruction it would run next
\* without a debugger: for every program (handle_sigtrap).
THEOREM PcIsTrue == Spec => []PcStaysTrue
<1>1. PInv => PcStaysTrue
  BY PromptCalm DEF PcStaysTrue, AtPrompt, Session, Calm, PInv, PcFollows
<1> QED
  BY <1>1, NobodyRunsUnwatched, PTL

-----------------------------------------------------------------------------
(* Types. *)

\* The registers, with a stack of return addresses that holds the frame of the
\* frame pointer.
Frames(c) ==
  /\ {"pc", "rets", "fp", "taken"} \subseteq DOMAIN c
  /\ c.rets \in Seq(Range(c.rets)) /\ c.fp \in 0 .. Len(c.rets)

Types ==
  /\ mode \in {"stopped", "cont", "step", "gone", "reaped"}
  /\ event \in {"none", "trap", "step", "syscall_step", "winch", "other", "exited", "killed"}
  /\ phase \in {"setup", "repl", "finished", "aborted"}
  /\ ret \in {"none", "SP_OK", "SP_ERR"}
  /\ "cmd" \in DOMAIN last /\ last.cmd \in Commands
  /\ Frames(cpu)

\* A call leaves one more return address, a return one less.
LEMMA OneMoreReturn ==
  ASSUME NEW r, r \in Seq(Range(r)), NEW a
  PROVE  LET s == Append(r, a) IN s \in Seq(Range(s)) /\ Len(s) = Len(r) + 1 /\ Len(r) \in Nat
<1> DEFINE S == Range(r) \union {a}
           s == Append(r, a)
<1>1. r \in Seq(S)
  OBVIOUS
<1>2. s \in Seq(S) /\ Len(s) = Len(r) + 1 /\ Len(r) \in Nat
  BY <1>1
<1> HIDE DEF S, s
<1>3. s \in Seq(Range(s))
  BY <1>2, StackSeq
<1> QED BY <1>2, <1>3 DEF s

LEMMA OneLessReturn ==
  ASSUME NEW r, r \in Seq(Range(r)), r # <<>>
  PROVE  /\ Front(r) \in Seq(Range(Front(r))) /\ Len(Front(r)) = Len(r) - 1
         /\ Len(r) \in Nat \ {0}
<1> DEFINE S == Range(r)
           f == Front(r)
<1>1. Len(r) \in Nat \ {0}
  BY EmptySeq
<1>2. r \in Seq(S)
  OBVIOUS
<1> HIDE DEF S
<1>3. f = [i \in 1 .. Len(r) - 1 |-> r[i]]
  BY <1>1, <1>2 DEF Front
<1>4. \A i \in 1 .. Len(r) - 1 : r[i] \in S
  BY <1>1, <1>2
<1>5. Len(r) - 1 \in Nat
  BY <1>1
<1>6. f \in Seq(S) /\ Len(f) = Len(r) - 1
  BY <1>3, <1>4, <1>5
<1> HIDE DEF f
<1>7. f \in Seq(Range(f))
  BY <1>6, StackSeq
<1> QED BY <1>1, <1>6, <1>7 DEF f

LEMMA ExecutedFrames ==
  ASSUME Frames(cpu), prog.code[cpu.pc].op \in Ops,
         prog.code[cpu.pc].op = "ret" => cpu.rets # <<>>
  PROVE  Frames(Executed)
<1> DEFINE op == prog.code[cpu.pc].op
           r == cpu.rets
           d == DOMAIN Executed
           F(c) == /\ {"pc", "rets", "fp", "taken"} \subseteq DOMAIN c
                   /\ \/ c.rets = r /\ c.fp = cpu.fp
                      \/ c.rets = r /\ c.fp = Len(r)
                      \/ \E a : c.rets = Append(r, a) /\ c.fp = cpu.fp
                      \/ r # <<>> /\ c.rets = Front(r) /\ c.fp = Len(r) - 1
<1>1. {"pc", "rets", "fp", "taken"} \subseteq DOMAIN cpu
      /\ r \in Seq(Range(r)) /\ cpu.fp \in 0 .. Len(r)
  BY DEF Frames
<1>2. ASSUME NEW c, F(c)
      PROVE  Frames(c)
  <2>1. CASE c.rets = r
    BY <1>1, <1>2, <2>1 DEF Frames
  <2>2. CASE \E a : c.rets = Append(r, a) /\ c.fp = cpu.fp
    <3>1. PICK a : c.rets = Append(r, a) /\ c.fp = cpu.fp
      BY <2>2
    <3> QED BY <1>1, <1>2, <3>1, OneMoreReturn DEF Frames
  <2>3. CASE r # <<>> /\ c.rets = Front(r) /\ c.fp = Len(r) - 1
    BY <1>1, <1>2, <2>3, OneLessReturn DEF Frames
  <2> QED BY <1>2, <2>1, <2>2, <2>3
<1>3. F(Executed)
  <2>1. CASE op \in {"plain", "mid", "exit", "int3", "syscall", "prologue", "jump"}
    BY <1>1, <2>1 DEF Executed
  <2>2. CASE op \in {"call", "callif"}
    BY <1>1, <2>2 DEF Executed
  <2>3. CASE op = "loop"
    BY <1>1, <2>3 DEF Executed
  <2>4. CASE op = "ret"
    BY <1>1, <2>4 DEF Executed
  <2> QED BY <2>1, <2>2, <2>3, <2>4 DEF Ops
<1> HIDE DEF F
<1> QED BY <1>2, <1>3

\* A call sets the process running, if it can, and answers SP_OK or SP_ERR.
LEMMA CalledTypes ==
  ASSUME Types, NEW A, NEW k, CallContinue(A, k) \/ CallStepInstruction(A, k)
  PROVE  /\ mode' \in {"stopped", "cont", "step", "gone", "reaped"}
         /\ ret' \in {"none", "SP_OK", "SP_ERR"}
BY DEF Types, CallContinue, CallStepInstruction, CallStepBreakpoint, CallPtContinue,
       PtContinue, PtSingleStep

\* A command that is issued has a name.
LEMMA IssuedTypes ==
  ASSUME NEW cmd \in Commands, NEW told, Issued(cmd, told)
  PROVE  "cmd" \in DOMAIN last' /\ last'.cmd \in Commands
BY DEF Issued

LEMMA DebuggerTypes ==
  ASSUME Types, RunDebugger \/ CallReturns
  PROVE  Types'
<1>1. cpu' = cpu /\ last' = last /\ event' = event
  BY DEF RunDebugger, CallReturns, WinchReturns, StepBreakpointReturns, ContinueReturns,
         StepInstructionReturns, ExecContinueReturns, StepLineReturns, RunToReturns,
         CleanUpReturns, RunMainReturns, MainReachedReturns, Untouched
<1>2. phase' \in {"setup", "repl", "finished", "aborted"}
  BY DEF Types, RunDebugger, CallReturns, WinchReturns, StepBreakpointReturns, ContinueReturns,
         StepInstructionReturns, ExecContinueReturns, StepLineReturns, RunToReturns,
         CleanUpReturns, RunMainReturns, MainReachedReturns
<1>3. /\ mode' \in {"stopped", "cont", "step", "gone", "reaped"}
      /\ ret' \in {"none", "SP_OK", "SP_ERR"}
  <2>1. CASE RunDebugger
    BY <2>1, CalledTypes DEF RunDebugger, Types
  <2>2. CASE ContinueReturns
    BY <2>2 DEF ContinueReturns, CallPtContinue, PtContinue, Types
  <2>3. CASE StepLineReturns
    BY <2>3, CalledTypes DEF StepLineReturns, Return, Types
  <2>4. CASE WinchReturns \/ StepBreakpointReturns \/ StepInstructionReturns
             \/ ExecContinueReturns \/ RunToReturns \/ CleanUpReturns
             \/ RunMainReturns \/ MainReachedReturns
    BY <2>4 DEF WinchReturns, StepBreakpointReturns, StepInstructionReturns,
                ExecContinueReturns, RunToReturns, CleanUpReturns, RunMainReturns,
                MainReachedReturns, Return, WaitThen, Types, Untouched
  <2> QED
    BY <2>1, <2>2, <2>3, <2>4 DEF CallReturns
<1> QED
  BY <1>1, <1>2, <1>3 DEF Types

LEMMA WaitTypes ==
  ASSUME Types, WaitForSignal
  PROVE  Types'
<1>1. phase' = phase
  BY DEF WaitForSignal, WaitDeath, WaitSigtrap, WaitOther, WaitWinch, WaitKilled, WaitNobody
<1>2. "cmd" \in DOMAIN last' /\ last'.cmd \in Commands
  BY DEF Types, WaitForSignal, WaitDeath, WaitSigtrap, WaitOther, WaitWinch, WaitKilled,
         WaitNobody
<1>3. Frames(cpu')
  BY DEF Types, Frames, WaitForSignal, WaitDeath, WaitSigtrap, WaitOther, WaitWinch,
         WaitKilled, WaitNobody, traceeVars
<1>4. /\ mode' \in {"stopped", "cont", "step", "gone", "reaped"}
      /\ ret' \in {"none", "SP_OK", "SP_ERR"}
  <2>1. CASE WaitWinch
    BY <2>1, CalledTypes DEF WaitWinch
  <2>2. CASE ~WaitWinch
    BY <2>2 DEF Types, WaitForSignal, WaitDeath, WaitSigtrap, WaitOther, WaitKilled,
                WaitNobody, Return, traceeVars
  <2> QED
    BY <2>1, <2>2
<1>5. event' \in {"none", "killed", event}
  BY DEF WaitForSignal, WaitDeath, WaitSigtrap, WaitOther, WaitWinch, WaitKilled,
         WaitNobody, traceeVars
<1> QED
  BY <1>1, <1>2, <1>3, <1>4, <1>5 DEF Types, Frames

LEMMA CommandTypes ==
  ASSUME Types, Command
  PROVE  Types'
<1>1. cpu' = cpu /\ event' = event
  BY DEF Command, Break, Delete, ContinueCommand, InstCommand, LeaveCommand, StepCommand,
         NextCommand, Quit, Unissued, traceeVars
<1>2. phase' \in {"setup", "repl", "finished", "aborted"}
  BY DEF Types, Command, Break, Delete, ContinueCommand, InstCommand, LeaveCommand,
         StepCommand, NextCommand, Quit
<1>3. "cmd" \in DOMAIN last' /\ last'.cmd \in Commands
  BY IssuedTypes
  DEF Types, Command, Break, Delete, ContinueCommand, InstCommand, LeaveCommand,
      StepCommand, NextCommand, Quit, Commands
<1>4. /\ mode' \in {"stopped", "cont", "step", "gone", "reaped"}
      /\ ret' \in {"none", "SP_OK", "SP_ERR"}
  BY CalledTypes
  DEF Types, Command, Break, Delete, ContinueCommand, InstCommand, LeaveCommand,
      StepCommand, NextCommand, Quit, Refuse, traceeVars
<1> QED
  BY <1>1, <1>2, <1>3, <1>4 DEF Types

LEMMA ProcessTypes ==
  ASSUME IInv, PInv, Types, TraceeRuns \/ OthersSignal \/ Terminated \/ UNCHANGED vars
  PROVE  Types'
<1>1. ret' = ret /\ phase' = phase
  BY DEF TraceeRuns, TraceeStops, TraceeExecutes, OthersSignal, Terminated, vars,
         SignalStop, TrapStop, Execute, Signal, Kill, debuggerVars, traceeVars
<1>2. "cmd" \in DOMAIN last' /\ last'.cmd \in Commands
  BY DEF Types, TraceeRuns, TraceeStops, TraceeExecutes, OthersSignal, Terminated, vars,
         debuggerVars
<1>3. CASE TraceeStops
  <2>1. mode' = "stopped" /\ event' \in pending \union {"trap"}
        /\ (cpu' = cpu \/ cpu' = [cpu EXCEPT !.pc = @ + 1])
    BY <1>3 DEF TraceeStops, SignalStop, TrapStop
  <2>2. Frames(cpu')
    BY <2>1 DEF Types, Frames
  <2> QED
    BY <1>1, <1>2, <2>1, <2>2 DEF Types, PInv, Frames
<1>4. CASE TraceeExecutes
  <2>1. /\ cpu.pc \in Mapped /\ cpu' = Executed
        /\ prog.code[cpu.pc].op = "ret" => cpu.rets # <<>>
    BY <1>4 DEF TraceeExecutes, Execute
  <2>2. prog.code[cpu.pc].op \in Ops
    BY <2>1, ProgramsAssumption DEF PInv, Mapped
  <2>3. Frames(Executed)
    BY <2>1, <2>2, ExecutedFrames DEF Types
  <2>4. /\ mode' \in {"stopped", "gone", mode}
        /\ event' \in {"exited", "trap", "syscall_step", "step", event}
    BY <1>4 DEF TraceeExecutes, Execute
  <2> QED
    BY <1>1, <1>2, <2>1, <2>3, <2>4 DEF Types, Frames
<1>5. CASE OthersSignal
  BY <1>1, <1>2, <1>5 DEF OthersSignal, Signal, Kill, Types, Frames
<1>6. CASE UNCHANGED vars
  BY <1>6 DEF vars, traceeVars, debuggerVars, Types, Frames
<1> QED
  BY <1>3, <1>4, <1>5, <1>6 DEF TraceeRuns, Terminated

\* The frame pointer refers to a frame there is, and every state of the process
\* and every result is one the code knows (get_dbg_pc, wait_for_signal).
THEOREM TypeCorrect == Spec => []TypeOK
<1>1. Init => Types
  <2>1. ASSUME Init PROVE Frames(cpu)
    <3>1. <<>> \in Seq(Range(<<>>)) /\ Len(<<>>) = 0
      OBVIOUS
    <3> QED
      BY <2>1, <3>1 DEF Init, TraceeInit, Frames
  <2> QED
    BY <2>1 DEF Init, TraceeInit, DebuggerInit, Types, Commands
<1>2. IInv /\ PInv /\ Types /\ [Next]_vars => Types'
  BY DebuggerTypes, WaitTypes, CommandTypes, ProcessTypes DEF Next, DebuggerWorks
<1>3. IInv /\ PInv /\ Types => TypeOK
  BY DEF IInv, PInv, Types, Frames, TypeOK
<1> QED
  BY <1>1, <1>2, <1>3, BreakpointsAccountedFor, NobodyRunsUnwatched, PTL DEF Spec

-----------------------------------------------------------------------------
(* Who has called whom. *)

\* The callers of each function; run_debugger is the caller in the command none.
Callers(fn) ==
  CASE fn \in {"wait_for_signal", "wait_for_signal_winch"} ->
         {Stepper, "single_step_line", "step_over_done", "run_debugger_done", "continue", "inst"}
    [] fn = Stepper -> {"continue_execution", "single_step_instruction"}
    [] fn = "continue_execution" -> Listeners
    [] fn = "single_step_instruction" -> {"single_step_line", "inst"}
    [] fn = "single_step_line" -> {"step"}
    [] fn = "exec_continue" -> {"continue"}
    [] fn \in {"step_over_run", "step_over_done"} -> {"next", "leave"}
    [] fn \in {"run_debugger_run", "run_debugger_done"} -> {"none"}
    [] OTHER -> {}

\* Whom a call from the stack k returns to, in the command c.
Caller(k, c) == IF k = <<>> THEN c ELSE Head(k).fn

Chained(k, c) ==
  \A i \in 1 .. Len(k) : (IF i = Len(k) THEN c ELSE k[i + 1].fn) \in Callers(k[i].fn)

\* Whoever is about to wait for a living process has set it running, and a single
\* step is waited for by single_step_breakpoint, step or inst.
CInv ==
  /\ Chained(ctl, last.cmd)
  /\ ctl # <<>> /\ Alive /\ Head(ctl).fn \in Listeners => ret = "SP_OK"
  /\ ctl # <<>> /\ Alive /\ (mode = "step" \/ event \in {"step", "syscall_step"}) =>
       /\ Head(ctl) = Wait
       /\ Caller(Tail(ctl), last.cmd) \in {Stepper, "single_step_line", "inst"}

-----------------------------------------------------------------------------
(* How far a command has come. *)

\* As long as no instruction of the command has run, the process is about to run
\* one, and there is no trap in its way.
Starting ==
  ctl # <<>> /\ Alive /\ ~last.signalled /\ last.steps = 0 =>
    cpu.pc \notin armed /\ (Running \/ event \in {"winch", "other"})

\* Without SIGWINCH, inst runs no more than that one.
Inner(k) ==
  \A i \in 1 .. Len(k) :
    k[i].fn \in {"wait_for_signal", Stepper, "single_step_instruction"}

OneStep ==
  ctl # <<>> /\ Alive /\ ~last.winched /\ last.cmd = "inst" =>
    Inner(ctl) /\ mode # "cont" /\ last.steps \in {0, 1} /\ (Running => last.steps = 0)

AInv ==
  /\ {"signalled", "told"} \subseteq DOMAIN last /\ last.steps \in {0, 1, 2}
  /\ Starting /\ OneStep

-----------------------------------------------------------------------------
(* Where a command stops. *)

\* The process is where the command was told to stop, or something else has
\* stopped it.
Arrived == last.signalled \/ last.odd \/ cpu.pc \in last.told \union user

SInv ==
  /\ last.cmd # "none" => Dels(ctl) \subseteq last.told
  /\ ctl # <<>> /\ Alive /\ Head(ctl).fn = "step_over_done" => Arrived

-----------------------------------------------------------------------------
(* The call stacks of the commands. *)

LEMMA EmptyChained == ASSUME NEW c PROVE Chained(<<>>, c)
BY DEF Chained

LEMMA Pushed ==
  ASSUME NEW k, Stack(k), NEW e, NEW c
  PROVE  /\ <<e>> \o k # <<>> /\ Head(<<e>> \o k) = e /\ Tail(<<e>> \o k) = k
         /\ Caller(<<e>> \o k, c) = e.fn
<1> DEFINE S == {e} \union Range(k)
<1>1. k \in Seq(Range(k))
  BY DEF Stack
<1>2. k \in Seq(S) /\ e \in S
  BY <1>1
<1> HIDE DEF S
<1>3. <<e>> \in Seq(S) /\ <<e>> \o k \in Seq(S) /\ Len(<<e>> \o k) = Len(k) + 1 /\ Len(k) \in Nat
  BY <1>2
<1>4. <<e>> \o k # <<>> /\ Head(<<e>> \o k) = e
  BY <1>2, <1>3
<1>5. Tail(<<e>> \o k) = k
  <2>1. Tail(<<e>> \o k) \in Seq(S) /\ Len(Tail(<<e>> \o k)) = Len(k)
    BY <1>3, <1>4, HeadTailProperties
  <2>2. \A i \in 1 .. Len(k) : Tail(<<e>> \o k)[i] = k[i]
    BY <1>2, <1>3, <1>4, PushSeq, HeadTailProperties
  <2> QED BY <1>2, <2>1, <2>2, SeqEqual
<1> QED BY <1>4, <1>5 DEF Caller

\* A call.
LEMMA PushChained ==
  ASSUME NEW k, Stack(k), NEW c, Chained(k, c), NEW e, Caller(k, c) \in Callers(e.fn)
  PROVE  Chained(<<e>> \o k, c)
<1> DEFINE s == <<e>> \o k
<1>1. /\ Len(s) = Len(k) + 1 /\ s[1] = e /\ Len(k) \in Nat
      /\ \A i \in 1 .. Len(k) : s[i + 1] = k[i]
  BY PushSeq
<1>2. IF Len(k) = 0 THEN Caller(k, c) = c ELSE Caller(k, c) = k[1].fn
  <2>1. Len(k) # 0 => k # <<>>
    BY EmptySeq
  <2>2. k # <<>> => Len(k) # 0 /\ Head(k) = k[1]
    BY PopIndex
  <2> QED BY <2>1, <2>2 DEF Caller
<1> HIDE DEF s
<1>3. ASSUME NEW i \in 1 .. Len(s)
      PROVE  (IF i = Len(s) THEN c ELSE s[i + 1].fn) \in Callers(s[i].fn)
  <2>1. CASE i = 1
    <3>1. Len(k) # 0 => s[2] = k[1]
      BY <1>1
    <3> QED BY <1>1, <1>2, <2>1, <3>1
  <2>2. CASE i # 1
    <3> DEFINE j == i - 1
    <3>1. j \in 1 .. Len(k) /\ i = j + 1
      BY <1>1, <2>2
    <3> HIDE DEF j
    <3>2. s[i] = k[j] /\ (i = Len(s) <=> j = Len(k))
      BY <1>1, <3>1
    <3>3. j # Len(k) => s[i + 1] = k[j + 1]
      BY <1>1, <3>1
    <3>4. (IF j = Len(k) THEN c ELSE k[j + 1].fn) \in Callers(k[j].fn)
      BY <3>1 DEF Chained
    <3> QED BY <3>2, <3>3, <3>4
  <2> QED BY <2>1, <2>2
<1> QED BY <1>3 DEF Chained, s

\* A return.
LEMMA PopChained ==
  ASSUME NEW k, Stack(k), NEW c, Chained(k, c), k # <<>>
  PROVE  /\ Chained(Tail(k), c)
         /\ Caller(Tail(k), c) \in Callers(Head(k).fn)
<1> DEFINE t == Tail(k)
<1>1. /\ Len(k) \in Nat \ {0} /\ Len(t) = Len(k) - 1 /\ Head(k) = k[1]
      /\ \A i \in 1 .. Len(t) : i + 1 \in 1 .. Len(k) /\ t[i] = k[i + 1]
  BY PopIndex
<1>2. Stack(t)
  BY Pop
<1>3. IF Len(t) = 0 THEN Caller(t, c) = c ELSE Caller(t, c) = t[1].fn
  <2>1. Len(t) # 0 => t # <<>>
    BY EmptySeq
  <2>2. t # <<>> => Len(t) # 0 /\ Head(t) = t[1]
    BY <1>2, PopIndex
  <2> QED BY <2>1, <2>2 DEF Caller
<1> HIDE DEF t
<1>4. ASSUME NEW i \in 1 .. Len(t)
      PROVE  (IF i = Len(t) THEN c ELSE t[i + 1].fn) \in Callers(t[i].fn)
  <2> DEFINE j == i + 1
  <2>1. j \in 1 .. Len(k) /\ t[i] = k[j] /\ (i = Len(t) <=> j = Len(k))
    BY <1>1
  <2>2. i # Len(t) => t[i + 1] = k[j + 1]
    BY <1>1
  <2> HIDE DEF j
  <2>3. (IF j = Len(k) THEN c ELSE k[j + 1].fn) \in Callers(k[j].fn)
    BY <2>1 DEF Chained
  <2> QED BY <2>1, <2>2, <2>3
<1>5. Caller(t, c) \in Callers(Head(k).fn)
  <2>1. (IF 1 = Len(k) THEN c ELSE k[1 + 1].fn) \in Callers(k[1].fn)
    BY <1>1 DEF Chained
  <2>2. Len(t) # 0 => t[1] = k[1 + 1]
    BY <1>1
  <2> QED BY <1>1, <1>3, <2>1, <2>2
<1> QED BY <1>4, <1>5 DEF Chained, t

-----------------------------------------------------------------------------
(* Calls: who waits, and for what. *)

\* What a call in the command c leaves behind.
Waited(c) ==
  /\ Chained(ctl', c) /\ ctl' # <<>> /\ (Alive' <=> Alive)
  /\ Alive /\ Head(ctl').fn \in Listeners => ret' = "SP_OK"
  /\ Alive /\ mode' = "step" =>
       Head(ctl') = Wait /\ Caller(Tail(ctl'), c) \in {Stepper, "single_step_line", "inst"}

LEMMA CallStepBreakpointWaits ==
  ASSUME NEW A, NEW k, Stack(k), NEW c, Chained(k, c),
         Caller(k, c) \in {"continue_execution", "single_step_instruction"},
         CallStepBreakpoint(A, k)
  PROVE  Waited(c)
<1> DEFINE e == StepBreakpoint(GetPc)
           t == <<e>> \o k
<1>1. ctl' = <<Wait>> \o t /\ Stack(t)
  BY PushTwo, PushStep DEF CallStepBreakpoint
<1>2. e.fn = Stepper /\ Wait.fn = "wait_for_signal" /\ Wait.fn \notin Listeners
  BY DEF StepBreakpoint, Wait, Stepper, Listeners
<1>3. Caller(k, c) \in Callers(e.fn)
  BY <1>2 DEF Callers, Stepper
<1>4. Chained(t, c) /\ Caller(t, c) = Stepper
  BY <1>2, <1>3, PushChained, Pushed
<1>5. Caller(t, c) \in Callers(Wait.fn)
  BY <1>2, <1>4 DEF Callers, Stepper
<1> HIDE DEF t
<1>6. Chained(ctl', c)
  BY <1>1, <1>4, <1>5, PushChained
<1>7. ctl' # <<>> /\ Head(ctl') = Wait /\ Tail(ctl') = t
  BY <1>1, Pushed
<1>8. Alive' <=> Alive
  BY PtLives DEF CallStepBreakpoint
<1> QED BY <1>2, <1>4, <1>6, <1>7, <1>8 DEF Waited

LEMMA CallContinueWaits ==
  ASSUME NEW A, NEW k, Stack(k), k # <<>>, NEW c, Chained(k, c), Head(k).fn \in Listeners,
         CallContinue(A, k)
  PROVE  Waited(c)
<1>1. Caller(k, c) \in Listeners
  BY DEF Caller
<1>2. CASE CallStepBreakpoint(A, <<Continue>> \o k)
  <2>1. Continue.fn = "continue_execution"
    BY DEF Continue
  <2>2. Stack(<<Continue>> \o k)
    BY PushOther DEF Continue, Deleters, Stepper
  <2>3. Caller(k, c) \in Callers(Continue.fn)
    BY <1>1, <2>1 DEF Callers, Stepper
  <2>4. Chained(<<Continue>> \o k, c) /\ Caller(<<Continue>> \o k, c) = "continue_execution"
    BY <2>1, <2>3, PushChained, Pushed
  <2> QED BY <1>2, <2>2, <2>4, CallStepBreakpointWaits
<1>3. CASE CallPtContinue(A, k)
  <2>1. ctl' = k /\ (Alive' <=> Alive) /\ (Alive => ret' = "SP_OK" /\ mode' = "cont")
    BY <1>3, PtLives DEF CallPtContinue, PtContinue
  <2> QED BY <2>1 DEF Waited
<1> QED BY <1>2, <1>3 DEF CallContinue

LEMMA CallStepInstructionWaits ==
  ASSUME NEW A, NEW k, Stack(k), NEW c, Chained(k, c),
         Caller(k, c) \in {"single_step_line", "inst"}, CallStepInstruction(A, k)
  PROVE  Waited(c)
<1>1. CASE CallStepBreakpoint(A, <<StepInstruction>> \o k)
  <2>1. StepInstruction.fn = "single_step_instruction"
    BY DEF StepInstruction
  <2>2. Stack(<<StepInstruction>> \o k)
    BY PushOther DEF StepInstruction, Deleters, Stepper
  <2>3. Caller(k, c) \in Callers(StepInstruction.fn)
    BY <2>1 DEF Callers, Stepper
  <2>4. /\ Chained(<<StepInstruction>> \o k, c)
        /\ Caller(<<StepInstruction>> \o k, c) = "single_step_instruction"
    BY <2>1, <2>3, PushChained, Pushed
  <2> QED BY <1>1, <2>2, <2>4, CallStepBreakpointWaits
<1>2. CASE PtSingleStep /\ ctl' = <<Wait>> \o k
  <2>1. Wait.fn = "wait_for_signal" /\ Wait.fn \notin Listeners
    BY DEF Wait, Listeners
  <2>2. Caller(k, c) \in Callers(Wait.fn)
    BY <2>1 DEF Callers, Stepper
  <2>3. Chained(ctl', c)
    BY <1>2, <2>2, PushChained
  <2>4. ctl' # <<>> /\ Head(ctl') = Wait /\ Tail(ctl') = k
    BY <1>2, Pushed
  <2>5. Alive' <=> Alive
    BY <1>2, PtLives
  <2> QED BY <2>1, <2>3, <2>4, <2>5 DEF Waited
<1> QED BY <1>1, <1>2 DEF CallStepInstruction

-----------------------------------------------------------------------------
(* Every step keeps the chain of callers. *)

LEMMA WaitedChains ==
  ASSUME NEW c, Waited(c), last'.cmd = c, Alive => event' \notin {"step", "syscall_step"}
  PROVE  CInv'
BY DEF Waited, CInv

\* Only continue_execution returns to a function that is about to wait.
LEMMA ReturnChains ==
  ASSUME IInv, CInv, ctl # <<>>, Head(ctl).fn # "continue_execution", ctl' = Tail(ctl),
         last'.cmd = last.cmd,
         Alive' => mode' # "step" /\ event' \notin {"step", "syscall_step"}
  PROVE  CInv'
<1>1. /\ Chained(ctl', last.cmd) /\ Stack(ctl)
      /\ Caller(ctl', last.cmd) \in Callers(Head(ctl).fn)
  BY PopChained DEF IInv, CInv
<1>2. Callers(Head(ctl).fn) \intersect Listeners = {}
  BY DEF Callers, Listeners, Stepper
<1>3. ctl' # <<>> => Head(ctl').fn \notin Listeners
  BY <1>1, <1>2 DEF Caller
<1> QED BY <1>1, <1>3 DEF CInv

\* wait_for_signal, too, is entered on the stack of the function that goes on.
LEMMA WaitThenChains ==
  ASSUME CInv, NEW k, Stack(k), Chained(k, last.cmd),
         Caller(k, last.cmd) \in Callers("wait_for_signal"),
         WaitThen(k), UNCHANGED <<last, event>>,
         Alive => mode # "step" /\ event \notin {"step", "syscall_step"}
  PROVE  CInv'
<1>1. Wait.fn = "wait_for_signal" /\ Wait.fn \notin Listeners
  BY DEF Wait, Listeners
<1>2. Chained(<<Wait>> \o k, last.cmd) /\ <<Wait>> \o k # <<>> /\ Head(<<Wait>> \o k) = Wait
  BY <1>1, PushChained, Pushed
<1>3. Alive' <=> Alive
  BY DEF WaitThen, Alive
<1> QED BY <1>1, <1>2, <1>3 DEF CInv, WaitThen

\* SIGWINCH continues the process and waits on behalf of the same caller.
LEMMA WinchWaits ==
  ASSUME IInv, CInv, WaitWinch
  PROVE  Waited(last.cmd)
<1>1. /\ ctl # <<>> /\ Stack(ctl) /\ Stack(Tail(ctl)) /\ Head(ctl).fn = "wait_for_signal"
      /\ CallContinue(armed, <<Winch>> \o Tail(ctl))
  BY Pop DEF WaitWinch, Waiting, Wait, IInv
<1>2. /\ Winch.fn = "wait_for_signal_winch" /\ Winch.fn \in Listeners
      /\ Winch.fn \notin Deleters /\ Winch.fn # Stepper
  BY DEF Winch, Listeners, Deleters, Stepper
<1>3. /\ Chained(Tail(ctl), last.cmd)
      /\ Caller(Tail(ctl), last.cmd) \in Callers(Winch.fn)
  BY <1>1, <1>2, PopChained DEF CInv, Callers, Stepper
<1> DEFINE k == <<Winch>> \o Tail(ctl)
<1>4. Stack(k) /\ Chained(k, last.cmd) /\ k # <<>> /\ Head(k) = Winch
  BY <1>1, <1>2, <1>3, PushOther, PushChained, Pushed
<1> HIDE DEF k
<1> QED BY <1>1, <1>2, <1>4, CallContinueWaits DEF k

LEMMA WaitForSignalChains ==
  ASSUME IInv, MInv, PInv, CInv, WaitForSignal
  PROVE  CInv'
<1>1. /\ ctl # <<>> /\ Head(ctl) = Wait /\ Wait.fn = "wait_for_signal"
      /\ Stack(ctl) /\ Stack(Tail(ctl)) /\ "cmd" \in DOMAIN last
  BY Pop DEF WaitForSignal, WaitDeath, WaitSigtrap, WaitOther, WaitWinch, WaitKilled, WaitNobody,
             Waiting, Wait, IInv, MInv
<1>2. CASE WaitDeath \/ WaitKilled \/ WaitNobody
  <2>1. ctl' = Tail(ctl) /\ ~Alive' /\ last' = last
    BY <1>2 DEF WaitDeath, WaitKilled, WaitNobody, Return, Alive, traceeVars
  <2> QED BY <1>1, <2>1, ReturnChains
<1>3. CASE WaitSigtrap \/ WaitOther
  <2>1. ctl' = Tail(ctl) /\ event # "none" /\ event' = "none" /\ mode' = mode
    BY <1>3 DEF WaitSigtrap, WaitOther, Return
  <2>2. last'.cmd = last.cmd
    BY <1>1, <1>3 DEF WaitSigtrap, WaitOther
  <2>3. mode # "step"
    BY <2>1 DEF PInv, Running
  <2> QED BY <1>1, <2>1, <2>2, <2>3, ReturnChains
<1>4. CASE WaitWinch
  <2>1. Waited(last.cmd)
    BY <1>4, WinchWaits
  <2>2. event' = "none" /\ last'.cmd = last.cmd
    BY <1>1, <1>4 DEF WaitWinch
  <2> QED BY <2>1, <2>2, WaitedChains
<1> QED BY <1>2, <1>3, <1>4 DEF WaitForSignal

LEMMA CallReturnsChains ==
  ASSUME IInv, MInv, PInv, CInv, CallReturns
  PROVE  CInv'
<1> DEFINE k == Tail(ctl)
           c == last.cmd
<1>1. /\ ctl # <<>> /\ Head(ctl).fn # "wait_for_signal" /\ UNCHANGED <<event, last>>
  BY DEF CallReturns, WinchReturns, StepBreakpointReturns, ContinueReturns,
     StepInstructionReturns, ExecContinueReturns, StepLineReturns, RunToReturns,
     CleanUpReturns, RunMainReturns, MainReachedReturns, Returned, Untouched
<1>2. Alive => mode # "step" /\ event \notin {"step", "syscall_step"}
  BY <1>1 DEF CInv, Wait
<1>3. /\ Stack(ctl) /\ Stack(k) /\ Chained(k, c)
      /\ Caller(k, c) \in Callers(Head(ctl).fn)
  BY <1>1, Pop, PopChained DEF IInv, CInv
<1>4. ASSUME NEW r, Return(r), UNCHANGED mode, Head(ctl).fn # "continue_execution" PROVE CInv'
  <2>1. ctl' = Tail(ctl) /\ (Alive' => Alive)
    BY <1>4 DEF Return, Alive
  <2> QED BY <1>1, <1>2, <1>4, <2>1, ReturnChains
<1>5. ASSUME Waited(c) PROVE CInv'
  BY <1>1, <1>2, <1>5, WaitedChains
<1>6. ASSUME NEW t, Stack(t), Chained(t, c), Caller(t, c) \in Callers("wait_for_signal"),
             WaitThen(t)
      PROVE  CInv'
  BY <1>1, <1>2, <1>6, WaitThenChains
<1>7. CASE WinchReturns
  <2>1. WaitThen(k) /\ Head(ctl).fn = "wait_for_signal_winch"
    BY <1>7 DEF WinchReturns, Returned
  <2>2. Caller(k, c) \in Callers("wait_for_signal")
    BY <1>3, <2>1 DEF Callers, Stepper
  <2> QED BY <1>3, <1>6, <2>1, <2>2
<1>8. CASE StepBreakpointReturns
  BY <1>4, <1>8 DEF StepBreakpointReturns, Returned
<1>9. CASE ContinueReturns
  <2>1. CallPtContinue(armed, k) /\ Head(ctl).fn = "continue_execution"
    BY <1>9 DEF ContinueReturns, Returned
  <2>2. ctl' = k /\ (Alive' <=> Alive) /\ (Alive => ret' = "SP_OK" /\ mode' = "cont")
    BY <2>1, PtLives DEF CallPtContinue, PtContinue
  <2>3. k # <<>>
    BY <1>1, <2>1, PopBased DEF IInv, PInv
  <2>4. Waited(c)
    BY <1>3, <2>2, <2>3 DEF Waited
  <2> QED BY <1>5, <2>4
<1>10. CASE StepInstructionReturns
  BY <1>4, <1>10 DEF StepInstructionReturns, Returned
<1>11. CASE ExecContinueReturns
  <2>1. CASE ret = "SP_ERR" /\ Return(ret) /\ UNCHANGED mode
    BY <1>4, <1>11, <2>1 DEF ExecContinueReturns, Returned
  <2>2. CASE WaitThen(k)
    <3>1. Caller(k, c) \in Callers("wait_for_signal")
      BY <1>3, <1>11 DEF ExecContinueReturns, Returned, Callers, Stepper
    <3> QED BY <1>3, <1>6, <2>2, <3>1
  <2> QED BY <1>11, <2>1, <2>2 DEF ExecContinueReturns
<1>12. CASE StepLineReturns
  <2>1. Head(ctl).fn = "single_step_line"
    BY <1>12 DEF StepLineReturns, Returned
  <2>2. PICK l, n : \/ Return("SP_ERR") /\ UNCHANGED mode
                    \/ Return("SP_OK") /\ UNCHANGED mode
                    \/ CallStepInstruction(armed, <<StepLine(l, n)>> \o k)
    BY <1>12 DEF StepLineReturns
  <2>3. CASE CallStepInstruction(armed, <<StepLine(l, n)>> \o k)
    <3> DEFINE e == StepLine(l, n)
    <3>1. e.fn = "single_step_line" /\ e.fn \notin Deleters /\ e.fn # Stepper
      BY DEF StepLine, Deleters, Stepper
    <3>2. Caller(k, c) \in Callers(e.fn)
      BY <1>3, <2>1, <3>1
    <3>3. Stack(<<e>> \o k) /\ Chained(<<e>> \o k, c) /\ Caller(<<e>> \o k, c) = "single_step_line"
      BY <1>3, <3>1, <3>2, PushOther, PushChained, Pushed
    <3> HIDE DEF e
    <3>4. Waited(c)
      BY <2>3, <3>3, CallStepInstructionWaits DEF e
    <3> QED BY <1>5, <3>4
  <2> QED BY <1>4, <2>1, <2>2, <2>3
<1>13. CASE RunToReturns
  <2> DEFINE e == CleanUp(Head(ctl).dels)
  <2>1. Head(ctl).fn = "step_over_run" /\ WaitThen(<<e>> \o k)
    BY <1>13 DEF RunToReturns, Returned
  <2>2. e.fn = "step_over_done" /\ e.fn \in Deleters /\ Head(ctl).fn \in Deleters
    BY <2>1 DEF CleanUp, Deleters
  <2> HIDE DEF e
  <2>3. <<e>> \o k = <<e>> /\ Stack(<<e>>)
    BY <1>1, <2>1, <2>2, DeleterAlone, PushFirst, OneDeleter
  <2>4. Caller(k, c) \in Callers(e.fn)
    BY <1>3, <2>1, <2>2 DEF Callers, Stepper
  <2>5. Chained(<<e>> \o k, c) /\ Caller(<<e>> \o k, c) = "step_over_done"
    BY <1>3, <2>2, <2>4, PushChained, Pushed
  <2>6. Caller(<<e>> \o k, c) \in Callers("wait_for_signal")
    BY <2>5 DEF Callers, Stepper
  <2> QED BY <1>6, <2>1, <2>3, <2>5, <2>6
<1>14. CASE CleanUpReturns
  BY <1>4, <1>14 DEF CleanUpReturns, Returned
<1>15. CASE RunMainReturns
  <2> DEFINE e == MainReached(Head(ctl).dels)
  <2>1. Head(ctl).fn = "run_debugger_run"
    BY <1>15 DEF RunMainReturns, Returned
  <2>2. e.fn = "run_debugger_done" /\ e.fn \in Deleters /\ Head(ctl).fn \in Deleters
    BY <2>1 DEF MainReached, Deleters
  <2>3. CASE ret = "SP_ERR" /\ Return(ret) /\ UNCHANGED mode
    BY <1>4, <2>1, <2>3
  <2>4. CASE WaitThen(<<e>>)
    <3> HIDE DEF e
    <3>1. k = <<>>
      BY <1>1, <2>2, DeleterAlone
    <3>2. <<e>> \o k = <<e>> /\ Stack(<<e>>)
      BY <2>2, <3>1, PushFirst, OneDeleter
    <3>3. Caller(k, c) \in Callers(e.fn)
      BY <1>3, <2>1, <2>2 DEF Callers, Stepper
    <3>4. Chained(<<e>> \o k, c) /\ Caller(<<e>> \o k, c) = "run_debugger_done"
      BY <1>3, <2>2, <3>3, PushChained, Pushed
    <3>5. Caller(<<e>> \o k, c) \in Callers("wait_for_signal")
      BY <3>4 DEF Callers, Stepper
    <3> QED BY <1>6, <2>4, <3>2, <3>4, <3>5
  <2> QED BY <1>15, <2>3, <2>4 DEF RunMainReturns
<1>16. CASE MainReachedReturns
  BY <1>4, <1>16 DEF MainReachedReturns, Returned
<1> QED
  BY <1>7, <1>8, <1>9, <1>10, <1>11, <1>12, <1>13, <1>14, <1>15, <1>16 DEF CallReturns

\* An activation that a command, or run_debugger, begins with.
LEMMA FirstChained ==
  ASSUME NEW e, e.fn # "continue_execution", e.fn # Stepper, NEW c, c \in Callers(e.fn)
  PROVE  /\ Stack(<<e>>) /\ Chained(<<e>>, c) /\ Caller(<<e>>, c) = e.fn
         /\ <<e>> # <<>> /\ Head(<<e>>) = e
<1>1. Stack(<<>>) /\ <<e>> \o <<>> = <<e>> /\ Chained(<<>>, c) /\ Caller(<<>>, c) = c
  BY EmptyStack, PushFirst, EmptyChained DEF Caller
<1>2. Chained(<<e>> \o <<>>, c) /\ Caller(<<e>> \o <<>>, c) = e.fn
  BY <1>1, PushChained, Pushed
<1> QED BY <1>1, <1>2, OneListener

LEMMA RunDebuggerChains ==
  ASSUME IInv, MInv, PInv, CInv, RunDebugger
  PROVE  CInv'
<1>1. ctl = <<>> /\ Session /\ UNCHANGED <<last, event>> /\ last.cmd = "none"
  BY DEF RunDebugger, Session, Untouched, MInv
<1>2. Calm
  BY <1>1, PromptCalm
<1>3. CASE ctl' = ctl
  BY <1>1, <1>3, EmptyChained DEF CInv
<1>4. ASSUME NEW A, NEW d, CallContinue(A, <<RunMain(d)>>) PROVE CInv'
  <2> DEFINE e == RunMain(d)
  <2>1. e.fn = "run_debugger_run" /\ e.fn # Stepper /\ e.fn \in Listeners
        /\ "none" \in Callers(e.fn)
    BY DEF RunMain, Stepper, Listeners, Callers
  <2> HIDE DEF e
  <2>2. Waited("none")
    BY <1>4, <2>1, FirstChained, CallContinueWaits DEF e
  <2> QED BY <1>1, <1>2, <2>2, WaitedChains DEF Calm
<1> QED BY <1>3, <1>4 DEF RunDebugger

LEMMA CommandChains ==
  ASSUME IInv, MInv, PInv, CInv, Command
  PROVE  CInv'
<1>1. ctl = <<>> /\ Session /\ UNCHANGED event
  BY DEF Command, Break, Delete, ContinueCommand, InstCommand, LeaveCommand,
         StepCommand, NextCommand, Quit, AtPrompt, Session, Unissued, traceeVars
<1>2. Alive => event \notin {"step", "syscall_step"}
  BY <1>1, PromptCalm DEF Calm
<1>3. CASE ctl' = ctl
  BY <1>1, <1>3, EmptyChained DEF CInv
<1>4. ASSUME NEW cmd, NEW told, Issued(cmd, told) PROVE last'.cmd = cmd
  BY <1>4 DEF Issued
<1>5. ASSUME NEW A, NEW e, NEW c, e.fn # "continue_execution", e.fn # Stepper,
             e.fn \in Listeners, c \in Callers(e.fn), CallContinue(A, <<e>>), last'.cmd = c
      PROVE  CInv'
  <2>1. Waited(c)
    BY <1>5, FirstChained, CallContinueWaits
  <2> QED BY <1>1, <1>2, <1>5, <2>1, WaitedChains
<1>6. CASE (\E loc \in Locations : Break(loc) \/ Delete(loc)) \/ Quit
  BY <1>3, <1>6 DEF Break, Delete, Quit
<1>7. CASE ContinueCommand
  <2>1. /\ ExecContinue.fn # "continue_execution" /\ ExecContinue.fn # Stepper
        /\ ExecContinue.fn \in Listeners /\ "continue" \in Callers(ExecContinue.fn)
    BY DEF ExecContinue, Stepper, Listeners, Callers
  <2> QED BY <1>4, <1>5, <1>7, <2>1 DEF ContinueCommand
<1>8. CASE InstCommand
  <2>1. CallStepInstruction(armed, <<>>) /\ last'.cmd = "inst"
    BY <1>4, <1>8 DEF InstCommand
  <2>2. Waited("inst")
    BY <2>1, EmptyStack, EmptyChained, CallStepInstructionWaits DEF Caller
  <2> QED BY <1>1, <1>2, <2>1, <2>2, WaitedChains
<1>9. ASSUME NEW d, NEW A, CallContinue(A, <<RunTo(d)>>), last'.cmd \in {"next", "leave"}
      PROVE  CInv'
  <2>1. /\ RunTo(d).fn = "step_over_run" /\ RunTo(d).fn # Stepper
        /\ RunTo(d).fn \in Listeners /\ last'.cmd \in Callers(RunTo(d).fn)
    BY <1>9 DEF RunTo, Stepper, Listeners, Callers
  <2>2. CASE last'.cmd = "next"
    BY <1>5, <1>9, <2>1, <2>2
  <2>3. CASE last'.cmd = "leave"
    BY <1>5, <1>9, <2>1, <2>3
  <2> QED BY <1>9, <2>2, <2>3
<1>10. CASE LeaveCommand
  <2>1. PICK d, A : ctl' = ctl \/ CallContinue(A, <<RunTo(d)>>)
    BY <1>10 DEF LeaveCommand
  <2>2. last'.cmd = "leave"
    BY <1>4, <1>10 DEF LeaveCommand
  <2> QED BY <1>3, <1>9, <2>1, <2>2
<1>11. CASE StepCommand
  <2>1. PICK l : ctl' = ctl \/ CallStepInstruction(armed, <<StepLine(l, 0)>>)
    BY <1>11 DEF StepCommand, Refuse
  <2>2. last'.cmd = "step"
    BY <1>4, <1>11 DEF StepCommand
  <2> DEFINE e == StepLine(l, 0)
  <2>3. e.fn = "single_step_line" /\ e.fn # Stepper /\ "step" \in Callers(e.fn)
    BY DEF StepLine, Stepper, Callers
  <2> HIDE DEF e
  <2>4. ASSUME CallStepInstruction(armed, <<e>>) PROVE Waited("step")
    BY <2>3, <2>4, FirstChained, CallStepInstructionWaits
  <2> QED BY <1>1, <1>2, <1>3, <2>1, <2>2, <2>4, WaitedChains DEF e
<1>12. CASE NextCommand
  <2>1. PICK d, A : ctl' = ctl \/ CallContinue(A, <<RunTo(d)>>)
    BY <1>12 DEF NextCommand, Refuse
  <2>2. last'.cmd = "next"
    BY <1>4, <1>12 DEF NextCommand
  <2> QED BY <1>3, <1>9, <2>1, <2>2
<1> QED BY <1>6, <1>7, <1>8, <1>10, <1>11, <1>12 DEF Command

\* A single step ends where it was set going.
LEMMA ProcessChains ==
  ASSUME IInv, MInv, PInv, CInv, TraceeRuns \/ OthersSignal \/ Terminated \/ UNCHANGED vars
  PROVE  CInv'
<1>1. ctl' = ctl /\ ret' = ret /\ last'.cmd = last.cmd
  BY DEF TraceeRuns, TraceeStops, TraceeExecutes, OthersSignal, Terminated, vars, MInv,
         SignalStop, TrapStop, Execute, Signal, Kill, debuggerVars, traceeVars
<1>2. Alive' => /\ Alive
                /\ mode' = "step" => mode = "step"
                /\ event' \in {"step", "syscall_step"} => mode = "step" \/ event' = event
  <2>1. CASE TraceeStops /\ SignalStop
    <3>1. event' \in {"winch", "other"} /\ mode' = "stopped" /\ Running
      BY <2>1 DEF SignalStop, PInv
    <3> QED BY <3>1 DEF Running, Alive
  <2>2. CASE TraceeStops /\ TrapStop
    BY <2>2 DEF TrapStop, Running, Alive
  <2>3. CASE TraceeExecutes
    BY <2>3 DEF TraceeExecutes, Execute, Running, Alive
  <2>4. CASE OthersSignal \/ Terminated \/ UNCHANGED vars
    BY <2>4 DEF OthersSignal, Signal, Kill, Terminated, vars, traceeVars, Alive
  <2> QED BY <2>1, <2>2, <2>3, <2>4 DEF TraceeRuns, TraceeStops
<1> QED BY <1>1, <1>2 DEF CInv

\* CInv is inductive.
LEMMA CallersKept == Spec => []CInv
<1>1. Init => CInv
  BY EmptyChained DEF Init, TraceeInit, DebuggerInit, CInv
<1>2. IInv /\ MInv /\ PInv /\ CInv /\ [Next]_vars => CInv'
  BY WaitForSignalChains, CallReturnsChains, RunDebuggerChains, CommandChains, ProcessChains
  DEF Next, DebuggerWorks
<1> QED
  BY <1>1, <1>2, BreakpointsAccountedFor, SteppingStaysOnTop, NobodyRunsUnwatched, PTL DEF Spec

-----------------------------------------------------------------------------
(* Every command runs an instruction, and inst no more than one. *)

\* A call sets a living process running, with no trap at its program counter.
LEMMA CallReady ==
  ASSUME NEW A, NEW k, CallContinue(A, k) \/ CallStepInstruction(A, k), Alive
  PROVE  cpu.pc \notin armed' /\ Running'
BY DEF CallContinue, CallStepInstruction, CallStepBreakpoint, CallPtContinue, Disabled,
       PtContinue, PtSingleStep, GetPc, Running

\* The stack of inst.
LEMMA PopInner ==
  ASSUME NEW k, Stack(k), k # <<>>, Inner(k)
  PROVE  Inner(Tail(k)) /\ Head(k).fn \in {"wait_for_signal", Stepper, "single_step_instruction"}
<1>1. /\ Len(k) \in Nat \ {0} /\ Head(k) = k[1]
      /\ \A i \in 1 .. Len(Tail(k)) : i + 1 \in 1 .. Len(k) /\ Tail(k)[i] = k[i + 1]
  BY PopIndex
<1>2. 1 \in 1 .. Len(k)
  BY <1>1
<1> QED BY <1>1, <1>2 DEF Inner

LEMMA PushInner ==
  ASSUME NEW k, Stack(k), Inner(k), NEW e,
         e.fn \in {"wait_for_signal", Stepper, "single_step_instruction"}
  PROVE  Inner(<<e>> \o k)
<1> DEFINE s == <<e>> \o k
<1>1. ASSUME NEW i \in 1 .. Len(s)
      PROVE  s[i] = e \/ (i - 1 \in 1 .. Len(k) /\ s[i] = k[i - 1])
  BY <1>1, PushIndex
<1> HIDE DEF s
<1>2. Inner(s)
  BY <1>1 DEF Inner
<1> QED BY <1>2 DEF s

LEMMA InstInner ==
  ASSUME NEW A, NEW k, Stack(k), Inner(k), CallStepInstruction(A, k)
  PROVE  Inner(ctl') /\ mode' # "cont"
<1>1. mode' # "cont"
  BY DEF CallStepInstruction, CallStepBreakpoint, PtSingleStep, Alive
<1>2. /\ StepInstruction.fn = "single_step_instruction" /\ Wait.fn = "wait_for_signal"
      /\ StepInstruction.fn \notin Deleters /\ StepInstruction.fn # Stepper
  BY DEF StepInstruction, Wait, Deleters, Stepper
<1>3. CASE CallStepBreakpoint(A, <<StepInstruction>> \o k)
  <2> DEFINE j == <<StepInstruction>> \o k
             e == StepBreakpoint(GetPc)
             t == <<e>> \o j
  <2>1. e.fn = Stepper
    BY DEF StepBreakpoint, Stepper
  <2>2. Stack(j)
    BY <1>2, PushOther
  <2>3. Inner(j)
    BY <1>2, PushInner
  <2>4. ctl' = <<Wait, e>> \o j
    BY <1>3 DEF CallStepBreakpoint
  <2> HIDE DEF j
  <2>5. Stack(t) /\ ctl' = <<Wait>> \o t
    BY <2>2, <2>4, PushStep, PushTwo
  <2> HIDE DEF e
  <2>6. Inner(t)
    BY <2>1, <2>2, <2>3, PushInner
  <2> HIDE DEF t
  <2> QED BY <1>1, <1>2, <2>5, <2>6, PushInner
<1>4. CASE ctl' = <<Wait>> \o k
  BY <1>1, <1>2, <1>4, PushInner
<1> QED BY <1>3, <1>4 DEF CallStepInstruction

\* wait_for_signal again.
LEMMA WaitThenWaits ==
  ASSUME NEW k, Stack(k), WaitThen(k)
  PROVE  ctl' # <<>> /\ UNCHANGED <<armed, mode>>
BY Pushed DEF WaitThen

\* Before the first instruction of a command there is nothing to do but wait.
LEMMA OnlyWaits ==
  ASSUME IInv, PInv, Starting, ctl # <<>>, Alive, ~last.signalled, last.steps = 0, CallReturns
  PROVE  ctl' # <<>> /\ UNCHANGED <<armed, mode>>
<1>1. Head(ctl).fn # "wait_for_signal" /\ Stack(ctl) /\ Stack(Tail(ctl))
  BY Pop DEF CallReturns, WinchReturns, StepBreakpointReturns, ContinueReturns, IInv,
     StepInstructionReturns, ExecContinueReturns, StepLineReturns, RunToReturns,
     CleanUpReturns, RunMainReturns, MainReachedReturns, Returned
<1>2. Listening
  BY InsideCommand DEF PInv, Starting, Running
<1>3. Head(ctl).fn \in Listeners /\ ret = "SP_OK"
  BY <1>1, <1>2 DEF Listening, Wait
<1>4. CASE WinchReturns \/ ExecContinueReturns
  <2>1. WaitThen(Tail(ctl))
    BY <1>3, <1>4 DEF WinchReturns, ExecContinueReturns
  <2> QED BY <1>1, <2>1, WaitThenWaits
<1>5. CASE RunToReturns
  <2> DEFINE e == CleanUp(Head(ctl).dels)
  <2>1. e.fn \in Deleters /\ Head(ctl).fn \in Deleters /\ WaitThen(<<e>> \o Tail(ctl))
    BY <1>5 DEF RunToReturns, Returned, CleanUp, Deleters
  <2> HIDE DEF e
  <2>2. Stack(<<e>> \o Tail(ctl))
    BY <1>1, <2>1, DeleterAlone, PushFirst, OneDeleter
  <2> QED BY <2>1, <2>2, WaitThenWaits
<1>6. CASE RunMainReturns
  <2> DEFINE e == MainReached(Head(ctl).dels)
  <2>1. e.fn \in Deleters /\ WaitThen(<<e>>)
    BY <1>3, <1>6 DEF RunMainReturns, MainReached, Deleters
  <2> HIDE DEF e
  <2> QED BY <2>1, OneDeleter, WaitThenWaits
<1>7. ~ (StepBreakpointReturns \/ ContinueReturns \/ StepInstructionReturns \/ StepLineReturns
         \/ CleanUpReturns \/ MainReachedReturns)
  BY <1>3 DEF StepBreakpointReturns, ContinueReturns, StepInstructionReturns, StepLineReturns,
              CleanUpReturns, MainReachedReturns, Returned, Listeners, Stepper
<1> QED BY <1>4, <1>5, <1>6, <1>7 DEF CallReturns

\* The same for wait_for_signal, as long as no signal and no death ends the wait.
LEMMA OnlyWinch ==
  ASSUME PInv, AInv, ctl # <<>>, Alive', ~last'.signalled, last'.steps = 0, WaitForSignal
  PROVE  WaitWinch
<1>1. ~ (WaitDeath \/ WaitKilled \/ WaitNobody)
  BY DEF WaitDeath, WaitKilled, WaitNobody, Alive, traceeVars
<1>2. ~ WaitOther
  BY DEF WaitOther, AInv
<1>3. ~ WaitSigtrap
  <2> SUFFICES ASSUME WaitSigtrap PROVE FALSE
    OBVIOUS
  <2>1. last.steps = 0 /\ ~last.signalled /\ Alive /\ event \in {"trap", "step", "syscall_step"}
    BY DEF WaitSigtrap, AInv, Alive
  <2> QED BY <2>1 DEF AInv, Starting, PInv
<1> QED BY <1>1, <1>2, <1>3 DEF WaitForSignal

\* The commands start with nothing run, and no signal seen.
LEMMA IssuedAdvance ==
  ASSUME NEW cmd, NEW told, Issued(cmd, told)
  PROVE  /\ {"signalled", "told"} \subseteq DOMAIN last' /\ last'.steps = 0
         /\ ~last'.winched /\ ~last'.signalled /\ last'.cmd = cmd /\ last'.told = told
BY DEF Issued

LEMMA RunDebuggerAdvance ==
  ASSUME IInv, MInv, AInv, RunDebugger
  PROVE  AInv'
<1>1. ctl = <<>> /\ UNCHANGED <<last, cpu>> /\ last.cmd = "none"
  BY DEF RunDebugger, Untouched, MInv
<1>2. CASE ctl' = ctl
  BY <1>1, <1>2 DEF AInv, Starting, OneStep
<1>3. ASSUME NEW A, NEW k, CallContinue(A, k) PROVE AInv'
  <2>1. Alive' => Alive
    BY <1>3, PtLives DEF CallContinue, CallStepBreakpoint, CallPtContinue
  <2> QED BY <1>1, <1>3, <2>1, CallReady DEF AInv, Starting, OneStep
<1> QED BY <1>2, <1>3 DEF RunDebugger

LEMMA CommandAdvance ==
  ASSUME AInv, Command
  PROVE  AInv'
<1>1. ctl = <<>> /\ UNCHANGED cpu
  BY DEF Command, Break, Delete, ContinueCommand, InstCommand, LeaveCommand,
         StepCommand, NextCommand, Quit, AtPrompt, Unissued, traceeVars
<1>2. CASE (\E loc \in Locations : Break(loc) \/ Delete(loc)) \/ Quit
  <2>1. UNCHANGED <<ctl, last>>
    BY <1>2 DEF Break, Delete, Quit
  <2> QED BY <1>1, <2>1 DEF AInv, Starting, OneStep
<1>3. ASSUME NEW cmd, NEW told, Issued(cmd, told), ctl' = ctl PROVE AInv'
  BY <1>1, <1>3, IssuedAdvance DEF AInv, Starting, OneStep
<1>4. ASSUME NEW cmd, cmd # "inst", NEW told, Issued(cmd, told), NEW A, NEW k,
             CallContinue(A, k) \/ CallStepInstruction(A, k)
      PROVE  AInv'
  <2>1. Alive' => Alive
    BY <1>4, PtLives
    DEF CallContinue, CallStepInstruction, CallStepBreakpoint, CallPtContinue
  <2> QED BY <1>1, <1>4, <2>1, CallReady, IssuedAdvance DEF AInv, Starting, OneStep
<1>5. CASE InstCommand
  <2>1. Issued("inst", {}) /\ CallStepInstruction(armed, <<>>)
    BY <1>5 DEF InstCommand
  <2>2. Alive' => Alive
    BY <2>1, PtLives DEF CallStepInstruction, CallStepBreakpoint
  <2>3. Inner(ctl') /\ mode' # "cont"
    BY <2>1, EmptyStack, InstInner DEF Inner
  <2> QED BY <1>1, <2>1, <2>2, <2>3, CallReady, IssuedAdvance DEF AInv, Starting, OneStep
<1>6. CASE ContinueCommand
  BY <1>4, <1>6 DEF ContinueCommand
<1>7. CASE LeaveCommand
  BY <1>3, <1>4, <1>7 DEF LeaveCommand
<1>8. CASE StepCommand
  BY <1>3, <1>4, <1>8 DEF StepCommand, Refuse
<1>9. CASE NextCommand
  BY <1>3, <1>4, <1>9 DEF NextCommand, Refuse
<1> QED BY <1>2, <1>5, <1>6, <1>7, <1>8, <1>9 DEF Command

LEMMA WaitForSignalAdvances ==
  ASSUME IInv, MInv, PInv, AInv, WaitForSignal
  PROVE  AInv'
<1>1. ctl # <<>> /\ Stack(ctl) /\ {"cmd", "steps", "winched"} \subseteq DOMAIN last
  BY DEF WaitForSignal, WaitDeath, WaitSigtrap, WaitOther, WaitWinch, WaitKilled, WaitNobody,
         Waiting, IInv, MInv
<1>2. /\ {"signalled", "told"} \subseteq DOMAIN last' /\ last'.steps = last.steps
      /\ last'.cmd = last.cmd /\ (~last'.signalled => ~last.signalled)
      /\ (~last'.winched => ~last.winched)
  BY <1>1 DEF WaitForSignal, WaitDeath, WaitSigtrap, WaitOther, WaitWinch, WaitKilled,
              WaitNobody, AInv
<1>3. Starting'
  <2> SUFFICES ASSUME Alive', ~last'.signalled, last'.steps = 0
               PROVE  cpu'.pc \notin armed' /\ Running'
    BY DEF Starting
  <2>1. WaitWinch
    BY <1>1, OnlyWinch
  <2>2. CallContinue(armed, <<Winch>> \o Tail(ctl)) /\ UNCHANGED cpu
    BY <2>1 DEF WaitWinch
  <2>3. Alive
    BY <2>2, PtLives DEF CallContinue, CallStepBreakpoint, CallPtContinue
  <2> QED BY <2>2, <2>3, CallReady
<1>4. OneStep'
  <2> SUFFICES ASSUME Alive', ~last'.winched, last'.cmd = "inst"
               PROVE  /\ Inner(ctl') /\ mode' # "cont" /\ last'.steps \in {0, 1}
                      /\ Running' => last'.steps = 0
    BY DEF OneStep
  <2>1. WaitSigtrap \/ WaitOther
    BY <1>1 DEF WaitForSignal, WaitDeath, WaitWinch, WaitKilled, WaitNobody, Alive, traceeVars
  <2>2. ctl' = Tail(ctl) /\ mode' = mode /\ event # "none"
    BY <2>1 DEF WaitSigtrap, WaitOther, Return
  <2>3. Alive /\ ~Running /\ ~Running'
    BY <2>2 DEF PInv, Running, Alive
  <2>4. Inner(ctl) /\ mode # "cont" /\ last.steps \in {0, 1}
    BY <1>1, <1>2, <2>3 DEF AInv, OneStep
  <2> QED BY <1>1, <1>2, <2>2, <2>3, <2>4, PopInner
<1> QED BY <1>2, <1>3, <1>4 DEF AInv

LEMMA CallReturnsAdvance ==
  ASSUME IInv, PInv, AInv, CallReturns
  PROVE  AInv'
<1>1. /\ ctl # <<>> /\ Stack(ctl) /\ Head(ctl).fn # "wait_for_signal"
      /\ UNCHANGED <<last, cpu, event>>
  BY DEF CallReturns, WinchReturns, StepBreakpointReturns, ContinueReturns, IInv,
     StepInstructionReturns, ExecContinueReturns, StepLineReturns, RunToReturns,
     CleanUpReturns, RunMainReturns, MainReachedReturns, Returned, Untouched
<1>2. Alive' => Alive
  BY PtLives
  DEF CallReturns, WinchReturns, StepBreakpointReturns, ContinueReturns,
      StepInstructionReturns, ExecContinueReturns, StepLineReturns, RunToReturns,
      CleanUpReturns, RunMainReturns, MainReachedReturns, WaitThen, CallPtContinue,
      CallStepInstruction, CallStepBreakpoint, Alive
<1>3. Starting'
  <2> SUFFICES ASSUME Alive', ~last'.signalled, last'.steps = 0
               PROVE  cpu'.pc \notin armed' /\ (Running' \/ event' \in {"winch", "other"})
    BY DEF Starting
  <2>1. UNCHANGED <<armed, mode>>
    BY <1>1, <1>2, OnlyWaits DEF AInv
  <2> QED BY <1>1, <1>2, <2>1 DEF AInv, Starting, Running
<1>4. OneStep'
  <2> SUFFICES ASSUME Alive', ~last'.winched, last'.cmd = "inst"
               PROVE  /\ Inner(ctl') /\ mode' # "cont" /\ last'.steps \in {0, 1}
                      /\ Running' => last'.steps = 0
    BY DEF OneStep
  <2>1. Inner(ctl) /\ mode # "cont" /\ last.steps \in {0, 1} /\ (Running => last.steps = 0)
    BY <1>1, <1>2 DEF AInv, OneStep
  <2>2. Inner(Tail(ctl)) /\ Head(ctl).fn \in {Stepper, "single_step_instruction"}
    BY <1>1, <2>1, PopInner
  <2>3. StepBreakpointReturns \/ StepInstructionReturns
    BY <2>2
    DEF CallReturns, WinchReturns, ContinueReturns, ExecContinueReturns, StepLineReturns,
        RunToReturns, CleanUpReturns, RunMainReturns, MainReachedReturns, Returned, Stepper
  <2>4. ctl' = Tail(ctl) /\ UNCHANGED mode
    BY <2>3 DEF StepBreakpointReturns, StepInstructionReturns, Return
  <2> QED BY <1>1, <2>1, <2>2, <2>4 DEF Running
<1> QED BY <1>1, <1>3, <1>4 DEF AInv

LEMMA ProcessAdvances ==
  ASSUME IInv, MInv, PInv, AInv, TraceeRuns \/ OthersSignal \/ Terminated \/ UNCHANGED vars
  PROVE  AInv'
<1>1. ctl' = ctl /\ armed' = armed
  BY DEF TraceeRuns, TraceeStops, TraceeExecutes, OthersSignal, Terminated, vars,
         SignalStop, TrapStop, Execute, Signal, Kill, debuggerVars, traceeVars
<1>2. CASE TraceeStops /\ SignalStop
  <2>1. event' \in {"winch", "other"} /\ mode' = "stopped" /\ Running /\ UNCHANGED <<cpu, last>>
    BY <1>2 DEF TraceeStops, SignalStop, PInv, debuggerVars
  <2>2. Alive /\ ~Running' /\ mode' # "cont"
    BY <2>1 DEF Running, Alive
  <2> QED BY <1>1, <2>1, <2>2 DEF AInv, Starting, OneStep
<1>3. CASE TraceeStops /\ TrapStop
  <2>1. cpu.pc \in armed /\ mode' = "stopped" /\ Running /\ UNCHANGED last
    BY <1>3 DEF TraceeStops, TrapStop, debuggerVars
  <2>2. Alive /\ ~Running' /\ mode' # "cont"
    BY <2>1 DEF Running, Alive
  <2> QED BY <1>1, <2>1, <2>2 DEF AInv, Starting, OneStep
<1>4. CASE TraceeExecutes
  <2>1. last' = [last EXCEPT !.steps = IF @ = 0 THEN 1 ELSE 2] /\ Running
    BY <1>4 DEF TraceeExecutes, Execute
  <2>2. /\ last'.steps = (IF last.steps = 0 THEN 1 ELSE 2)
        /\ {"signalled", "told"} \subseteq DOMAIN last'
        /\ last'.winched = last.winched /\ last'.cmd = last.cmd
    BY <2>1 DEF MInv, AInv
  <2>3. Alive
    BY <2>1 DEF Running, Alive
  <2>4. mode = "step" => mode' \in {"stopped", "gone"}
    BY <1>4 DEF TraceeExecutes, Execute
  <2>5. mode # "cont" => ~Running' /\ mode' # "cont"
    BY <2>1, <2>4 DEF Running
  <2> QED BY <1>1, <2>1, <2>2, <2>3, <2>5 DEF AInv, Starting, OneStep
<1>5. CASE OthersSignal \/ Terminated \/ UNCHANGED vars
  <2>1. UNCHANGED <<cpu, last>> /\ (Alive' => UNCHANGED <<mode, event>>)
    BY <1>5 DEF OthersSignal, Signal, Kill, Terminated, vars, traceeVars, debuggerVars, Alive
  <2> QED BY <1>1, <2>1 DEF AInv, Starting, OneStep, Alive, Running
<1> QED BY <1>2, <1>3, <1>4, <1>5 DEF TraceeRuns, TraceeStops

\* AInv is inductive.
LEMMA AdvanceKept == Spec => []AInv
<1>1. Init => AInv
  BY DEF Init, TraceeInit, DebuggerInit, AInv, Starting, OneStep
<1>2. IInv /\ MInv /\ PInv /\ AInv /\ [Next]_vars => AInv'
  BY WaitForSignalAdvances, CallReturnsAdvance, RunDebuggerAdvance, CommandAdvance,
     ProcessAdvances
  DEF Next, DebuggerWorks
<1> QED
  BY <1>1, <1>2, BreakpointsAccountedFor, SteppingStaysOnTop, NobodyRunsUnwatched, PTL DEF Spec

\* The functions return to the prompt at the end of a command only.
LEMMA WorksToFinish ==
  ASSUME [Next]_vars, Finishes
  PROVE  WaitForSignal \/ CallReturns
BY DEF Finishes, Next, DebuggerWorks, RunDebugger, Command, Break, Delete, ContinueCommand,
       InstCommand, LeaveCommand, StepCommand, NextCommand, Quit, AtPrompt, TraceeRuns,
       TraceeStops, TraceeExecutes, OthersSignal, Terminated, vars, debuggerVars

\* Whoever returns to the prompt has set the process running and waited for it.
LEMMA FinishedAdvanced ==
  ASSUME IInv, MInv, PInv, CInv, AInv, [Next]_vars, Finishes, ~last'.signalled
  PROVE  /\ last.cmd = "inst" /\ ~last.winched => last.steps = 1
         /\ last.cmd = "continue" => last.steps >= 1
<1>1. ctl # <<>> /\ ctl' = <<>> /\ Alive /\ Alive'
  BY DEF Finishes
<1>2. last.steps # 0
  <2> SUFFICES ASSUME last.steps = 0 PROVE FALSE
    OBVIOUS
  <2>1. CASE WaitForSignal
    <3>1. last'.steps = 0
      BY <2>1 DEF WaitForSignal, WaitDeath, WaitSigtrap, WaitOther, WaitWinch, WaitKilled,
                  WaitNobody, MInv
    <3>2. WaitWinch
      BY <1>1, <2>1, <3>1, OnlyWinch
    <3> QED BY <1>1, <3>2, WinchWaits DEF Waited
  <2>2. CASE CallReturns
    <3>1. last' = last
      BY <2>2 DEF CallReturns, WinchReturns, StepBreakpointReturns, ContinueReturns,
           StepInstructionReturns, ExecContinueReturns, StepLineReturns, RunToReturns,
           CleanUpReturns, RunMainReturns, MainReachedReturns, Untouched
    <3> QED BY <1>1, <2>2, <3>1, OnlyWaits DEF AInv
  <2> QED BY <2>1, <2>2, WorksToFinish
<1>3. last.steps \in {1, 2}
  BY <1>2 DEF AInv
<1>4. last.cmd = "inst" /\ ~last.winched => last.steps = 1
  BY <1>1, <1>3 DEF AInv, OneStep
<1> QED BY <1>3, <1>4

\* inst runs one instruction and continue at least one, whatever breakpoints
\* are set where (single_step_instruction, continue_execution).
THEOREM EveryCommandAdvances == Spec => CommandsAdvance
<1> DEFINE Advances ==
      Finishes /\ ~last'.signalled =>
        /\ last.cmd = "inst" /\ ~last.winched => last.steps = 1
        /\ last.cmd = "continue" => last.steps >= 1
<1>1. IInv /\ MInv /\ PInv /\ CInv /\ AInv /\ [Next]_vars => [Advances]_vars
  BY FinishedAdvanced
<1>2. Spec => [][Advances]_vars
  <2> HIDE DEF Advances
  <2> QED
    BY <1>1, BreakpointsAccountedFor, SteppingStaysOnTop, NobodyRunsUnwatched, CallersKept,
       AdvanceKept, PTL DEF Spec
<1> QED BY <1>2 DEF CommandsAdvance

-----------------------------------------------------------------------------
(* continue, next and leave stop where they were told. *)

\* A call leaves the debts of its caller to be paid.
LEMMA CallDels ==
  ASSUME NEW A, NEW k, Stack(k), CallContinue(A, k) \/ CallStepInstruction(A, k)
  PROVE  Dels(ctl') = Dels(k)
<1>1. ASSUME NEW j, Stack(j), CallStepBreakpoint(A, j) PROVE Dels(ctl') = Dels(j)
  <2> DEFINE t == <<StepBreakpoint(GetPc)>> \o j
  <2>1. Stack(t) /\ Dels(t) = Dels(j) /\ ctl' = <<Wait>> \o t
    BY <1>1, PushStep, PushTwo DEF CallStepBreakpoint
  <2>2. Wait.fn \notin Deleters /\ Wait.fn # Stepper
    BY DEF Wait, Deleters, Stepper
  <2> HIDE DEF t
  <2> QED BY <2>1, <2>2, PushOther
<1>2. ASSUME NEW e, e.fn \notin Deleters, e.fn # Stepper
      PROVE  Stack(<<e>> \o k) /\ Dels(<<e>> \o k) = Dels(k)
  BY <1>2, PushOther
<1>3. /\ Continue.fn \notin Deleters /\ Continue.fn # Stepper
      /\ StepInstruction.fn \notin Deleters /\ StepInstruction.fn # Stepper
      /\ Wait.fn \notin Deleters /\ Wait.fn # Stepper
  BY DEF Continue, StepInstruction, Wait, Deleters, Stepper
<1>4. CASE CallStepBreakpoint(A, <<Continue>> \o k)
  BY <1>1, <1>2, <1>3, <1>4
<1>5. CASE CallStepBreakpoint(A, <<StepInstruction>> \o k)
  BY <1>1, <1>2, <1>3, <1>5
<1>6. CASE CallPtContinue(A, k)
  BY <1>6 DEF CallPtContinue
<1>7. CASE ctl' = <<Wait>> \o k
  BY <1>2, <1>3, <1>7
<1> QED BY <1>4, <1>5, <1>6, <1>7 DEF CallContinue, CallStepInstruction

\* While the process runs nobody is about to clean up.
LEMMA RunningUncleaned ==
  ASSUME IInv, PInv, ctl # <<>>, Running
  PROVE  Head(ctl).fn # "step_over_done"
<1>1. Listening
  BY InsideCommand DEF PInv, Running, Alive
<1> QED BY <1>1 DEF Listening, Listeners, Wait

\* A process that waitpid reports on behalf of anybody but a single step has
\* stopped at a breakpoint: of the user, or of the command.
LEMMA TrapArrives ==
  ASSUME IInv, PInv, CInv, AInv, SInv, WaitSigtrap, Alive', last.cmd # "none",
         Caller(Tail(ctl), last.cmd) \notin {Stepper, "single_step_line", "inst"}
  PROVE  Arrived'
<1>1. ctl # <<>> /\ Alive /\ event \in {"trap", "step", "syscall_step"}
  BY DEF WaitSigtrap, Waiting, Alive
<1>2. event = "trap"
  BY <1>1 DEF CInv
<1>3. cpu'.pc = cpu.pc - 1
  BY <1>2 DEF WaitSigtrap, RewoundPc, PInv
<1>4. /\ last'.odd = (last.odd \/ cpu.pc - 1 \notin armed)
      /\ last'.told = last.told /\ user' = user
  BY <1>2 DEF WaitSigtrap, PInv, AInv
<1>5. armed \subseteq user \union last.told
  BY <1>1, InsideCommand DEF Owing, Balanced, SInv
<1> QED BY <1>3, <1>4, <1>5 DEF Arrived

\* Nor when the process has just been set running.
LEMMA SetRunningUncleaned ==
  ASSUME IInv', PInv', NEW A, NEW k, CallContinue(A, k) \/ CallStepInstruction(A, k),
         ctl' # <<>>, Alive'
  PROVE  Head(ctl').fn # "step_over_done"
<1>1. Alive
  BY PtLives DEF CallContinue, CallStepInstruction, CallStepBreakpoint, CallPtContinue
<1>2. Running' /\ Session'
  BY <1>1, CallReady DEF IInv
<1>3. Listening'
  BY <1>2 DEF PInv, Running
<1> QED BY <1>3 DEF Listening, Listeners, Wait

LEMMA WaitForSignalStops ==
  ASSUME IInv, MInv, PInv, CInv, AInv, SInv, WaitForSignal, IInv', PInv'
  PROVE  SInv'
<1>1. /\ ctl # <<>> /\ Head(ctl) = Wait /\ Wait.fn = "wait_for_signal"
      /\ Wait.fn \notin Deleters /\ Wait.fn # Stepper
  BY DEF WaitForSignal, WaitDeath, WaitSigtrap, WaitOther, WaitWinch, WaitKilled, WaitNobody,
         Waiting, Wait, Deleters, Stepper
<1>2. Stack(ctl) /\ Stack(Tail(ctl)) /\ Dels(ctl) = Dels(Tail(ctl))
  BY <1>1, Pop DEF IInv
<1>3. last'.cmd = last.cmd /\ last'.told = last.told
  BY DEF WaitForSignal, WaitDeath, WaitSigtrap, WaitOther, WaitWinch, WaitKilled, WaitNobody,
         MInv, AInv
<1>4. CASE WaitDeath \/ WaitKilled \/ WaitNobody
  <2>1. ctl' = Tail(ctl) /\ ~Alive'
    BY <1>4 DEF WaitDeath, WaitKilled, WaitNobody, Return, Alive, traceeVars
  <2> QED BY <1>2, <1>3, <2>1 DEF SInv
<1>5. CASE WaitSigtrap \/ WaitOther
  <2>1. ctl' = Tail(ctl)
    BY <1>5 DEF WaitSigtrap, WaitOther, Return
  <2>2. ASSUME ctl' # <<>>, Alive', Head(ctl').fn = "step_over_done" PROVE Arrived'
    <3>1. CASE WaitOther
      BY <3>1 DEF WaitOther, AInv, Arrived
    <3>2. CASE WaitSigtrap
      <4>1. Caller(Tail(ctl), last.cmd) = "step_over_done"
        BY <2>1, <2>2 DEF Caller
      <4>2. last.cmd # "none"
        <5>1. Chained(Tail(ctl), last.cmd)
          BY <1>1, <1>2, PopChained DEF CInv
        <5>2. Tail(ctl) # <<>> /\ Head(Tail(ctl)).fn = "step_over_done"
          BY <2>1, <2>2
        <5> DEFINE t == Tail(ctl)
        <5>3. Stack(t) /\ t # <<>> /\ Chained(t, last.cmd) /\ Head(t).fn = "step_over_done"
          BY <1>2, <5>1, <5>2
        <5> HIDE DEF t
        <5>4. Tail(t) = <<>>
          BY <5>3, Pop DEF Deleters
        <5>5. Caller(Tail(t), last.cmd) \in Callers("step_over_done")
          BY <5>3, PopChained
        <5> QED BY <5>4, <5>5 DEF Caller, Callers, Stepper
      <4>3. Caller(Tail(ctl), last.cmd) \notin {Stepper, "single_step_line", "inst"}
        BY <4>1 DEF Stepper
      <4> QED BY <2>2, <3>2, <4>2, <4>3, TrapArrives
    <3> QED BY <1>5, <3>1, <3>2
  <2> QED BY <1>2, <1>3, <2>1, <2>2 DEF SInv
<1>6. CASE WaitWinch
  <2> DEFINE k == <<Winch>> \o Tail(ctl)
  <2>1. CallContinue(armed, k) /\ UNCHANGED cpu
    BY <1>6 DEF WaitWinch
  <2>2. Stack(k) /\ Dels(k) = Dels(ctl)
    BY <1>2, PushOther DEF Winch, Deleters, Stepper
  <2> HIDE DEF k
  <2>3. Dels(ctl') = Dels(ctl)
    BY <2>1, <2>2, CallDels
  <2>4. ctl' # <<>> /\ Alive' => Head(ctl').fn # "step_over_done"
    BY <2>1, SetRunningUncleaned
  <2> QED BY <1>3, <2>3, <2>4 DEF SInv
<1> QED BY <1>4, <1>5, <1>6 DEF WaitForSignal

LEMMA CallReturnsStops ==
  ASSUME IInv, MInv, PInv, CInv, AInv, SInv, CallReturns, IInv', PInv'
  PROVE  SInv'
<1> DEFINE k == Tail(ctl)
<1>1. /\ ctl # <<>> /\ Head(ctl).fn \notin {"wait_for_signal"}
      /\ UNCHANGED <<last, cpu, user>>
  BY DEF CallReturns, WinchReturns, StepBreakpointReturns, ContinueReturns,
     StepInstructionReturns, ExecContinueReturns, StepLineReturns, RunToReturns,
     CleanUpReturns, RunMainReturns, MainReachedReturns, Returned, Untouched
<1>2. /\ Stack(ctl) /\ Stack(k) /\ Dels(k) \subseteq Dels(ctl)
      /\ Caller(k, last.cmd) \in Callers(Head(ctl).fn)
  BY <1>1, Pop, PopChained, EmptyStack DEF IInv, CInv
<1>3. Wait.fn \notin Deleters /\ Wait.fn # Stepper /\ Wait.fn = "wait_for_signal"
  BY DEF Wait, Deleters, Stepper
<1>4. ASSUME Dels(ctl') \subseteq Dels(ctl),
             ctl' # <<>> /\ Alive' => Head(ctl').fn # "step_over_done"
      PROVE  SInv'
  BY <1>1, <1>4 DEF SInv
<1>5. ASSUME NEW r, Return(r), Head(ctl).fn # "wait_for_signal_winch" PROVE SInv'
  <2>1. ctl' = k
    BY <1>5 DEF Return
  <2>2. ctl' # <<>> => Head(ctl').fn # "step_over_done"
    <3>1. "step_over_done" \notin Callers(Head(ctl).fn)
      BY <1>1, <1>5 DEF Callers, Stepper, Listeners
    <3>2. k # <<>> => Head(k).fn # "step_over_done"
      BY <1>2, <3>1 DEF Caller
    <3> QED BY <2>1, <3>2
  <2> QED BY <1>2, <1>4, <2>1, <2>2
<1>6. ASSUME NEW t, Stack(t), Dels(t) \subseteq Dels(ctl), WaitThen(t) PROVE SInv'
  <2>1. Dels(ctl') = Dels(t) /\ Head(ctl') = Wait
    BY <1>3, <1>6, PushOther, Pushed DEF WaitThen
  <2> QED BY <1>3, <1>4, <1>6, <2>1
<1>7. ASSUME NEW t, Stack(t), Dels(t) \subseteq Dels(ctl),
             CallContinue(armed, t) \/ CallStepInstruction(armed, t)
      PROVE  SInv'
  BY <1>4, <1>7, CallDels, SetRunningUncleaned
<1>8. CASE WinchReturns
  BY <1>2, <1>6, <1>8 DEF WinchReturns
<1>9. CASE StepBreakpointReturns \/ StepInstructionReturns
  BY <1>5, <1>9 DEF StepBreakpointReturns, StepInstructionReturns, Returned
<1>10. CASE ContinueReturns
  <2>1. ctl' = k /\ Head(ctl).fn = "continue_execution"
    BY <1>10 DEF ContinueReturns, CallPtContinue, Returned
  <2>2. ctl' # <<>> => Head(ctl').fn # "step_over_done"
    BY <1>2, <2>1 DEF Caller, Callers, Stepper, Listeners
  <2> QED BY <1>2, <1>4, <2>1, <2>2
<1>11. CASE ExecContinueReturns
  <2>1. Head(ctl).fn = "exec_continue"
    BY <1>11 DEF ExecContinueReturns, Returned
  <2> QED BY <1>2, <1>5, <1>6, <1>11, <2>1 DEF ExecContinueReturns
<1>12. CASE StepLineReturns
  <2>1. Head(ctl).fn = "single_step_line"
    BY <1>12 DEF StepLineReturns, Returned
  <2>2. PICK l, n : \/ Return("SP_ERR") \/ Return("SP_OK")
                    \/ CallStepInstruction(armed, <<StepLine(l, n)>> \o k)
    BY <1>12 DEF StepLineReturns
  <2>3. Stack(<<StepLine(l, n)>> \o k) /\ Dels(<<StepLine(l, n)>> \o k) = Dels(k)
    BY <1>2, PushOther DEF StepLine, Deleters, Stepper
  <2> QED BY <1>2, <1>5, <1>7, <2>1, <2>2, <2>3
<1>13. CASE RunToReturns
  <2> DEFINE e == CleanUp(Head(ctl).dels)
  <2>1. Head(ctl).fn \in Deleters /\ WaitThen(<<e>> \o k)
    BY <1>13 DEF RunToReturns, Returned, Deleters
  <2>2. e.fn \in Deleters /\ e.dels = Head(ctl).dels
    BY DEF CleanUp, Deleters
  <2> HIDE DEF e
  <2>3. k = <<>> /\ Dels(ctl) = Head(ctl).dels
    BY <1>1, <1>2, <2>1, Pop
  <2>4. <<e>> \o k = <<e>> /\ Stack(<<e>>) /\ Dels(<<e>>) = e.dels
    BY <2>2, <2>3, PushFirst, OneDeleter
  <2> QED BY <1>6, <2>1, <2>2, <2>3, <2>4
<1>14. CASE CleanUpReturns
  BY <1>5, <1>14 DEF CleanUpReturns, Returned
<1>15. CASE RunMainReturns
  <2> DEFINE e == MainReached(Head(ctl).dels)
  <2>1. Head(ctl).fn = "run_debugger_run"
    BY <1>15 DEF RunMainReturns, Returned
  <2>2. e.fn \in Deleters /\ e.dels = Head(ctl).dels
    BY DEF MainReached, Deleters
  <2>3. CASE WaitThen(<<e>>)
    <3> HIDE DEF e
    <3>1. Dels(ctl) = Head(ctl).dels
      BY <1>1, <1>2, <2>1, Pop DEF Deleters
    <3>2. Stack(<<e>>) /\ Dels(<<e>>) = e.dels
      BY <2>2, OneDeleter
    <3> QED BY <1>6, <2>2, <2>3, <3>1, <3>2
  <2>4. CASE Return(ret)
    BY <1>5, <2>1, <2>4
  <2> QED BY <1>15, <2>3, <2>4 DEF RunMainReturns
<1>16. CASE MainReachedReturns
  BY <1>5, <1>16 DEF MainReachedReturns, Returned
<1> QED
  BY <1>8, <1>9, <1>10, <1>11, <1>12, <1>13, <1>14, <1>15, <1>16 DEF CallReturns

LEMMA RunDebuggerStops ==
  ASSUME MInv, SInv, RunDebugger, IInv', PInv'
  PROVE  SInv'
<1>1. ctl = <<>> /\ last' = last /\ last.cmd = "none"
  BY DEF RunDebugger, Untouched, MInv
<1>2. ctl' # <<>> /\ Alive' => Head(ctl').fn # "step_over_done"
  BY <1>1, SetRunningUncleaned DEF RunDebugger
<1> QED BY <1>1, <1>2 DEF SInv

\* A command owes no more breakpoints than it was told of.
LEMMA CommandStops ==
  ASSUME SInv, Command, IInv', PInv'
  PROVE  SInv'
<1>1. ctl = <<>>
  BY DEF Command, Break, Delete, ContinueCommand, InstCommand, LeaveCommand,
         StepCommand, NextCommand, Quit, AtPrompt
<1>2. CASE ctl' = <<>>
  BY <1>2, EmptyStack DEF SInv
<1>3. ASSUME NEW told, last'.told = told, NEW A, NEW t, Stack(t), Dels(t) \subseteq told,
             CallContinue(A, t) \/ CallStepInstruction(A, t)
      PROVE  SInv'
  <2>1. Dels(ctl') \subseteq last'.told
    BY <1>3, CallDels
  <2>2. ctl' # <<>> /\ Alive' => Head(ctl').fn # "step_over_done"
    BY <1>3, SetRunningUncleaned
  <2> QED BY <2>1, <2>2 DEF SInv
<1>4. ASSUME NEW e, e.fn \notin Deleters, e.fn # Stepper
      PROVE  Stack(<<e>>) /\ Dels(<<e>>) = {}
  BY <1>4, EmptyStack, PushFirst, PushOther
<1>5. ASSUME NEW d PROVE Stack(<<RunTo(d)>>) /\ Dels(<<RunTo(d)>>) = d
  BY OneDeleter DEF RunTo, Deleters
<1>6. CASE (\E loc \in Locations : Break(loc) \/ Delete(loc)) \/ Quit
  BY <1>1, <1>2, <1>6 DEF Break, Delete, Quit
<1>7. CASE ContinueCommand
  <2>1. last'.told = {} /\ CallContinue(armed, <<ExecContinue>>)
    BY <1>7 DEF ContinueCommand, Issued
  <2>2. Stack(<<ExecContinue>>) /\ Dels(<<ExecContinue>>) = {}
    BY <1>4 DEF ExecContinue, Deleters, Stepper
  <2> QED BY <1>3, <2>1, <2>2
<1>8. CASE InstCommand
  <2>1. last'.told = {} /\ CallStepInstruction(armed, <<>>)
    BY <1>8 DEF InstCommand, Issued
  <2> QED BY <1>3, <2>1, EmptyStack
<1>9. CASE LeaveCommand
  <2>1. CASE UNCHANGED ctl
    BY <1>1, <1>2, <2>1
  <2>2. CASE CallContinue(Enabled(armed, {ReturnAddress}), <<RunTo({ReturnAddress} \ armed)>>)
    <3> DEFINE d == {ReturnAddress} \ armed
    <3>1. last'.told = {ReturnAddress} /\ d \subseteq last'.told
      BY <1>9 DEF LeaveCommand, Issued
    <3> HIDE DEF d
    <3>2. Stack(<<RunTo(d)>>) /\ Dels(<<RunTo(d)>>) \subseteq last'.told
      BY <1>5, <3>1
    <3> QED BY <1>3, <2>2, <3>2 DEF d
  <2> QED BY <1>9, <2>1, <2>2 DEF LeaveCommand
<1>10. CASE StepCommand
  <2>1. PICK l : ctl' = ctl \/ CallStepInstruction(armed, <<StepLine(l, 0)>>)
    BY <1>10 DEF StepCommand, Refuse
  <2>2. last'.told = {}
    BY <1>10 DEF StepCommand, Issued
  <2>3. Stack(<<StepLine(l, 0)>>) /\ Dels(<<StepLine(l, 0)>>) = {}
    BY <1>4 DEF StepLine, Deleters, Stepper
  <2> QED BY <1>1, <1>2, <1>3, <2>1, <2>2, <2>3
<1>11. CASE NextCommand
  <2> DEFINE told == StepOverLines \union {ReturnAddress}
             d == StepOverDels(StepOverLines)
  <2>1. CASE UNCHANGED ctl
    BY <1>1, <1>2, <2>1
  <2>2. CASE Issued("next", told) /\ CallContinue(Enabled(armed, told), <<RunTo(d)>>)
    <3>1. last'.told = told /\ d \subseteq last'.told
      BY <2>2 DEF Issued, StepOverDels
    <3> HIDE DEF d, told
    <3>2. Stack(<<RunTo(d)>>) /\ Dels(<<RunTo(d)>>) \subseteq last'.told
      BY <1>5, <3>1
    <3> QED BY <1>3, <2>2, <3>2
  <2> QED BY <1>11, <2>1, <2>2 DEF NextCommand, Refuse
<1> QED BY <1>6, <1>7, <1>8, <1>9, <1>10, <1>11 DEF Command

LEMMA ProcessStops ==
  ASSUME IInv, MInv, PInv, AInv, SInv, TraceeRuns \/ OthersSignal \/ Terminated \/ UNCHANGED vars
  PROVE  SInv'
<1>1. /\ UNCHANGED <<ctl, user>> /\ last'.cmd = last.cmd /\ last'.told = last.told
      /\ last'.signalled = last.signalled /\ last'.odd = last.odd
  BY DEF TraceeRuns, TraceeStops, TraceeExecutes, OthersSignal, Terminated, vars, MInv, AInv,
         PInv, SignalStop, TrapStop, Execute, Signal, Kill, debuggerVars, traceeVars
<1>2. TraceeRuns => Running
  BY DEF TraceeRuns, TraceeStops, TraceeExecutes, SignalStop, TrapStop, Execute
<1>3. ctl' # <<>> /\ Alive' /\ Head(ctl').fn = "step_over_done" => Arrived'
  <2> SUFFICES ASSUME ctl' # <<>>, Alive', Head(ctl').fn = "step_over_done"
               PROVE  Arrived'
    OBVIOUS
  <2>1. ~TraceeRuns
    BY <1>1, <1>2, RunningUncleaned
  <2>2. Alive /\ UNCHANGED cpu
    BY <2>1 DEF OthersSignal, Signal, Kill, Terminated, vars, traceeVars, Alive
  <2> QED BY <1>1, <2>2 DEF SInv, Arrived
<1> QED BY <1>1, <1>3 DEF SInv

\* SInv is inductive.
LEMMA StopsKept == Spec => []SInv
<1>1. Init => SInv
  BY DEF Init, TraceeInit, DebuggerInit, SInv
<1>2. /\ IInv /\ MInv /\ PInv /\ CInv /\ AInv /\ IInv' /\ PInv'
      /\ SInv /\ [Next]_vars
      => SInv'
  BY WaitForSignalStops, CallReturnsStops, RunDebuggerStops, CommandStops, ProcessStops
  DEF Next, DebuggerWorks
<1> QED
  BY <1>1, <1>2, BreakpointsAccountedFor, SteppingStaysOnTop, NobodyRunsUnwatched, CallersKept,
     AdvanceKept, PTL DEF Spec

\* Whoever returns to the prompt has waited for the process to stop.
LEMMA FinishedArrived ==
  ASSUME IInv, MInv, PInv, CInv, AInv, SInv, [Next]_vars, PInv', Finishes, last.cmd \in Runs
  PROVE  mode' = "stopped" /\ Arrived'
<1>1. ctl # <<>> /\ ctl' = <<>> /\ Alive /\ Alive' /\ Stack(ctl) /\ last.cmd # "none"
  BY DEF Finishes, IInv, Runs
<1>2. Caller(Tail(ctl), last.cmd) \in Callers(Head(ctl).fn)
  BY <1>1, PopChained DEF CInv
<1>3. CASE WaitForSignal
  <2>1. phase' = phase
    BY <1>3 DEF WaitForSignal, WaitDeath, WaitSigtrap, WaitOther, WaitWinch, WaitKilled, WaitNobody
  <2>2. mode' = "stopped"
    BY <1>1, <2>1 DEF IInv, PInv, Session, Listening
  <2>3. CASE WaitOther
    BY <2>2, <2>3 DEF WaitOther, AInv, Arrived
  <2>4. CASE WaitSigtrap
    <3>1. Caller(Tail(ctl), last.cmd) = last.cmd
      BY <1>1, <2>4 DEF WaitSigtrap, Return, Caller
    <3>2. last.cmd \notin {Stepper, "single_step_line", "inst"}
      BY DEF Runs, Stepper
    <3> QED BY <1>1, <2>2, <2>4, <3>1, <3>2, TrapArrives
  <2>5. CASE WaitWinch
    BY <1>1, <2>5, WinchWaits DEF Waited
  <2>6. ~ (WaitDeath \/ WaitKilled \/ WaitNobody)
    BY <1>1 DEF WaitDeath, WaitKilled, WaitNobody, Alive, traceeVars
  <2> QED BY <1>3, <2>3, <2>4, <2>5, <2>6 DEF WaitForSignal
<1>4. CASE CallReturns
  <2>1. Stack(Tail(ctl)) /\ UNCHANGED <<last, cpu, user>>
    BY <1>1, <1>4, Pop
    DEF CallReturns, WinchReturns, StepBreakpointReturns, ContinueReturns,
        StepInstructionReturns, ExecContinueReturns, StepLineReturns, RunToReturns,
        CleanUpReturns, RunMainReturns, MainReachedReturns, Untouched
  <2>2. \A t : Stack(t) => ~WaitThen(t)
    BY <1>1, WaitThenWaits
  <2>3. CASE CleanUpReturns
    <3>1. phase' = phase /\ Arrived
      BY <1>1, <2>3 DEF CleanUpReturns, Returned, SInv
    <3> QED BY <1>1, <2>1, <3>1 DEF IInv, PInv, Session, Listening, Arrived
  <2>4. CASE WinchReturns
    BY <2>1, <2>2, <2>4 DEF WinchReturns
  <2>5. CASE ExecContinueReturns
    <3>1. ret = "SP_OK"
      BY <1>1, <2>5 DEF ExecContinueReturns, Returned, CInv, Listeners
    <3> QED BY <2>1, <2>2, <2>5, <3>1 DEF ExecContinueReturns
  <2>6. CASE RunToReturns
    <3> DEFINE e == CleanUp(Head(ctl).dels)
    <3>1. e.fn \in Deleters /\ Head(ctl).fn \in Deleters /\ WaitThen(<<e>> \o Tail(ctl))
      BY <2>6 DEF RunToReturns, Returned, CleanUp, Deleters
    <3> HIDE DEF e
    <3>2. Stack(<<e>> \o Tail(ctl))
      BY <1>1, <3>1, DeleterAlone, PushFirst, OneDeleter
    <3> QED BY <2>2, <3>1, <3>2
  <2>7. CASE StepBreakpointReturns \/ ContinueReturns \/ StepInstructionReturns
    <3>1. /\ Head(ctl).fn \in {Stepper, "continue_execution", "single_step_instruction"}
          /\ ctl' = Tail(ctl)
      BY <2>7 DEF StepBreakpointReturns, ContinueReturns, StepInstructionReturns,
                  CallPtContinue, Returned, Return, Stepper
    <3>2. last.cmd \in Callers(Head(ctl).fn)
      BY <1>1, <1>2, <3>1 DEF Caller
    <3> QED BY <3>1, <3>2 DEF Callers, Runs, Listeners, Stepper
  <2>8. CASE StepLineReturns
    <3>1. Head(ctl).fn = "single_step_line"
      BY <2>8 DEF StepLineReturns, Returned
    <3>2. Caller(Tail(ctl), last.cmd) = "step"
      BY <1>2, <3>1 DEF Callers, Stepper
    <3>3. PICK l, n : \/ ctl' = Tail(ctl)
                      \/ CallStepInstruction(armed, <<StepLine(l, n)>> \o Tail(ctl))
      BY <2>8 DEF StepLineReturns, Return
    <3>4. ctl' = Tail(ctl)
      <4> DEFINE e == StepLine(l, n)
      <4>1. e.fn = "single_step_line" /\ e.fn \notin Deleters /\ e.fn # Stepper
            /\ "step" \in Callers(e.fn)
        BY DEF StepLine, Deleters, Stepper, Callers
      <4> HIDE DEF e
      <4>2. /\ Stack(<<e>> \o Tail(ctl)) /\ Chained(<<e>> \o Tail(ctl), last.cmd)
            /\ Caller(<<e>> \o Tail(ctl), last.cmd) = "single_step_line"
        BY <1>1, <2>1, <3>2, <4>1, PopChained, PushOther, PushChained, Pushed DEF CInv
      <4>3. ~CallStepInstruction(armed, <<e>> \o Tail(ctl))
        BY <1>1, <4>2, CallStepInstructionWaits DEF Waited
      <4> QED BY <3>3, <4>3 DEF e
    <3> QED BY <1>1, <3>2, <3>4 DEF Caller, Runs
  <2>9. CASE RunMainReturns \/ MainReachedReturns
    <3>1. Head(ctl).fn \in {"run_debugger_run", "run_debugger_done"}
      BY <2>9 DEF RunMainReturns, MainReachedReturns, Returned
    <3>2. Tail(ctl) = <<>>
      BY <1>1, <3>1, Pop DEF Deleters
    <3> QED BY <1>1, <1>2, <3>1, <3>2 DEF Caller, Callers, Stepper
  <2> QED BY <1>4, <2>3, <2>4, <2>5, <2>6, <2>7, <2>8, <2>9 DEF CallReturns
<1> QED BY <1>3, <1>4, WorksToFinish

\* continue, next and leave return with the process stopped at a breakpoint of
\* the user or at one of their own, whatever the program, up to a signal, an
\* int3 of the program and a system call (exec_continue, step_over, step_out).
THEOREM CommandsStopWhereTold == Spec => StopsWhereTold
<1> DEFINE Stops ==
      Finishes /\ last.cmd \in Runs =>
        /\ mode' = "stopped"
        /\ last'.signalled \/ last'.odd \/ cpu'.pc \in last.told \union user
<1>1. IInv /\ MInv /\ PInv /\ CInv /\ AInv /\ SInv /\ PInv' /\ [Next]_vars => [Stops]_vars
  <2> SUFFICES ASSUME IInv, MInv, PInv, CInv, AInv, SInv, PInv', [Next]_vars,
                      Finishes, last.cmd \in Runs
               PROVE  /\ mode' = "stopped"
                      /\ last'.signalled \/ last'.odd \/ cpu'.pc \in last.told \union user
    OBVIOUS
  <2>1. mode' = "stopped" /\ Arrived'
    BY FinishedArrived
  <2>2. WaitForSignal \/ CallReturns
    BY WorksToFinish
  <2>3. user' = user /\ last'.told = last.told
    BY <2>2
    DEF WaitForSignal, WaitDeath, WaitSigtrap, WaitOther, WaitWinch, WaitKilled, WaitNobody,
        CallReturns, WinchReturns, StepBreakpointReturns, ContinueReturns,
        StepInstructionReturns, ExecContinueReturns, StepLineReturns, RunToReturns,
        CleanUpReturns, RunMainReturns, MainReachedReturns, Untouched, AInv
  <2> QED BY <2>1, <2>3 DEF Arrived
<1>2. Spec => [][Stops]_vars
  <2> HIDE DEF Stops
  <2> QED
    BY <1>1, BreakpointsAccountedFor, SteppingStaysOnTop, NobodyRunsUnwatched, CallersKept,
       AdvanceKept, StopsKept, PTL DEF Spec
<1> QED BY <1>2 DEF StopsWhereTold

-----------------------------------------------------------------------------
(* The breakpoints of next. *)

\* The row a compiler means by an address of a program.
RowAt(p, a) == LET u == p.units[UnitOfPc(p.units, a)] IN u.rows[RowOf(u, a)]

\* A statement of the function f, and not of the line l.
Elsewhere(p, f, l, a) ==
  /\ SymbolFromAddr(p.symbols, a) = f
  /\ RowAt(p, a).addr = a /\ RowAt(p, a).stmt /\ RowAt(p, a).ln # l

\* next was told to stop at every one of them, what it was told is enabled until
\* it cleans up, and the breakpoint it steps over is none of them.
NInv ==
  /\ {"told", "func", "line", "exact"} \subseteq DOMAIN last
  /\ ctl # <<>> /\ Alive /\ last.cmd = "next" =>
       /\ last.told \subseteq user \union Dels(ctl)
       /\ last.exact /\ prog.load = 0 /\ prog \in LaidOut =>
            /\ \A a \in Mapped : Elsewhere(prog, last.func, last.line, a) => a \in last.told
            /\ ~last.winched =>
                 \A a \in Steps(ctl) : ~Elsewhere(prog, last.func, last.line, a)

-----------------------------------------------------------------------------
(* Tables: what next is told. *)

\* What LinesLaidOut says of one table.
RowsFacts(u) ==
  /\ Len(u.rows) \in Nat /\ DOMAIN u.rows = 1 .. Len(u.rows)
  /\ \A i \in 1 .. Len(u.rows) : u.rows[i].addr \in Nat /\ u.rows[i] \in Range(u.rows)
  /\ \A i, j \in 1 .. Len(u.rows) : i < j => u.rows[i].addr <= u.rows[j].addr
  /\ \A i, j \in 1 .. Len(u.rows) :
       u.rows[i].addr = u.rows[j].addr => u.rows[i].ln = u.rows[j].ln

LEMMA RowsLaid ==
  ASSUME NEW p, LinesLaidOut(p), NEW u \in Range(p.units)
  PROVE  RowsFacts(u) /\ RowsOf(p.units, u.file) = u.rows
<1>1. /\ u.rows \in Seq(Range(u.rows)) /\ RowsOf(p.units, u.file) = u.rows
      /\ \A r, x \in Range(u.rows) : r.addr \in Nat /\ (r.addr = x.addr => r.ln = x.ln)
      /\ \A i, j \in DOMAIN u.rows : i < j => u.rows[i].addr <= u.rows[j].addr
  BY DEF LinesLaidOut
<1>2. Len(u.rows) \in Nat /\ DOMAIN u.rows = 1 .. Len(u.rows)
  BY <1>1
<1>3. \A i \in 1 .. Len(u.rows) : u.rows[i] \in Range(u.rows)
  BY <1>2 DEF Range
<1> QED BY <1>1, <1>2, <1>3 DEF RowsFacts

LEMMA UnitFound ==
  ASSUME NEW p, LinesLaidOut(p), NEW a, UnitOfPc(p.units, a) # NotFound
  PROVE  p.units[UnitOfPc(p.units, a)] \in Range(p.units)
<1> DEFINE I == {j \in 1 .. Len(p.units) : p.units[j].low <= a /\ a <= p.units[j].high}
           n == UnitOfPc(p.units, a)
<1>1. Len(p.units) \in Nat /\ DOMAIN p.units = 1 .. Len(p.units)
  BY DEF LinesLaidOut
<1>2. n = IF I # {} THEN Min(I) ELSE 0
  BY DEF UnitOfPc, SelectInSeq
<1>3. I \in SUBSET Nat
  OBVIOUS
<1> HIDE DEF I, n
<1>4. n \in I
  BY <1>2, <1>3, MinIsLeast DEF NotFound, n
<1> QED BY <1>1, <1>4 DEF I, n, Range

LEMMA SymbolFound ==
  ASSUME NEW p, LinesLaidOut(p), NEW a \in Nat, SymbolFromAddr(p.symbols, a) # NotFound
  PROVE  LET f == SymbolFromAddr(p.symbols, a)
         IN  /\ f \in DOMAIN p.symbols /\ a \in AddrsOf(p, f)
             /\ p.symbols[f].low \in Nat /\ p.symbols[f].high \in Nat
             /\ p.symbols[f].low <= a /\ a <= p.symbols[f].high
<1> DEFINE I == {j \in 1 .. Len(p.symbols) : p.symbols[j].low <= a /\ a <= p.symbols[j].high}
           f == SymbolFromAddr(p.symbols, a)
<1>1. Len(p.symbols) \in Nat /\ DOMAIN p.symbols = 1 .. Len(p.symbols)
  BY DEF LinesLaidOut
<1>2. f = IF I # {} THEN Min(I) ELSE 0
  BY DEF SymbolFromAddr, SelectInSeq
<1>3. I \in SUBSET Nat
  OBVIOUS
<1> HIDE DEF I
<1>4. f \in I
  BY <1>2, <1>3, MinIsLeast DEF NotFound
<1>5. f \in DOMAIN p.symbols /\ p.symbols[f].low <= a /\ a <= p.symbols[f].high
  BY <1>1, <1>4 DEF I
<1>6. p.symbols[f].low \in Nat /\ p.symbols[f].high \in Nat
  <2>1. p.symbols[f] \in Range(p.symbols)
    BY <1>5 DEF Range
  <2> HIDE DEF f
  <2> QED BY <2>1 DEF LinesLaidOut
<1>7. a \in AddrsOf(p, f)
  BY <1>5, <1>6 DEF AddrsOf
<1> QED BY <1>5, <1>6, <1>7

\* Behind a row, the row that a compiler means is not before it.
LEMMA RowOfIs ==
  ASSUME NEW u, RowsFacts(u), NEW a \in Nat, NEW e \in 1 .. Len(u.rows), u.rows[e].addr <= a
  PROVE  /\ RowOf(u, a) \in 1 .. Len(u.rows) /\ e <= RowOf(u, a)
         /\ u.rows[RowOf(u, a)].addr <= a
<1> DEFINE I == {i \in 1 .. Len(u.rows) : u.rows[i].addr <= a}
<1>1. RowOf(u, a) = IF I # {} THEN Max(I) ELSE 0
  BY DEF RowOf, SelectLastInSeq
<1>2. Len(u.rows) \in Nat /\ I \in SUBSET (0 .. Len(u.rows)) /\ e \in I
  BY DEF RowsFacts
<1>3. RowOf(u, a) \in I /\ e <= RowOf(u, a)
  <2> HIDE DEF I
  <2>1. Max(I) \in I /\ \A y \in I : Max(I) >= y
    BY <1>2, MaxIsGreatest
  <2>2. e \in Int /\ Max(I) \in Int
    <3>1. \A x \in I : x \in Int
      BY <1>2
    <3> QED BY <1>2, <2>1, <3>1
  <2> QED BY <1>1, <1>2, <2>1, <2>2
<1> QED BY <1>3

\* sd_line_entry_from_pc of the address of a row.
LEMMA ExactRow ==
  ASSUME NEW p, LinesLaidOut(p), NEW a, Position(p.units, p.symbols, a).exact
  PROVE  LET n == UnitOfPc(p.units, a)
         IN  /\ n # NotFound /\ a \in Nat
             /\ SymbolFromAddr(p.symbols, a) # NotFound
             /\ RowOf(p.units[n], a) # NotFound
             /\ Position(p.units, p.symbols, a).ln = RowAt(p, a).ln
<1> DEFINE n == UnitOfPc(p.units, a)
           u == p.units[n]
           e == SelectInSeq(u.rows, LAMBDA r : r.addr = a)
           I == {j \in 1 .. Len(u.rows) : u.rows[j].addr = a}
<1>1. SymbolFromAddr(p.symbols, a) # NotFound /\ EntryFromPc(p.units, a).exact
  BY DEF Position, NoPosition
<1>2. n # NotFound
  BY <1>1 DEF EntryFromPc, NoPosition
<1>3. RowsFacts(u) /\ RowsOf(p.units, u.file) = u.rows
  BY <1>2, UnitFound, RowsLaid
<1>4. e # NotFound /\ EntryFromPc(p.units, a).ln = u.rows[e].ln
  BY <1>1, <1>2, <1>3 DEF EntryFromPc, NoPosition
<1>5. e = IF I # {} THEN Min(I) ELSE 0
  BY DEF SelectInSeq
<1>6. I \in SUBSET Nat
  OBVIOUS
<1>7. e \in I
  <2> HIDE DEF I, e
  <2> QED BY <1>4, <1>5, <1>6, MinIsLeast DEF NotFound
<1>8. e \in 1 .. Len(u.rows) /\ u.rows[e].addr = a
  BY <1>7
<1> HIDE DEF e, I
<1>9. a \in Nat
  BY <1>3, <1>8 DEF RowsFacts
<1> DEFINE i == RowOf(u, a)
<1>10. i \in 1 .. Len(u.rows) /\ e <= i /\ u.rows[i].addr <= a
  <2> HIDE DEF u
  <2> QED BY <1>3, <1>8, <1>9, RowOfIs
<1> HIDE DEF i
<1>11. u.rows[i].addr = a
  <2>1. /\ u.rows[i].addr \in Nat /\ e \in Nat /\ i \in Nat
        /\ e < i => u.rows[e].addr <= u.rows[i].addr
    BY <1>3, <1>8, <1>10 DEF RowsFacts
  <2> QED BY <1>8, <1>9, <1>10, <2>1
<1>12. u.rows[e].ln = u.rows[i].ln
  BY <1>3, <1>8, <1>10, <1>11 DEF RowsFacts
<1>13. Position(p.units, p.symbols, a).ln = RowAt(p, a).ln
  BY <1>1, <1>4, <1>12 DEF Position, RowAt, i
<1>14. i # NotFound
  BY <1>3, <1>10 DEF NotFound, RowsFacts
<1> QED BY <1>1, <1>2, <1>9, <1>13, <1>14 DEF i

\* sd_for_each_line visits every statement of a function that one row begins.
LEMMA FunctionRows ==
  ASSUME NEW u, RowsFacts(u), NEW low \in Nat, NEW high \in Nat,
         NEW k \in 1 .. Len(u.rows),
         \A j \in 1 .. Len(u.rows) : u.rows[j].addr = low <=> j = k,
         NEW i \in 1 .. Len(u.rows), low <= u.rows[i].addr, u.rows[i].addr <= high,
         u.rows[i].stmt
  PROVE  u.rows[i] \in LinesOfRange(u.rows, low, high)
<1> DEFINE n == Len(u.rows)
           I == {j \in 1 .. n : u.rows[j].addr >= low}
           first == SelectInSeq(u.rows, LAMBDA r : r.addr >= low)
           J == {j \in k .. n : u.rows[j].addr > high}
           behind == SelectInSubSeq(u.rows, k, n, LAMBDA r : r.addr > high)
<1>1. n \in Nat /\ k \in Nat /\ i \in Nat /\ k # NotFound
  BY DEF RowsFacts, NotFound
<1>2. \A j \in 1 .. n : u.rows[j].addr >= low => k <= j
  <2> SUFFICES ASSUME NEW j \in 1 .. n, u.rows[j].addr >= low, j < k PROVE FALSE
    BY <1>1
  <2>1. u.rows[j].addr <= u.rows[k].addr /\ u.rows[j].addr \in Nat /\ u.rows[k].addr = low
    BY DEF RowsFacts
  <2>2. u.rows[j].addr = low
    BY <2>1
  <2>3. j = k
    BY <2>2
  <2> QED BY <1>1, <2>3
<1>3. first = k
  <2>1. first = IF I # {} THEN Min(I) ELSE 0
    BY DEF SelectInSeq
  <2>2. I \in SUBSET Nat /\ k \in I /\ \A j \in I : k <= j
    BY <1>1, <1>2 DEF RowsFacts
  <2> HIDE DEF I, first
  <2>3. Min(I) \in I /\ Min(I) \in Nat /\ Min(I) <= k /\ k <= Min(I)
    BY <2>2, MinIsLeast
  <2> QED BY <1>1, <2>1, <2>2, <2>3
<1>4. IndexOfPc(u.rows, low) = k
  <2>1. k = n \/ low < u.rows[k + 1].addr
    <3> SUFFICES ASSUME k # n PROVE low < u.rows[k + 1].addr
      OBVIOUS
    <3>1. k + 1 \in 1 .. n /\ k < k + 1 /\ k + 1 # k
      BY <1>1
    <3>2. u.rows[k + 1].addr # low /\ u.rows[k].addr = low
      BY <3>1
    <3>3. u.rows[k].addr <= u.rows[k + 1].addr /\ u.rows[k + 1].addr \in Nat
      BY <3>1 DEF RowsFacts
    <3> QED BY <3>2, <3>3
  <2> QED BY <1>1, <1>3, <2>1 DEF IndexOfPc
<1>5. k <= i
  BY <1>2 DEF RowsFacts
<1>6. i <= LastOfRange(u.rows, k, high)
  <2>1. behind = IF J # {} THEN Min(J) ELSE 0
    BY DEF SelectInSubSeq
  <2>2. J \in SUBSET Nat
    BY <1>1
  <2>3. LastOfRange(u.rows, k, high) = IF behind = NotFound THEN n ELSE behind - 1
    BY DEF LastOfRange
  <2> HIDE DEF behind
  <2>4. CASE behind = NotFound
    BY <1>1, <2>3, <2>4
  <2>5. CASE behind # NotFound
    <3>1. behind \in J
      <4> HIDE DEF J
      <4> QED BY <2>1, <2>2, <2>5, MinIsLeast DEF NotFound
    <3>2. behind \in 1 .. n /\ behind \in Nat /\ u.rows[behind].addr > high
      BY <1>1, <3>1
    <3>3. i < behind
      <4> SUFFICES ASSUME behind <= i PROVE FALSE
        BY <1>1, <3>2
      <4>1. u.rows[behind].addr <= u.rows[i].addr
        <5>1. u.rows[i].addr \in Nat /\ (behind < i => u.rows[behind].addr <= u.rows[i].addr)
          BY <3>2 DEF RowsFacts
        <5> QED BY <1>1, <3>2, <5>1
      <4>2. u.rows[behind].addr \in Nat /\ u.rows[i].addr \in Nat
        BY <3>2 DEF RowsFacts
      <4> QED BY <3>2, <4>1, <4>2
    <3> QED BY <1>1, <2>3, <2>5, <3>2, <3>3
  <2> QED BY <2>4, <2>5
<1>7. i \in k .. LastOfRange(u.rows, k, high)
  <2>1. LastOfRange(u.rows, k, high) \in Int
    <3>1. behind = IF J # {} THEN Min(J) ELSE 0
      BY DEF SelectInSubSeq
    <3>2. J \in SUBSET Nat
      BY <1>1
    <3> HIDE DEF J, behind
    <3>3. J # {} => Min(J) \in J /\ Min(J) \in Nat
      BY <3>2, MinIsLeast
    <3>4. behind \in Int
      BY <3>1, <3>3
    <3>5. LastOfRange(u.rows, k, high) = IF behind = NotFound THEN n ELSE behind - 1
      BY DEF LastOfRange, behind
    <3> QED BY <1>1, <3>4, <3>5
  <2> QED BY <1>1, <1>5, <1>6, <2>1
<1> QED BY <1>1, <1>4, <1>7 DEF LinesOfRange

\* set_step_over_breakpoints sees every statement of another line of the function.
LEMMA OtherRowsSeen ==
  ASSUME NEW p, LinesLaidOut(p), NEW b, Position(p.units, p.symbols, b).exact,
         NEW a \in Nat, SymbolFromAddr(p.symbols, a) = SymbolFromAddr(p.symbols, b),
         RowAt(p, a).addr = a, RowAt(p, a).stmt
  PROVE  RowAt(p, a) \in LinesAround(p.units, p.symbols, p.subprograms, b)
<1> DEFINE n == UnitOfPc(p.units, b)
           f == SymbolFromAddr(p.symbols, b)
           d == SubprogOfName(p.subprograms, p.symbols[f].name)
           low == p.symbols[f].low
           high == p.symbols[f].high
<1>1. n # NotFound /\ b \in Nat /\ f # NotFound
  BY ExactRow
<1>2. /\ f \in DOMAIN p.symbols /\ a \in AddrsOf(p, f) /\ b \in AddrsOf(p, f)
      /\ low \in Nat /\ high \in Nat /\ low <= a /\ a <= high
  BY <1>1, SymbolFound
<1>3. FunctionLaidOut(p, f, n)
  BY <1>1, <1>2 DEF LinesLaidOut
<1>4. /\ UnitOfPc(p.units, a) = n
      /\ d # NotFound /\ p.subprograms[d].low = low /\ p.subprograms[d].high = high
      /\ \E k \in DOMAIN p.units[n].rows :
           \A j \in DOMAIN p.units[n].rows : p.units[n].rows[j].addr = low <=> j = k
  BY <1>2, <1>3 DEF FunctionLaidOut
<1>5. RowsFacts(p.units[n]) /\ RowsOf(p.units, p.units[n].file) = p.units[n].rows
  BY <1>1, UnitFound, RowsLaid
<1>6. LinesAround(p.units, p.symbols, p.subprograms, b)
        = LinesOfRange(p.units[n].rows, low, high)
  BY <1>4, <1>5 DEF LinesAround
<1>7. RowAt(p, a) = p.units[n].rows[RowOf(p.units[n], a)]
  BY <1>4 DEF RowAt
<1> DEFINE u == p.units[n]
           i == RowOf(u, a)
<1>8. PICK k \in DOMAIN u.rows : \A j \in DOMAIN u.rows : u.rows[j].addr = low <=> j = k
  BY <1>4
<1> HIDE DEF u, low, high
<1>9. /\ RowsFacts(u) /\ DOMAIN u.rows = 1 .. Len(u.rows) /\ k \in 1 .. Len(u.rows)
      /\ u.rows[k].addr = low
  BY <1>5, <1>8 DEF u, RowsFacts
<1>10. i \in 1 .. Len(u.rows)
  BY <1>2, <1>9, RowOfIs DEF low
<1>11. u.rows[i].addr = a /\ u.rows[i].stmt
  BY <1>7 DEF u
<1>12. /\ \A j \in 1 .. Len(u.rows) : u.rows[j].addr = low <=> j = k
       /\ low \in Nat /\ high \in Nat /\ low <= a /\ a <= high
  BY <1>2, <1>8, <1>9 DEF low, high
<1>13. low <= u.rows[i].addr /\ u.rows[i].addr <= high /\ u.rows[i].stmt
  BY <1>11, <1>12
<1>14. u.rows[i] \in LinesOfRange(u.rows, low, high)
  <2> HIDE DEF i
  <2> QED BY <1>9, <1>10, <1>12, <1>13, FunctionRows
<1> QED BY <1>6, <1>7, <1>14 DEF u, low, high

-----------------------------------------------------------------------------
(* next enables a breakpoint wherever it must not go. *)

\* The tabulation of CurrentPosition changes nothing.
LEMMA PositionHere ==
  ASSUME prog \in Programs
  PROVE  CurrentPosition = Position(prog.units, prog.symbols, DbgPc)
BY DEF CurrentPosition, Positions

\* step_over is on the line that it takes itself to be on, and finds the others.
LEMMA OthersTold ==
  ASSUME prog \in LaidOut, prog.load = 0, CurrentPosition.exact
  PROVE  /\ \A a \in Nat :
              Elsewhere(prog, SymbolFromAddr(prog.symbols, DbgPc), LineOf(DbgPc), a)
                => a \in StepOverLines
         /\ ~Elsewhere(prog, SymbolFromAddr(prog.symbols, DbgPc), LineOf(DbgPc), DbgPc)
<1> DEFINE b == DbgPc
           f == SymbolFromAddr(prog.symbols, b)
<1>1. /\ prog \in Programs /\ LinesLaidOut(prog)
      /\ CurrentPosition = Position(prog.units, prog.symbols, b)
  BY PositionHere DEF LaidOut
<1>2. /\ UnitOfPc(prog.units, b) # NotFound
      /\ RowOf(prog.units[UnitOfPc(prog.units, b)], b) # NotFound
      /\ CurrentPosition.ln = RowAt(prog, b).ln
  <2> HIDE DEF b
  <2> QED BY <1>1, ExactRow
<1>3. LineOf(b) = CurrentPosition.ln /\ LineOf(b) = RowAt(prog, b).ln
  BY <1>2 DEF LineOf, RowAt
<1>4. ASSUME NEW a \in Nat, Elsewhere(prog, f, LineOf(b), a)
      PROVE  a \in StepOverLines
  <2> DEFINE r == RowAt(prog, a)
             lines == LinesAround(prog.units, prog.symbols, prog.subprograms, b)
  <2>1. /\ SymbolFromAddr(prog.symbols, a) = SymbolFromAddr(prog.symbols, b)
        /\ RowAt(prog, a).addr = a /\ RowAt(prog, a).stmt /\ r.ln # CurrentPosition.ln
    BY <1>3, <1>4 DEF Elsewhere
  <2>2. r \in lines
    <3> HIDE DEF b
    <3> QED BY <1>1, <2>1, OtherRowsSeen
  <2>3. RowToReal(r.addr) = a
    BY <2>1 DEF RowToReal
  <2> HIDE DEF r
  <2> QED BY <2>1, <2>2, <2>3 DEF StepOverLines
<1> QED BY <1>3, <1>4 DEF Elsewhere

\* A call disables at most the breakpoint at the program counter.
LEMMA CallHolds ==
  ASSUME NEW A, NEW k, Stack(k), CallContinue(A, k) \/ CallStepInstruction(A, k)
  PROVE  Steps(ctl') \subseteq Steps(k) \union ({GetPc} \intersect A)
<1>1. ASSUME NEW j, Stack(j), CallStepBreakpoint(A, j), GetPc \in A, Steps(j) = Steps(k)
      PROVE  Steps(ctl') \subseteq Steps(k) \union ({GetPc} \intersect A)
  <2> DEFINE t == <<StepBreakpoint(GetPc)>> \o j
  <2>1. Stack(t) /\ Steps(t) = Steps(j) \union {GetPc} /\ ctl' = <<Wait>> \o t
    BY <1>1, PushStep, PushTwo DEF CallStepBreakpoint
  <2>2. Wait.fn \notin Deleters /\ Wait.fn # Stepper
    BY DEF Wait, Deleters, Stepper
  <2> HIDE DEF t
  <2>3. Steps(ctl') = Steps(t)
    BY <2>1, <2>2, PushOther
  <2> QED BY <1>1, <2>1, <2>3
<1>2. ASSUME NEW e, e.fn \notin Deleters, e.fn # Stepper
      PROVE  Stack(<<e>> \o k) /\ Steps(<<e>> \o k) = Steps(k)
  BY <1>2, PushOther
<1>3. /\ Continue.fn \notin Deleters /\ Continue.fn # Stepper
      /\ StepInstruction.fn \notin Deleters /\ StepInstruction.fn # Stepper
      /\ Wait.fn \notin Deleters /\ Wait.fn # Stepper
  BY DEF Continue, StepInstruction, Wait, Deleters, Stepper
<1>4. CASE GetPc \in A /\ CallStepBreakpoint(A, <<Continue>> \o k)
  BY <1>1, <1>2, <1>3, <1>4
<1>5. CASE GetPc \in A /\ CallStepBreakpoint(A, <<StepInstruction>> \o k)
  BY <1>1, <1>2, <1>3, <1>5
<1>6. CASE CallPtContinue(A, k)
  BY <1>6 DEF CallPtContinue
<1>7. CASE ctl' = <<Wait>> \o k
  BY <1>2, <1>3, <1>7
<1> QED BY <1>4, <1>5, <1>6, <1>7 DEF CallContinue, CallStepInstruction

\* Until a command has returned, what it deletes in the end is the same, and
\* only SIGWINCH makes it disable anything more.
LEMMA WaitForSignalHolds ==
  ASSUME IInv, WaitForSignal
  PROVE  Dels(ctl') = Dels(ctl) /\ (WaitWinch \/ Steps(ctl') = Steps(ctl))
<1>1. /\ ctl # <<>> /\ Head(ctl) = Wait /\ Wait.fn \notin Deleters /\ Wait.fn # Stepper
  BY DEF WaitForSignal, WaitDeath, WaitSigtrap, WaitOther, WaitWinch, WaitKilled, WaitNobody,
         Waiting, Wait, Deleters, Stepper
<1>2. /\ Stack(ctl) /\ Stack(Tail(ctl)) /\ Dels(ctl) = Dels(Tail(ctl))
      /\ Steps(ctl) = Steps(Tail(ctl))
  BY <1>1, Pop DEF IInv
<1>3. CASE ctl' = Tail(ctl)
  BY <1>2, <1>3
<1>4. CASE WaitWinch
  <2> DEFINE k == <<Winch>> \o Tail(ctl)
  <2>1. CallContinue(armed, k)
    BY <1>4 DEF WaitWinch
  <2>2. Stack(k) /\ Dels(k) = Dels(ctl)
    BY <1>2, PushOther DEF Winch, Deleters, Stepper
  <2> HIDE DEF k
  <2> QED BY <1>4, <2>1, <2>2, CallDels
<1> QED
  BY <1>3, <1>4
  DEF WaitForSignal, WaitDeath, WaitSigtrap, WaitOther, WaitKilled, WaitNobody, Return

LEMMA CallReturnsHolds ==
  ASSUME IInv, MInv, CallReturns, last.cmd # "step"
  PROVE  /\ ctl' = <<>> \/ Dels(ctl') = Dels(ctl)
         /\ Steps(ctl') \subseteq Steps(ctl)
<1> DEFINE k == Tail(ctl)
           Kept == (ctl' = <<>> \/ Dels(ctl') = Dels(ctl)) /\ Steps(ctl') \subseteq Steps(ctl)
<1>1. ctl # <<>> /\ Stack(ctl) /\ NoStepLine(ctl)
  BY DEF CallReturns, WinchReturns, StepBreakpointReturns, ContinueReturns,
     StepInstructionReturns, ExecContinueReturns, StepLineReturns, RunToReturns,
     CleanUpReturns, RunMainReturns, MainReachedReturns, Returned, IInv, MInv
<1>2. /\ Stack(k) /\ (k = <<>> \/ Dels(k) = Dels(ctl)) /\ Steps(k) \subseteq Steps(ctl)
      /\ Head(ctl).fn \in Deleters => k = <<>> /\ Dels(ctl) = Head(ctl).dels
      /\ Head(ctl).fn \notin Deleters => Dels(k) = Dels(ctl)
  BY <1>1, Pop, EmptyStack
<1>3. Wait.fn \notin Deleters /\ Wait.fn # Stepper
  BY DEF Wait, Deleters, Stepper
<1>4. CASE ctl' = k
  BY <1>2, <1>4
<1>5. ASSUME NEW t, Stack(t), Dels(t) = Dels(ctl), Steps(t) \subseteq Steps(ctl), WaitThen(t)
      PROVE  Kept
  BY <1>3, <1>5, PushOther DEF WaitThen
<1>6. ASSUME NEW e, e.fn \in Deleters, e.dels = Head(ctl).dels, Head(ctl).fn \in Deleters,
             WaitThen(<<e>>)
      PROVE  Kept
  BY <1>2, <1>5, <1>6, OneDeleter
<1>7. CASE \/ StepBreakpointReturns \/ ContinueReturns \/ StepInstructionReturns
           \/ CleanUpReturns \/ MainReachedReturns
  BY <1>4, <1>7 DEF StepBreakpointReturns, ContinueReturns, StepInstructionReturns,
     CleanUpReturns, MainReachedReturns, CallPtContinue, Return
<1>8. CASE WinchReturns \/ ExecContinueReturns
  <2>1. Head(ctl).fn \notin Deleters
    BY <1>8 DEF WinchReturns, ExecContinueReturns, Returned, Deleters
  <2>2. WaitThen(k) \/ ctl' = k
    BY <1>8 DEF WinchReturns, ExecContinueReturns, Return
  <2> QED BY <1>2, <1>4, <1>5, <2>1, <2>2
<1>9. ~StepLineReturns
  BY <1>1, PopIndex DEF StepLineReturns, Returned, NoStepLine
<1>10. CASE RunToReturns
  <2> DEFINE e == CleanUp(Head(ctl).dels)
  <2>1. Head(ctl).fn \in Deleters /\ WaitThen(<<e>> \o k)
    BY <1>10 DEF RunToReturns, Returned, Deleters
  <2>2. e.fn \in Deleters /\ e.dels = Head(ctl).dels
    BY DEF CleanUp, Deleters
  <2> HIDE DEF e
  <2>3. <<e>> \o k = <<e>>
    BY <1>2, <2>1, PushFirst
  <2> QED BY <1>6, <2>1, <2>2, <2>3
<1>11. CASE RunMainReturns
  <2> DEFINE e == MainReached(Head(ctl).dels)
  <2>1. /\ Head(ctl).fn \in Deleters /\ e.fn \in Deleters /\ e.dels = Head(ctl).dels
        /\ WaitThen(<<e>>) \/ ctl' = k
    BY <1>11 DEF RunMainReturns, Returned, Return, MainReached, Deleters
  <2> HIDE DEF e
  <2> QED BY <1>4, <1>6, <2>1
<1> QED BY <1>7, <1>8, <1>9, <1>10, <1>11 DEF CallReturns

\* While the command goes on and what it was told stays as it is.
LEMMA NextGoesOn ==
  ASSUME NInv, UNCHANGED <<prog, user>>, Alive' => Alive,
         {"told", "func", "line", "exact"} \subseteq DOMAIN last',
         last'.cmd = last.cmd, last'.told = last.told, last'.func = last.func,
         last'.line = last.line, last'.exact = last.exact,
         ctl' # <<>> => ctl # <<>>,
         last.cmd = "next" /\ ctl' # <<>> =>
           /\ Dels(ctl') = Dels(ctl)
           /\ ~last'.winched => ~last.winched /\ Steps(ctl') \subseteq Steps(ctl)
  PROVE  NInv'
<1> SUFFICES ASSUME ctl' # <<>>, Alive', last'.cmd = "next"
             PROVE  /\ last'.told \subseteq user' \union Dels(ctl')
                    /\ last'.exact /\ prog'.load = 0 /\ prog' \in LaidOut' =>
                         /\ \A a \in Mapped' :
                              Elsewhere(prog', last'.func, last'.line, a) => a \in last'.told
                         /\ ~last'.winched =>
                              \A a \in Steps(ctl') : ~Elsewhere(prog', last'.func, last'.line, a)
  BY DEF NInv
<1>1. prog' = prog /\ user' = user /\ Mapped' = Mapped /\ LaidOut' = LaidOut
  BY DEF Mapped, LaidOut
<1> QED BY <1>1 DEF NInv

LEMMA WaitForSignalNexts ==
  ASSUME IInv, MInv, AInv, NInv, WaitForSignal
  PROVE  NInv'
<1>1. /\ UNCHANGED <<prog, user>> /\ (Alive' => Alive) /\ ctl # <<>>
      /\ {"told", "func", "line", "exact"} \subseteq DOMAIN last'
      /\ last'.cmd = last.cmd /\ last'.told = last.told /\ last'.func = last.func
      /\ last'.line = last.line /\ last'.exact = last.exact
      /\ ~last'.winched => ~last.winched /\ ~WaitWinch
  BY DEF WaitForSignal, WaitDeath, WaitSigtrap, WaitOther, WaitWinch, WaitKilled, WaitNobody,
         Waiting, CallContinue, CallPtContinue, CallStepBreakpoint, PtContinue, PtSingleStep,
         Alive, traceeVars, MInv, AInv, NInv
<1>2. Dels(ctl') = Dels(ctl) /\ (WaitWinch \/ Steps(ctl') = Steps(ctl))
  BY WaitForSignalHolds
<1> QED BY <1>1, <1>2, NextGoesOn

LEMMA CallReturnsNexts ==
  ASSUME IInv, MInv, NInv, CallReturns
  PROVE  NInv'
<1>1. /\ UNCHANGED <<prog, user, last>> /\ (Alive' => Alive) /\ ctl # <<>>
  BY DEF CallReturns, WinchReturns, StepBreakpointReturns, ContinueReturns,
     StepInstructionReturns, ExecContinueReturns, StepLineReturns, RunToReturns,
     CleanUpReturns, RunMainReturns, MainReachedReturns, Returned, Untouched, WaitThen,
     CallStepInstruction, CallPtContinue, CallStepBreakpoint, PtContinue, PtSingleStep, Alive
<1>2. last.cmd = "next" /\ ctl' # <<>> =>
        Dels(ctl') = Dels(ctl) /\ Steps(ctl') \subseteq Steps(ctl)
  BY CallReturnsHolds
<1> QED BY <1>1, <1>2, NextGoesOn DEF NInv

LEMMA ProcessNexts ==
  ASSUME IInv, MInv, NInv, TraceeRuns \/ OthersSignal \/ Terminated \/ UNCHANGED vars
  PROVE  NInv'
<1>1. /\ UNCHANGED <<ctl, user, prog>> /\ (Alive' => Alive)
      /\ last'.cmd = last.cmd /\ last'.told = last.told /\ last'.func = last.func
      /\ last'.line = last.line /\ last'.exact = last.exact /\ last'.winched = last.winched
      /\ {"told", "func", "line", "exact"} \subseteq DOMAIN last'
  BY DEF TraceeRuns, TraceeStops, TraceeExecutes, OthersSignal, Terminated, vars, MInv, NInv,
         SignalStop, TrapStop, Execute, Signal, Kill, debuggerVars, traceeVars, Alive, Running
<1> QED BY <1>1, NextGoesOn

\* Nothing is said of a command that is not next, or has returned.
LEMMA NotNext ==
  ASSUME NInv, DOMAIN last \subseteq DOMAIN last', ctl' = <<>> \/ last'.cmd # "next"
  PROVE  NInv'
BY DEF NInv

LEMMA CommandNexts ==
  ASSUME IInv, PInv, NInv, Command
  PROVE  NInv'
<1>1. CASE (\E loc \in Locations : Break(loc) \/ Delete(loc)) \/ Quit
  BY <1>1, NotNext DEF Break, Delete, Quit, AtPrompt
<1>2. ASSUME NEW c, NEW told, Issued(c, told), c # "next" \/ ctl' = <<>> PROVE NInv'
  <2>1. {"told", "func", "line", "exact"} \subseteq DOMAIN last' /\ last'.cmd = c
    BY <1>2 DEF Issued
  <2> QED BY <1>2, <2>1 DEF NInv
<1>3. CASE ContinueCommand \/ InstCommand \/ LeaveCommand \/ StepCommand
  BY <1>2, <1>3 DEF ContinueCommand, InstCommand, LeaveCommand, StepCommand
<1>4. CASE NextCommand /\ ctl' = <<>>
  BY <1>2, <1>4 DEF NextCommand
<1>5. CASE NextCommand /\ ctl' # <<>>
  <2> DEFINE told == StepOverLines \union {ReturnAddress}
             d == StepOverDels(StepOverLines)
             A == Enabled(armed, told)
             k == <<RunTo(d)>>
             f == SymbolFromAddr(prog.symbols, DbgPc)
             l == LineOf(DbgPc)
  <2>1. /\ Issued("next", told) /\ CallContinue(A, k)
        /\ AtPrompt /\ UNCHANGED <<prog, user>>
    BY <1>5 DEF NextCommand, Refuse, AtPrompt, Unissued
  <2>2. Alive' <=> Alive
    BY <2>1, PtLives DEF CallContinue, CallStepBreakpoint, CallPtContinue
  <2>3. /\ {"told", "func", "line", "exact"} \subseteq DOMAIN last'
        /\ last'.told = told /\ last'.func = f /\ last'.line = l
        /\ last'.exact = CurrentPosition.exact
    BY <2>1 DEF Issued
  <2>4. Stack(k) /\ Steps(k) = {} /\ Dels(k) = d
    BY OneDeleter DEF RunTo, Deleters
  <2>5. Dels(ctl') = d
    <3> HIDE DEF k, A
    <3> QED BY <2>1, <2>4, CallDels
  <2>6. Steps(ctl') \subseteq {GetPc} \intersect A
    <3> HIDE DEF k, A
    <3> QED BY <2>1, <2>4, CallHolds
  <2>7. ASSUME Alive PROVE told \subseteq user \union d
    <3>1. armed = user
      BY <2>1, <2>7, Prompt
    <3> QED BY <2>7, <3>1 DEF StepOverDels, Enabled
  <2>8. A \subseteq Mapped /\ Mapped \subseteq Nat
    BY <2>1, Prompt, ProgramsAssumption DEF Enabled, Mapped, PInv
  <2>9. ASSUME CurrentPosition.exact, prog.load = 0, prog \in LaidOut, Alive
        PROVE  /\ \A a \in Mapped : Elsewhere(prog, f, l, a) => a \in told
               /\ \A a \in Steps(ctl') : ~Elsewhere(prog, f, l, a)
    <3>1. /\ \A a \in Nat : Elsewhere(prog, f, l, a) => a \in StepOverLines
          /\ ~Elsewhere(prog, f, l, DbgPc)
      BY <2>9, OthersTold
    <3>2. ASSUME NEW a \in Steps(ctl') PROVE a = DbgPc
      <4>1. a = GetPc /\ a \in Nat
        BY <2>6, <2>8
      <4> QED BY <2>9, <4>1 DEF DbgPc
    <3> HIDE DEF f, l
    <3> QED BY <2>8, <3>1, <3>2
  <2>10. prog' = prog /\ user' = user /\ Mapped' = Mapped /\ LaidOut' = LaidOut
    BY <2>1 DEF Mapped, LaidOut
  <2> HIDE DEF told, d, A, k, f, l
  <2> QED BY <2>2, <2>3, <2>5, <2>7, <2>9, <2>10 DEF NInv
<1> QED BY <1>1, <1>3, <1>4, <1>5 DEF Command

\* NInv is inductive.
LEMMA NextKept == Spec => []NInv
<1>1. Init => NInv
  BY DEF Init, TraceeInit, DebuggerInit, NInv
<1>2. IInv /\ MInv /\ PInv /\ AInv /\ NInv /\ [Next]_vars => NInv'
  <2>1. ASSUME MInv, NInv, RunDebugger PROVE NInv'
    BY <2>1, NotNext DEF RunDebugger, Untouched, MInv
  <2> QED
    BY <2>1, WaitForSignalNexts, CallReturnsNexts, CommandNexts, ProcessNexts
    DEF Next, DebuggerWorks
<1> QED
  BY <1>1, <1>2, BreakpointsAccountedFor, SteppingStaysOnTop, NobodyRunsUnwatched, AdvanceKept,
     PTL DEF Spec

\* From the address of a row, next runs no statement of another line of its
\* function, whatever the program, as long as no SIGWINCH comes: provided that it
\* is loaded where it was linked and that its tables are laid out as LinesLaidOut
\* says (step_over, set_step_over_breakpoints, sd_for_each_line).
THEOREM NextKeepsToItsLine == Spec => NextRunsOneLine
<1> DEFINE OneLine ==
      /\ TraceeExecutes
      /\ last.cmd = "next" /\ last.exact /\ ~last.winched
      /\ prog.load = 0 /\ prog \in LaidOut
      => ~OtherLine
<1>1. IInv /\ PInv /\ NInv => OneLine
  <2> SUFFICES ASSUME IInv, PInv, NInv, TraceeExecutes, last.cmd = "next", last.exact,
                      ~last.winched, prog.load = 0, prog \in LaidOut, OtherLine
               PROVE  FALSE
    OBVIOUS
  <2> DEFINE pc == cpu.pc
  <2>1. Running /\ Session /\ pc \in Mapped /\ pc \notin armed
    BY DEF TraceeExecutes, Execute
  <2>2. Alive /\ pc \in Nat
    BY <2>1, ProgramsAssumption DEF Running, Alive, Mapped, PInv
  <2>3. ctl # <<>>
    BY <2>1, <2>2 DEF PInv, Listening, Running
  <2>4. DbgPc = pc
    BY <2>2 DEF DbgPc, GetPc
  <2> HIDE DEF pc
  <2>5. Elsewhere(prog, last.func, last.line, pc)
    BY <2>4 DEF OtherLine, Elsewhere, RowAt
  <2>6. pc \in user \union Dels(ctl) /\ pc \notin Steps(ctl)
    BY <2>1, <2>2, <2>3, <2>5 DEF NInv
  <2>7. Balanced(armed, ctl)
    BY <2>1, <2>2 DEF IInv
  <2> QED BY <2>1, <2>6, <2>7 DEF Balanced
<1>2. Spec => [][OneLine]_vars
  <2> HIDE DEF OneLine
  <2> QED
    BY <1>1, BreakpointsAccountedFor, NobodyRunsUnwatched, NextKept, PTL DEF Spec
<1> QED BY <1>2 DEF NextRunsOneLine

=============================================================================
