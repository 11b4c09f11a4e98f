-------------------------- MODULE NotifRailProofs --------------------------
(***************************************************************************)
(* Proofs about NotifRail, for any number of pushes, failures and clicks.  *)
(* With file operations that overlap: every variable has its type, only a  *)
(* resolution or the operator ends a fix-loop, and a pull request has one  *)
(* comment as long as looking it up does not fail.  Without overlap:       *)
(* a queued record is in one of the two files until it is delivered or     *)
(* made moot.                                                              *)
(***************************************************************************)
EXTENDS NotifRail, SequenceTheorems, WellFoundedInduction, TLAPS

-----------------------------------------------------------------------------
(* The operators on a file.  Keeping is a recursive function: what it      *)
(* returns is found by induction over the lines, and induction is had from *)
(* the well-founded order of the numbers.                                  *)

\* A set of numbers with zero and every successor is all of them.
LEMMA Induction ==
    ASSUME NEW S \in SUBSET Nat, 0 \in S, \A n \in S : n + 1 \in S
    PROVE  S = Nat
<1> DEFINE Before == {ss \in Nat \X Nat : ss[1] < ss[2]}
           Rest == Nat \ S
<1>1. IsWellFoundedOn(Before, Nat)
  BY NatLessThanWellFounded DEF OpToRel
<1>2. ASSUME Rest # {} PROVE FALSE
  <2> HIDE DEF Before
  <2>1. PICK x \in Rest : \A y \in Rest : <<y, x>> \notin Before
    BY <1>1, <1>2, WFMin
  <2>2. x # 0 /\ x - 1 \in Nat /\ x - 1 \notin S
    OBVIOUS
  <2>3. <<x - 1, x>> \in Before
    BY <2>2 DEF Before
  <2> QED
    BY <2>1, <2>2, <2>3
<1> QED
  BY <1>2

\* The records kept of the first i lines, from those of the lines before.
Line(file, kept, before, i) ==
    IF file[i].push \in kept THEN Append(before, file[i]) ELSE before

\* f has what is kept of each prefix of the file, up to m lines.
Prefixes(file, kept, m, f) ==
    f = [i \in 0 .. m |->
           IF i = 0 THEN <<>>
           ELSE IF file[i].push \in kept THEN Append(f[i - 1], file[i]) ELSE f[i - 1]]

LEMMA PrefixesAre ==
    ASSUME NEW file, NEW kept, NEW m \in Nat, NEW f, Prefixes(file, kept, m, f)
    PROVE  f[0] = <<>> /\ \A i \in 1 .. m : f[i] = Line(file, kept, f[i - 1], i)
<1>1. f = [i \in 0 .. m |-> IF i = 0 THEN <<>> ELSE Line(file, kept, f[i - 1], i)]
  BY Zenon DEF Prefixes, Line
<1>2. \A i \in 0 .. m : f[i] = IF i = 0 THEN <<>> ELSE Line(file, kept, f[i - 1], i)
  BY <1>1, Zenon
<1> QED
  BY <1>2

LEMMA ArePrefixes ==
    ASSUME NEW file, NEW kept, NEW m \in Nat, NEW f,
           f = [i \in 0 .. m |-> f[i]], f[0] = <<>>,
           \A i \in 1 .. m : f[i] = Line(file, kept, f[i - 1], i)
    PROVE  Prefixes(file, kept, m, f)
<1>1. \A i \in 0 .. m : f[i] = IF i = 0 THEN <<>> ELSE Line(file, kept, f[i - 1], i)
  OBVIOUS
<1>2. f = [i \in 0 .. m |-> IF i = 0 THEN <<>> ELSE Line(file, kept, f[i - 1], i)]
  BY <1>1
<1> QED
  BY <1>2, Zenon DEF Prefixes, Line

LEMMA PrefixesGrow ==
    ASSUME NEW file, NEW kept, NEW m \in Nat, NEW f, Prefixes(file, kept, m, f)
    PROVE  \E g : Prefixes(file, kept, m + 1, g)
<1> DEFINE g == [i \in 0 .. m + 1 |-> IF i = m + 1 THEN Line(file, kept, f[m], m + 1) ELSE f[i]]
<1>2. \A i \in 0 .. m : g[i] = f[i]
  OBVIOUS
<1>3. g[m + 1] = Line(file, kept, f[m], m + 1)
  OBVIOUS
<1>4. g = [i \in 0 .. m + 1 |-> g[i]]
  OBVIOUS
<1> HIDE DEF g
<1>5. m + 1 \in Nat
  OBVIOUS
<1>6. f[0] = <<>>
  BY PrefixesAre
<1>7. \A i \in 1 .. m : f[i] = Line(file, kept, f[i - 1], i)
  BY PrefixesAre
<1>8. \A i \in 1 .. m + 1 : g[i] = Line(file, kept, g[i - 1], i)
  <2> TAKE i \in 1 .. m + 1
  <2>1. CASE i = m + 1
    BY <1>2, <1>3, <2>1
  <2>2. CASE i # m + 1
    BY <1>2, <1>7, <2>2
  <2> QED
    BY <2>1, <2>2
<1>9. g[0] = <<>>
  BY <1>2, <1>5, <1>6
<1>10. Prefixes(file, kept, m + 1, g)
  BY <1>4, <1>5, <1>8, <1>9, ArePrefixes, Zenon
<1> QED
  BY <1>10

LEMMA PrefixesExist ==
    ASSUME NEW file, NEW kept, NEW n \in Nat
    PROVE  \E f : Prefixes(file, kept, n, f)
<1> DEFINE S == {m \in Nat : \E f : Prefixes(file, kept, m, f)}
<1>1. 0 \in S
  <2> DEFINE g == [i \in 0 .. 0 |-> <<>>]
  <2>1. g = [i \in 0 .. 0 |-> g[i]] /\ g[0] = <<>>
    OBVIOUS
  <2> HIDE DEF g
  <2>2. \A i \in 1 .. 0 : g[i] = Line(file, kept, g[i - 1], i)
    OBVIOUS
  <2>3. Prefixes(file, kept, 0, g)
    BY <2>1, <2>2, ArePrefixes
  <2> QED
    BY <2>3
<1>2. ASSUME NEW m \in S PROVE m + 1 \in S
  BY PrefixesGrow
<1>3. S \in SUBSET Nat
  OBVIOUS
<1> HIDE DEF S
<1>4. S = Nat
  BY <1>1, <1>2, <1>3, Induction
<1> QED
  BY <1>4 DEF S

LEMMA AppendHolds ==
    ASSUME NEW E, NEW file \in Seq(E), NEW x \in E
    PROVE  \A q : Holds(Append(file, x), q) <=> Holds(file, q) \/ q = x.push
<1> DEFINE g == Append(file, x)
<1>1. /\ DOMAIN file = 1 .. Len(file) /\ DOMAIN g = 1 .. Len(file) + 1 /\ Len(file) \in Nat
      /\ g[Len(file) + 1] = x
      /\ \A i \in 1 .. Len(file) : g[i] = file[i]
  OBVIOUS
<1> HIDE DEF g
<1>2. \A q : Holds(g, q) <=> Holds(file, q) \/ q = x.push
  BY <1>1 DEF Holds
<1> QED
  BY <1>2 DEF g

LEMMA KeepingUnfolds ==
    ASSUME NEW E, NEW file \in Seq(E), NEW kept
    PROVE  \E f : Prefixes(file, kept, Len(file), f) /\ Keeping(file, kept) = f[Len(file)]
<1>1. \E f : Prefixes(file, kept, Len(file), f)
  BY PrefixesExist, LenProperties
<1> DEFINE c == CHOOSE f : Prefixes(file, kept, Len(file), f)
<1>2. Prefixes(file, kept, Len(file), c)
  BY <1>1, Zenon
<1>3. Keeping(file, kept) = c[Len(file)]
  BY Zenon DEF Keeping, Prefixes
<1> QED
  BY <1>2, <1>3

LEMMA KeepingHolds ==
    ASSUME NEW E, NEW file \in Seq(E), NEW kept
    PROVE  /\ Keeping(file, kept) \in Seq(E)
           /\ \A q : Holds(Keeping(file, kept), q) <=> Holds(file, q) /\ q \in kept
<1>1. PICK f : Prefixes(file, kept, Len(file), f) /\ Keeping(file, kept) = f[Len(file)]
  BY KeepingUnfolds
<1>2. f[0] = <<>> /\ \A i \in 1 .. Len(file) : f[i] = Line(file, kept, f[i - 1], i)
  <2> DEFINE n == Len(file)
  <2>1. n \in Nat /\ Prefixes(file, kept, n, f)
    BY <1>1, LenProperties
  <2> HIDE DEF n
  <2>2. f[0] = <<>>
    BY <2>1, PrefixesAre
  <2>3. \A i \in 1 .. n : f[i] = Line(file, kept, f[i - 1], i)
    BY <2>1, PrefixesAre
  <2> QED
    BY <2>2, <2>3 DEF n
<1> DEFINE Among(n, q) == \E j \in 1 .. n : file[j].push = q
           Good(n) == /\ f[n] \in Seq(E)
                      /\ \A q : Holds(f[n], q) <=> q \in kept /\ Among(n, q)
           S == {n \in Nat : n <= Len(file) => Good(n)}
<1>3. 0 \in S
  <2>1. f[0] \in Seq(E) /\ \A q : ~Holds(f[0], q) /\ ~Among(0, q)
    BY <1>2 DEF Holds
  <2>2. Good(0)
    BY <2>1, Zenon
  <2> QED
    BY <2>2
<1>4. ASSUME NEW n \in Nat, Good(n), n + 1 <= Len(file) PROVE Good(n + 1)
  <2>1. f[n + 1] = Line(file, kept, f[n], n + 1)
    <3>1. n + 1 \in 1 .. Len(file) /\ (n + 1) - 1 = n
      BY <1>4, LenProperties
    <3> QED
      BY <1>2, <3>1
  <2>2. file[n + 1] \in E
    BY <1>4
  <2>3. \A q : Among(n + 1, q) <=> Among(n, q) \/ q = file[n + 1].push
    OBVIOUS
  <2>4. CASE file[n + 1].push \notin kept
    BY <1>4, <2>1, <2>3, <2>4 DEF Line
  <2>5. CASE file[n + 1].push \in kept
    <3>1. f[n + 1] = Append(f[n], file[n + 1])
      BY <2>1, <2>5 DEF Line
    <3>2. f[n + 1] \in Seq(E)
      BY <1>4, <2>2, <3>1
    <3>3. \A q : Holds(f[n + 1], q) <=> Holds(f[n], q) \/ q = file[n + 1].push
      BY <1>4, <2>2, <3>1, AppendHolds
    <3> HIDE DEF Among
    <3> QED
      BY <1>4, <2>3, <2>5, <3>2, <3>3
  <2> QED
    BY <2>4, <2>5
<1>5. S = Nat
  <2>1. \A n \in S : n + 1 \in S
    <3> TAKE n \in S
    <3>1. n \in Nat /\ (n <= Len(file) => Good(n))
      OBVIOUS
    <3> HIDE DEF Good
    <3>2. Len(file) \in Nat
      BY LenProperties
    <3> QED
      BY <1>4, <3>1, <3>2
  <2>2. S \in SUBSET Nat
    OBVIOUS
  <2> HIDE DEF S
  <2> QED
    BY <1>3, <2>1, <2>2, Induction
<1>6. Good(Len(file))
  <2> HIDE DEF Good
  <2>1. Len(file) \in Nat
    BY LenProperties
  <2> QED
    BY <1>5, <2>1
<1>7. \A q : Holds(file, q) <=> Among(Len(file), q)
  BY DEF Holds
<1> QED
  BY <1>1, <1>6, <1>7

USE RailAssumption DEF RailAssumption

-----------------------------------------------------------------------------
(* Hooks.                                                                  *)

HookShape == /\ DOMAIN hook = Pushes
             /\ \A p \in Pushes : DOMAIN hook[p] = {"pc", "loop", "file"}

\* A hook that is about to end the loop has queued its resolution.
Closing == /\ DOMAIN fate = Pushes
           /\ \A p \in Pushes : hook[p].pc = "close" => p \in Cleans /\ fate[p] # "none"

HookInv == HookShape /\ Closing

\* A step of a hook sets its program counter, and at most one other field.
LEMMA HookMoves ==
    ASSUME HookShape, NEW p \in Pushes, NEW pc, NEW x,
           \/ hook' = [hook EXCEPT ![p].pc = pc]
           \/ hook' = [hook EXCEPT ![p].pc = pc, ![p].loop = x]
           \/ hook' = [hook EXCEPT ![p].pc = pc, ![p].file = x]
    PROVE  HookShape' /\ hook'[p].pc = pc /\ \A q \in Pushes \ {p} : hook'[q] = hook[q]
<1>1. DOMAIN hook' = Pushes
  BY DEF HookShape
<1>2. \/ hook'[p] = [hook[p] EXCEPT !.pc = pc]
      \/ hook'[p] = [hook[p] EXCEPT !.pc = pc, !.loop = x]
      \/ hook'[p] = [hook[p] EXCEPT !.pc = pc, !.file = x]
  BY Zenon DEF HookShape
<1>3. \A q \in Pushes \ {p} : hook'[q] = hook[q]
  BY Zenon DEF HookShape
<1>4. DOMAIN hook'[p] = {"pc", "loop", "file"}
  BY <1>2, Zenon DEF HookShape
<1>5. hook'[p].pc = pc
  BY <1>2, Zenon DEF HookShape
<1> QED
  BY <1>1, <1>3, <1>4, <1>5 DEF HookShape

\* The fate of a record is never forgotten.
Remembered == DOMAIN fate' = Pushes /\ \A p \in Pushes : fate[p] # "none" => fate'[p] # "none"

\* A hook that moves to another step than the end of the loop leaves HookInv alone.
LEMMA HookPasses ==
    ASSUME HookInv, Remembered, NEW p \in Pushes, NEW pc, NEW x, pc # "close",
           \/ hook' = [hook EXCEPT ![p].pc = pc]
           \/ hook' = [hook EXCEPT ![p].pc = pc, ![p].loop = x]
           \/ hook' = [hook EXCEPT ![p].pc = pc, ![p].file = x]
    PROVE  HookInv'
<1>1. HookShape' /\ hook'[p].pc = pc /\ \A q \in Pushes \ {p} : hook'[q] = hook[q]
  BY HookMoves DEF HookInv
<1>2. ASSUME NEW q \in Pushes, hook'[q].pc = "close"
      PROVE  q \in Cleans /\ fate'[q] # "none"
  <2>1. q # p
    BY <1>1, <1>2
  <2>2. hook[q].pc = "close"
    BY <1>1, <1>2, <2>1
  <2> QED
    BY <2>2 DEF HookInv, Closing, Remembered
<1> QED
  BY <1>1, <1>2 DEF HookInv, Closing, Remembered

LEMMA HookRests ==
    ASSUME HookInv, Remembered, UNCHANGED hook
    PROVE  HookInv'
BY DEF HookInv, HookShape, Closing, Remembered

LEMMA FateKept == ASSUME HookInv, UNCHANGED fate PROVE Remembered
BY DEF HookInv, Closing, Remembered

LEMMA EnqueueKeepsHooks ==
    ASSUME HookInv, NEW p \in Pushes, Enqueue(p)
    PROVE  HookInv'
<1>1. CASE /\ fate' = [fate EXCEPT ![p] = "queued"]
           /\ hook' = [hook EXCEPT ![p].pc = IF p \in Cleans THEN "close" ELSE "done"]
  <2>1. /\ HookShape'
        /\ hook'[p].pc = IF p \in Cleans THEN "close" ELSE "done"
        /\ \A q \in Pushes \ {p} : hook'[q] = hook[q]
    BY <1>1, HookMoves DEF HookInv
  <2>2. DOMAIN fate' = Pushes /\ fate'[p] = "queued"
        /\ \A q \in Pushes \ {p} : fate'[q] = fate[q]
    BY <1>1 DEF HookInv, Closing
  <2>3. ASSUME NEW q \in Pushes, hook'[q].pc = "close"
        PROVE  q \in Cleans /\ fate'[q] # "none"
    <3>1. CASE q = p
      BY <2>1, <2>2, <2>3, <3>1
    <3>2. CASE q # p
      BY <2>1, <2>2, <2>3, <3>2 DEF HookInv, Closing
    <3> QED
      BY <3>1, <3>2
  <2> QED
    BY <2>1, <2>2, <2>3 DEF HookInv, Closing
<1>2. CASE hook' = [hook EXCEPT ![p].pc = "done"] /\ UNCHANGED fate
  BY <1>2, FateKept, HookPasses
<1> QED
  BY <1>1, <1>2 DEF Enqueue

LEMMA HooksKeepHooks ==
    ASSUME HookInv, NEW p \in Pushes,
           Verdict(p) \/ CloseLoop(p) \/ ReadRejects(p) \/ DropRejects(p) \/ HookDies(p)
    PROVE  HookInv'
<1>1. CASE Verdict(p)
  <2>1. PICK seen : hook' = [hook EXCEPT
              ![p].pc = IF p \in Cleans /\ seen = NoLoop THEN "done" ELSE "queue",
              ![p].loop = seen]
    BY <1>1, Zenon DEF Verdict
  <2>2. (IF p \in Cleans /\ seen = NoLoop THEN "done" ELSE "queue") # "close"
    OBVIOUS
  <2>3. Remembered
    BY <1>1, FateKept DEF Verdict
  <2> QED
    BY <2>1, <2>2, <2>3, HookPasses
<1>2. CASE CloseLoop(p)
  BY <1>2, FateKept, HookPasses DEF CloseLoop
<1>3. CASE ReadRejects(p)
  <2>1. hook' = [hook EXCEPT
              ![p].pc = IF WithoutRejects(queue) = queue THEN "done" ELSE "rewrite",
              ![p].file = queue]
    BY <1>3, Zenon DEF ReadRejects
  <2>2. (IF WithoutRejects(queue) = queue THEN "done" ELSE "rewrite") # "close"
    OBVIOUS
  <2>3. Remembered
    BY <1>3, FateKept DEF ReadRejects
  <2> QED
    BY <2>1, <2>2, <2>3, HookPasses
<1>4. CASE DropRejects(p)
  <2>1. hook' = [hook EXCEPT ![p].pc = "done", ![p].file = <<>>]
    BY <1>4, Zenon DEF DropRejects
  <2>2. \/ UNCHANGED fate
        \/ fate' = [q \in Pushes |->
                      IF q \in Rejects /\ Holds(hook[p].file, q) /\ fate[q] = "queued"
                      THEN "moot" ELSE fate[q]]
    BY <1>4, Zenon DEF DropRejects
  <2>3. Remembered
    BY <2>2 DEF Remembered, HookInv, Closing
  <2> QED
    BY <2>1, <2>3, HookPasses
<1>5. CASE HookDies(p)
  BY <1>5, FateKept, HookPasses DEF HookDies
<1> QED
  BY <1>1, <1>2, <1>3, <1>4, <1>5

LEMMA DaemonKeepsHooks ==
    ASSUME HookInv, DaemonStep
    PROVE  HookInv'
<1>1. UNCHANGED hook
  BY DEF DaemonStep, Quiet, Poll, TakeNext, FindPR, Lookup, Post, SaveLoop, Deliver,
         ReadSettled, ReadFailed, Bury, Rewrite
<1>2. \/ UNCHANGED fate
      \/ fate' = [fate EXCEPT ![daemon.rec.push] = "settled"]
  BY DEF DaemonStep, Poll, TakeNext, FindPR, Lookup, Post, SaveLoop, Deliver,
         ReadSettled, ReadFailed, Bury, Rewrite
<1>3. Remembered
  BY <1>2 DEF Remembered, HookInv, Closing
<1> QED
  BY <1>1, <1>3, HookRests

LEMMA OthersKeepHooks ==
    ASSUME HookInv,
           \/ \E p \in Pushes : BackoffEnds(p)
           \/ Crash \/ RetryNow \/ RetryStep \/ ResetLoop \/ OpenPR
    PROVE  HookInv'
<1>1. UNCHANGED <<hook, fate>>
  BY DEF BackoffEnds, Crash, RetryNow, RetryStep, Requeue, EmptyDeadletter, ReadBackoff,
         ResetBackoff, ResetLoop, OpenPR, Still
<1> QED
  BY <1>1, FateKept, HookRests

LEMMA HookInvStep == ASSUME HookInv, [Next]_vars PROVE HookInv'
<1>1. CASE \E p \in Pushes : Verdict(p) \/ HookStep(p) \/ HookDies(p) \/ BackoffEnds(p)
  BY <1>1, EnqueueKeepsHooks, HooksKeepHooks, OthersKeepHooks DEF HookStep
<1>2. CASE DaemonStep
  BY <1>2, DaemonKeepsHooks
<1>3. CASE Crash \/ RetryNow \/ RetryStep \/ ResetLoop \/ OpenPR
  BY <1>3, OthersKeepHooks
<1>4. CASE UNCHANGED vars
  BY <1>4, FateKept, HookRests DEF vars
<1> QED
  BY <1>1, <1>2, <1>3, <1>4 DEF Next

-----------------------------------------------------------------------------
(* The attempt count: what SaveLoop writes is never "no loop".             *)

DaemonShape ==
    /\ DOMAIN daemon = {"pc", "todo", "rec", "prev", "target", "file"}
    /\ DOMAIN daemon.prev = {"n", "sticky"}

CountInv == DaemonShape /\ daemon.prev.n \in Nat /\ loop.n \in Nat /\ clicks \in Nat
            /\ DOMAIN loop = {"n", "sticky"}

LEMMA RestingShape ==
    /\ DOMAIN Resting = {"pc", "todo", "rec", "prev", "target", "file"}
    /\ Resting.prev = NoLoop /\ Resting.pc = "idle"
BY DEF Resting, NoLoop

\* What a step may do to the daemon's own state without touching the loop it holds.
LEMMA Keeps ==
    ASSUME DaemonShape, NEW pc, NEW x, NEW y,
           \/ daemon' = [daemon EXCEPT !.pc = pc]
           \/ daemon' = [daemon EXCEPT !.pc = pc, !.target = x]
           \/ daemon' = [daemon EXCEPT !.pc = pc, !.file = x]
           \/ daemon' = [daemon EXCEPT !.pc = pc, !.rec = y, !.file = x]
    PROVE  DaemonShape' /\ daemon'.pc = pc /\ daemon'.prev = daemon.prev
<1>1. DOMAIN daemon' = {"pc", "todo", "rec", "prev", "target", "file"}
  BY Zenon DEF DaemonShape
<1>2. daemon'.prev = daemon.prev
  BY Zenon DEF DaemonShape
<1>3. daemon'.pc = pc
  BY Zenon DEF DaemonShape
<1> QED
  BY <1>1, <1>2, <1>3 DEF DaemonShape

\* A pass begins and ends with no loop in hand.
LEMMA StartsAnew ==
    ASSUME NEW pc, NEW x, NEW y,
           \/ daemon' = Resting
           \/ daemon' = [Resting EXCEPT !.pc = pc, !.todo = x]
           \/ daemon' = [Resting EXCEPT !.pc = pc, !.todo = x, !.rec = y]
    PROVE  /\ DaemonShape' /\ daemon'.prev.n \in Nat
           /\ daemon'.pc \in {pc, "idle"}
<1>1. DOMAIN daemon' = {"pc", "todo", "rec", "prev", "target", "file"}
  BY RestingShape, Zenon
<1>2. daemon'.prev = NoLoop
  BY RestingShape, Zenon
<1>3. daemon'.pc \in {pc, "idle"}
  BY RestingShape, Zenon
<1> QED
  BY <1>1, <1>2, <1>3 DEF DaemonShape, NoLoop

\* FindPR, the lookup and the steps after the delivery.
LEMMA DaemonMoves ==
    ASSUME CountInv, FindPR \/ Lookup \/ SaveLoop \/ Deliver \/ ReadSettled \/ ReadFailed
                     \/ Bury \/ Rewrite
    PROVE  DaemonShape' /\ daemon'.prev.n \in Nat /\ (daemon'.pc = "post" => Lookup)
<1>1. CASE FindPR
  <2>1. CASE Step("failed") \/ Step("webhook") \/ Step("lookup")
    BY <2>1, Keeps DEF Step, CountInv
  <2>2. CASE daemon' = [daemon EXCEPT !.pc = "lookup", !.prev = loop]
    <3>1. DOMAIN daemon' = {"pc", "todo", "rec", "prev", "target", "file"}
      BY <2>2, Zenon DEF CountInv, DaemonShape
    <3>2. daemon'.prev = loop /\ daemon'.pc = "lookup"
      BY <2>2, Zenon DEF CountInv, DaemonShape
    <3> QED
      BY <3>1, <3>2 DEF CountInv, DaemonShape
  <2> QED
    BY <1>1, <2>1, <2>2, Zenon DEF FindPR
<1>2. CASE Lookup
  <2>1. PICK c : daemon' = [daemon EXCEPT !.pc = "post", !.target = c]
    BY <1>2, Zenon DEF Lookup
  <2> QED
    BY <1>2, <2>1, Keeps DEF CountInv
<1>3. CASE SaveLoop
  BY <1>3, Keeps DEF SaveLoop, Step, CountInv
<1>4. CASE Deliver
  BY <1>4, Keeps DEF Deliver, Step, CountInv
<1>5. CASE ReadSettled
  <2>1. \/ daemon' = [daemon EXCEPT !.pc = "next"]
        \/ \E f : daemon' = [daemon EXCEPT !.pc = "rewrite", !.file = f]
    BY <1>5, Zenon DEF ReadSettled, Step
  <2> QED
    BY <2>1, Keeps DEF CountInv
<1>6. CASE ReadFailed
  <2>1. \/ daemon' = [daemon EXCEPT !.pc = "next"]
        \/ \E f : daemon' = [daemon EXCEPT !.pc = "rewrite", !.file = f]
        \/ \E r, f : daemon' = [daemon EXCEPT !.pc = "bury", !.rec = r, !.file = f]
    BY <1>6, Zenon DEF ReadFailed, Step
  <2>2. CASE daemon' = [daemon EXCEPT !.pc = "next"]
    BY <2>2, Keeps DEF CountInv
  <2>3. CASE \E f : daemon' = [daemon EXCEPT !.pc = "rewrite", !.file = f]
    BY <2>3, Keeps DEF CountInv
  <2>4. CASE \E r, f : daemon' = [daemon EXCEPT !.pc = "bury", !.rec = r, !.file = f]
    BY <2>4, Keeps DEF CountInv
  <2> QED
    BY <2>1, <2>2, <2>3, <2>4
<1>7. CASE Bury \/ Rewrite
  BY <1>7, Keeps DEF Bury, Rewrite, Step, CountInv
<1> QED
  BY <1>1, <1>2, <1>3, <1>4, <1>5, <1>6, <1>7

\* Posting may learn the comment's number; the count is as it was read.
LEMMA PostMoves ==
    ASSUME CountInv, Post
    PROVE  DaemonShape' /\ daemon'.prev.n \in Nat /\ daemon'.pc \in {"save", "webhook", "failed"}
<1>1. CASE Step("failed")
  BY <1>1, Keeps DEF Step, CountInv
<1>2. ASSUME NEW pc \in {"save", "webhook"}, NEW c,
             daemon' = [daemon EXCEPT !.pc = pc, !.prev.sticky = c]
      PROVE  DaemonShape' /\ daemon'.prev.n \in Nat /\ daemon'.pc = pc
  <2>1. DOMAIN daemon' = {"pc", "todo", "rec", "prev", "target", "file"}
    BY <1>2, Zenon DEF CountInv, DaemonShape
  <2>2. daemon'.prev = [daemon.prev EXCEPT !.sticky = c] /\ daemon'.pc = pc
    BY <1>2, Zenon DEF CountInv, DaemonShape
  <2>3. DOMAIN daemon'.prev = {"n", "sticky"} /\ daemon'.prev.n = daemon.prev.n
    BY <2>2, Zenon DEF CountInv, DaemonShape
  <2> QED
    BY <2>1, <2>2, <2>3 DEF CountInv, DaemonShape
<1>3. \/ Step("failed")
      \/ \E pc \in {"save", "webhook"} : \E c :
            daemon' = [daemon EXCEPT !.pc = pc, !.prev.sticky = c]
  BY Zenon DEF Post
<1> QED
  BY <1>1, <1>2, <1>3

LEMMA DaemonKeepsCount ==
    ASSUME CountInv, DaemonStep
    PROVE  CountInv'
<1>1. DaemonShape' /\ daemon'.prev.n \in Nat
  <2>1. CASE Poll
    BY <2>1, StartsAnew DEF Poll
  <2>2. CASE TakeNext
    <3>1. \/ daemon' = Resting
          \/ \E pc, x, y : daemon' = [Resting EXCEPT !.pc = pc, !.todo = x, !.rec = y]
      BY <2>2, Zenon DEF TakeNext
    <3> QED
      BY <3>1, StartsAnew
  <2>3. CASE Post
    BY <2>3, PostMoves
  <2>4. CASE ~(Poll \/ TakeNext \/ Post)
    BY <2>4, DaemonMoves DEF DaemonStep
  <2> QED
    BY <2>1, <2>2, <2>3, <2>4
<1>2. UNCHANGED clicks
  BY DEF DaemonStep, Quiet, Poll, TakeNext, FindPR, Lookup, Post, SaveLoop, Deliver,
         ReadSettled, ReadFailed, Bury, Rewrite
<1>3. UNCHANGED loop \/ loop' = [n |-> daemon.prev.n + 1, sticky |-> daemon.prev.sticky]
  BY DEF DaemonStep, Poll, TakeNext, FindPR, Lookup, Post, SaveLoop, Deliver,
         ReadSettled, ReadFailed, Bury, Rewrite
<1> QED
  BY <1>1, <1>2, <1>3 DEF CountInv

LEMMA OthersKeepCount ==
    ASSUME CountInv,
           \/ \E p \in Pushes : Verdict(p) \/ HookStep(p) \/ HookDies(p) \/ BackoffEnds(p)
           \/ Crash \/ RetryNow \/ RetryStep \/ ResetLoop \/ OpenPR
    PROVE  CountInv'
<1>1. UNCHANGED daemon \/ daemon' = Resting
  BY DEF Verdict, HookStep, Enqueue, CloseLoop, ReadRejects, DropRejects, HookDies, BackoffEnds,
         Crash, RetryNow, RetryStep, Requeue, EmptyDeadletter, ReadBackoff, ResetBackoff,
         ResetLoop, OpenPR, Still
<1>2. UNCHANGED loop \/ loop' = NoLoop
  BY DEF Verdict, HookStep, Enqueue, CloseLoop, ReadRejects, DropRejects, HookDies, BackoffEnds,
         Crash, RetryNow, RetryStep, Requeue, EmptyDeadletter, ReadBackoff, ResetBackoff,
         ResetLoop, OpenPR
<1>3. UNCHANGED clicks \/ Click
  BY DEF Verdict, HookStep, Enqueue, CloseLoop, ReadRejects, DropRejects, HookDies, BackoffEnds,
         Crash, RetryNow, RetryStep, Requeue, EmptyDeadletter, ReadBackoff, ResetBackoff,
         ResetLoop, OpenPR
<1>4. DaemonShape' /\ daemon'.prev.n \in Nat
  BY <1>1, StartsAnew DEF CountInv, DaemonShape
<1> QED
  BY <1>2, <1>3, <1>4 DEF CountInv, NoLoop, Click

LEMMA CountInvStep == ASSUME CountInv, [Next]_vars PROVE CountInv'
<1>1. CASE DaemonStep
  BY <1>1, DaemonKeepsCount
<1>2. CASE \/ \E p \in Pushes : Verdict(p) \/ HookStep(p) \/ HookDies(p) \/ BackoffEnds(p)
           \/ Crash \/ RetryNow \/ RetryStep \/ ResetLoop \/ OpenPR
  BY <1>2, OthersKeepCount
<1>3. CASE UNCHANGED vars
  BY <1>3 DEF vars, CountInv, DaemonShape
<1> QED
  BY <1>1, <1>2, <1>3 DEF Next

-----------------------------------------------------------------------------
(* Only a resolution or the operator ends a loop.                          *)

LEMMA InitHolds == ASSUME Init PROVE HookInv /\ CountInv
<1>1. HookInv
  BY DEF Init, HookInv, HookShape, Closing
<1>2. CountInv
  BY RestingShape DEF Init, CountInv, DaemonShape, NoLoop
<1> QED
  BY <1>1, <1>2

Ended == loop # NoLoop /\ loop' = NoLoop =>
            clicks' < clicks \/ \E c \in Cleans : hook[c].pc = "close" /\ fate[c] # "none"

LEMMA EndsResolved == ASSUME HookInv, CountInv, [Next]_vars PROVE Ended
<1>1. CASE \E p \in Pushes : CloseLoop(p)
  <2>1. PICK p \in Pushes : CloseLoop(p)
    BY <1>1
  <2>2. p \in Cleans /\ hook[p].pc = "close" /\ fate[p] # "none"
    BY <2>1 DEF CloseLoop, HookInv, Closing
  <2> QED
    BY <2>2 DEF Ended
<1>2. CASE ResetLoop
  BY <1>2 DEF ResetLoop, Click, Ended, CountInv
<1>3. CASE SaveLoop
  BY <1>3 DEF SaveLoop, Ended, CountInv, NoLoop
<1>4. ASSUME ~(\E p \in Pushes : CloseLoop(p)), ~ResetLoop, ~SaveLoop
      PROVE  UNCHANGED loop
  BY <1>4 DEF Next, DaemonStep, Verdict, HookStep, Enqueue, ReadRejects, DropRejects, HookDies,
         BackoffEnds, Poll, TakeNext, FindPR, Lookup, Post, Deliver, ReadSettled, ReadFailed,
         Bury, Rewrite, Crash, RetryNow, RetryStep, Requeue, EmptyDeadletter, ReadBackoff,
         ResetBackoff, OpenPR, Still, vars
<1> QED
  BY <1>1, <1>2, <1>3, <1>4 DEF Ended

\* A fix-loop ends because a resolution was queued, or because the operator reset it: a
\* failed append (enqueueResolutions), a crash or a late delivery never ends one.
THEOREM LoopEndsResolvedCorrect == Spec => LoopEndsResolved
<1>1. Init => HookInv /\ CountInv
  BY InitHolds
<1>2. HookInv /\ CountInv /\ [Next]_vars => (HookInv /\ CountInv)'
  BY HookInvStep, CountInvStep
<1>3. HookInv /\ CountInv /\ [Next]_vars => [Ended]_loop
  BY EndsResolved
<1> QED
  BY <1>1, <1>2, <1>3, PTL DEF Spec, LoopEndsResolved, Ended

-----------------------------------------------------------------------------
(* One comment.                                                            *)

\* A daemon about to post without a comment to update has seen that there is none.
CommentInv == /\ \E S : comments \in Seq(S)
              /\ Len(comments) <= 1
              /\ daemon.pc = "post" /\ daemon.target = 0 => Len(comments) = 0

LEMMA LookupSees ==
    ASSUME ~LookupsFail, CountInv, CommentInv, Lookup
    PROVE  CommentInv'
<1>1. PICK c : /\ daemon' = [daemon EXCEPT !.pc = "post", !.target = c]
               /\ c = 0 => Len(comments) = 0
  BY DEF Lookup
<1>2. daemon'.target = c
  BY <1>1, Zenon DEF CountInv, DaemonShape
<1>3. UNCHANGED comments
  BY DEF Lookup, pull
<1> QED
  BY <1>1, <1>2, <1>3 DEF CommentInv

LEMMA PostShows ==
    ASSUME CountInv, CommentInv, Post
    PROVE  CommentInv'
<1>1. daemon'.pc # "post"
  BY PostMoves
<1>2. daemon.pc = "post"
  BY DEF Post
<1>3. PICK S : comments \in Seq(S)
  BY DEF CommentInv
<1>4. PICK p : comments' \in {comments, [comments EXCEPT ![daemon.target] = p],
                              IF daemon.target = 0 THEN Append(comments, p) ELSE comments}
  BY DEF Post
<1>5. CASE comments' = comments
  BY <1>1, <1>5 DEF CommentInv
<1>6. CASE comments' = [comments EXCEPT ![daemon.target] = p]
  <2>1. CASE daemon.target \in 1 .. Len(comments)
    <3>1. comments \in Seq(S \cup {p})
      BY <1>3
    <3>2. comments' \in Seq(S \cup {p}) /\ Len(comments') = Len(comments)
      BY <1>6, <2>1, <3>1, ExceptSeq
    <3> QED
      BY <1>1, <3>2 DEF CommentInv
  <2>2. CASE daemon.target \notin 1 .. Len(comments)
    <3>1. DOMAIN comments = 1 .. Len(comments) /\ comments = [i \in DOMAIN comments |-> comments[i]]
      BY <1>3
    <3>2. comments' = comments
      BY <1>6, <2>2, <3>1
    <3> QED
      BY <1>1, <3>2 DEF CommentInv
  <2> QED
    BY <2>1, <2>2
<1>7. CASE daemon.target = 0 /\ comments' = Append(comments, p)
  <2>1. comments' \in Seq(S \cup {p}) /\ Len(comments') = Len(comments) + 1
    BY <1>3, <1>7
  <2>2. Len(comments) = 0
    BY <1>2, <1>7 DEF CommentInv
  <2> QED
    BY <1>1, <2>1, <2>2 DEF CommentInv
<1> QED
  BY <1>4, <1>5, <1>6, <1>7

LEMMA OthersKeepComments ==
    ASSUME CountInv, CommentInv, [Next]_vars, ~Lookup, ~Post
    PROVE  CommentInv'
<1>1. UNCHANGED comments
  BY DEF Next, DaemonStep, Verdict, HookStep, Enqueue, CloseLoop, ReadRejects, DropRejects,
         HookDies, BackoffEnds, Poll, TakeNext, FindPR, SaveLoop, Deliver, ReadSettled,
         ReadFailed, Bury, Rewrite, Crash, RetryNow, RetryStep, Requeue, EmptyDeadletter,
         ReadBackoff, ResetBackoff, ResetLoop, OpenPR, Still, pull, vars
<1>2. daemon'.pc # "post" \/ UNCHANGED daemon
  <2>1. CASE Poll
    BY <2>1, StartsAnew DEF Poll
  <2>2. CASE TakeNext
    <3>1. \/ daemon' = Resting
          \/ \E pc \in {"next", "find"} : \E x, y :
                daemon' = [Resting EXCEPT !.pc = pc, !.todo = x, !.rec = y]
      BY <2>2, Zenon DEF TakeNext
    <3> QED
      BY <3>1, StartsAnew
  <2>3. CASE FindPR \/ SaveLoop \/ Deliver \/ ReadSettled \/ ReadFailed \/ Bury \/ Rewrite
    BY <2>3, DaemonMoves
  <2>4. CASE Crash
    BY <2>4, RestingShape DEF Crash
  <2>5. CASE ~(DaemonStep \/ Crash)
    BY <2>5 DEF Next, Verdict, HookStep, Enqueue, CloseLoop, ReadRejects, DropRejects,
         HookDies, BackoffEnds, RetryNow, RetryStep, Requeue, EmptyDeadletter,
         ReadBackoff, ResetBackoff, ResetLoop, OpenPR, Still, vars
  <2> QED
    BY <2>1, <2>2, <2>3, <2>4, <2>5 DEF DaemonStep
<1> QED
  BY <1>1, <1>2 DEF CommentInv

\* As long as the search for the sticky comment answers, a pull request has at most one
\* comment of the gate, whatever is crashed, retried, delivered twice or answered late.
THEOREM OneCommentCorrect == ~LookupsFail /\ Spec => []OneComment
<1> SUFFICES ASSUME ~LookupsFail PROVE Spec => []OneComment
  OBVIOUS
<1>1. Init => HookInv /\ CountInv /\ CommentInv
  BY InitHolds, RestingShape DEF Init, CommentInv
<1>2. CountInv /\ CommentInv /\ [Next]_vars => CommentInv'
  BY LookupSees, PostShows, OthersKeepComments
<1>3. CountInv /\ [Next]_vars => CountInv'
  BY CountInvStep
<1>4. CommentInv => OneComment
  BY DEF CommentInv, OneComment
<1> QED
  BY <1>1, <1>2, <1>3, <1>4, PTL DEF Spec

-----------------------------------------------------------------------------
(* Types.  A record names a push whose fate is known, and a comment that   *)
(* exists: what is queued was appended once, by the hook of its push.      *)

Known == {p \in Pushes : fate[p] # "none"}
Stickies == 0 .. Len(comments)
Entries == [push : Known, sticky : Stickies, tries : Nat]
Counts == [n : Nat, sticky : Stickies]

HookSteps == {"idle", "queue", "close", "purge", "rewrite", "done"}
DaemonSteps == {"idle", "next", "find", "lookup", "post", "save", "webhook", "settle",
                "failed", "bury", "rewrite"}
RetrySteps == {"idle", "requeue", "empty", "reset", "rewrite"}

WorldType ==
    /\ audit \in Seq(Pushes) /\ comments \in Seq(Pushes)
    /\ waiting \subseteq Pushes
    /\ loop \in Counts
    /\ fate \in [Pushes -> {"none", "queued", "moot", "settled"}]
    /\ faults \in 0 .. MaxFaults /\ clicks \in 0 .. MaxClicks

FilesType == queue \in Seq(Entries) /\ dead \in Seq(Entries)

HookType ==
    /\ hook \in [Pushes -> [pc : HookSteps, loop : Counts, file : Seq(Entries)]]
    /\ \A p \in Pushes : hook[p].pc \in {"idle", "queue"} => fate[p] = "none"

DaemonType ==
    /\ daemon \in [pc : DaemonSteps, todo : Seq(Entries), rec : Entries \cup {NoRecord},
                   prev : Counts, target : Stickies, file : Seq(Entries)]
    /\ daemon.pc \notin {"idle", "next"} => daemon.rec \in Entries

RetryType == /\ retry \in [pc : RetrySteps, file : Seq(Entries)]
             /\ retry.pc = "requeue" => retry.file # <<>>

TypeInv == WorldType /\ FilesType /\ HookType /\ DaemonType /\ RetryType

\* The last record of a push is one of the file's.
LEMMA FindHolds ==
    ASSUME NEW E, NEW f \in Seq(E), NEW p, Holds(f, p)
    PROVE  Find(f, p) \in E /\ Find(f, p).push = p
<1> DEFINE Last(i) == f[i].push = p /\ \A j \in DOMAIN f : j > i => f[j].push # p
           Before == {ss \in Nat \X Nat : ss[1] < ss[2]}
           n == Len(f)
           T == {n - i : i \in {k \in 1 .. n : f[k].push = p}}
<1>1. n \in Nat /\ DOMAIN f = 1 .. n
  BY LenProperties
<1>2. T \subseteq Nat /\ T # {}
  BY <1>1 DEF Holds
<1>3. IsWellFoundedOn(Before, Nat)
  BY NatLessThanWellFounded DEF OpToRel
<1>4. \E x \in T : \A y \in T : <<y, x>> \notin Before
  <2> HIDE DEF T, Before
  <2> QED
    BY <1>2, <1>3, WFMin
<1>5. PICK i \in 1 .. n : f[i].push = p /\ \A y \in T : ~(y < n - i)
  BY <1>1, <1>2, <1>4
<1>6. Last(i)
  <2>1. ASSUME NEW j \in DOMAIN f, j > i, f[j].push = p PROVE FALSE
    <3>1. n - j \in T /\ n - j < n - i
      BY <1>1, <2>1
    <3> HIDE DEF T
    <3> QED
      BY <1>5, <3>1
  <2> QED
    BY <1>1, <1>5, <2>1
<1>7. Last(CHOOSE k \in DOMAIN f : Last(k)) /\ (CHOOSE k \in DOMAIN f : Last(k)) \in DOMAIN f
  BY <1>1, <1>6, Zenon
<1>8. Find(f, p) = f[CHOOSE k \in DOMAIN f : Last(k)]
  BY Zenon DEF Find
<1> QED
  BY <1>1, <1>7, <1>8

LEMMA UpdatedHolds ==
    ASSUME NEW E, NEW f \in Seq(E), NEW rec \in E
    PROVE  Updated(f, rec) \in Seq(E) /\ \A q : Holds(Updated(f, rec), q) <=> Holds(f, q)
BY DEF Updated, Holds

LEMMA ResetHolds ==
    ASSUME NEW f \in Seq(Entries)
    PROVE  ResetTries(f) \in Seq(Entries) /\ \A q : Holds(ResetTries(f), q) <=> Holds(f, q)
<1>1. DOMAIN f = 1 .. Len(f) /\ Len(f) \in Nat /\ \A i \in DOMAIN f : f[i] \in Entries
  BY LenProperties
<1>2. \A x \in Entries : [x EXCEPT !.tries = 0] \in Entries /\ [x EXCEPT !.tries = 0].push = x.push
  BY DEF Entries
<1>3. ASSUME NEW i \in DOMAIN f
      PROVE  ResetTries(f)[i] \in Entries /\ ResetTries(f)[i].push = f[i].push
  BY <1>1, <1>2, <1>3, Zenon DEF ResetTries
<1>4. DOMAIN ResetTries(f) = DOMAIN f
  BY DEF ResetTries
<1>5. ResetTries(f) = [i \in 1 .. Len(f) |-> ResetTries(f)[i]]
  BY <1>1 DEF ResetTries
<1>6. ResetTries(f) \in Seq(Entries)
  BY <1>1, <1>3, <1>5
<1> QED
  BY <1>3, <1>4, <1>6 DEF Holds

\* Without and WithoutRejects.
LEMMA WithoutHolds ==
    ASSUME NEW E, NEW f \in Seq(E), NEW p
    PROVE  /\ Without(f, p) \in Seq(E) /\ WithoutRejects(f) \in Seq(E)
           /\ \A q \in Pushes : Holds(Without(f, p), q) <=> Holds(f, q) /\ q # p
           /\ \A q \in Pushes : Holds(WithoutRejects(f), q) <=> Holds(f, q) /\ q \notin Rejects
BY KeepingHolds DEF Without, WithoutRejects

LEMMA HeadHolds ==
    ASSUME NEW E, NEW f \in Seq(E), f # <<>>
    PROVE  /\ Head(f) \in E /\ Tail(f) \in Seq(E) /\ (Len(f) = 1 <=> Tail(f) = <<>>)
           /\ \A q : Holds(f, q) <=> Holds(Tail(f), q) \/ q = Head(f).push
<1>1. /\ Head(f) = f[1] /\ Head(f) \in E /\ Tail(f) \in Seq(E) /\ Len(Tail(f)) = Len(f) - 1
      /\ \A i \in 1 .. Len(Tail(f)) : Tail(f)[i] = f[i + 1]
      /\ Len(f) \in Nat \ {0}
  BY HeadTailProperties, EmptySeq
<1>2. DOMAIN f = 1 .. Len(f) /\ DOMAIN Tail(f) = 1 .. Len(f) - 1
  BY <1>1, LenProperties
<1>3. ASSUME NEW q PROVE Holds(f, q) <=> Holds(Tail(f), q) \/ q = Head(f).push
  <2>1. ASSUME NEW i \in DOMAIN f, f[i].push = q PROVE Holds(Tail(f), q) \/ q = Head(f).push
    <3>1. CASE i = 1
      BY <1>1, <2>1, <3>1
    <3>2. CASE i # 1
      <4>1. i - 1 \in 1 .. Len(f) - 1 /\ (i - 1) + 1 = i
        BY <1>1, <1>2, <3>2
      <4>2. Tail(f)[i - 1] = f[i]
        BY <1>1, <4>1
      <4> QED
        BY <1>2, <2>1, <4>1, <4>2 DEF Holds
    <3> QED
      BY <3>1, <3>2
  <2>2. ASSUME NEW i \in DOMAIN Tail(f), Tail(f)[i].push = q PROVE Holds(f, q)
    BY <1>1, <1>2, <2>2 DEF Holds
  <2>3. Holds(f, Head(f).push)
    BY <1>1, <1>2 DEF Holds
  <2> QED
    BY <2>1, <2>2, <2>3 DEF Holds
<1>4. Len(f) = 1 <=> Tail(f) = <<>>
  BY <1>1, EmptySeq
<1> QED
  BY <1>1, <1>3, <1>4
-----------------------------------------------------------------------------
(* The types are kept.  Only four actions change a fate or the comments,   *)
(* and they add to what is known: the sets of the types grow.              *)

Grown == /\ Known \subseteq Known' /\ Stickies \subseteq Stickies'
         /\ Entries \subseteq Entries' /\ Counts \subseteq Counts'
         /\ Seq(Entries) \subseteq Seq(Entries')

LEMMA GrownSeq ==
    ASSUME NEW A, NEW B, A \subseteq B
    PROVE  Seq(A) \subseteq Seq(B)
<1> SUFFICES ASSUME NEW s \in Seq(A) PROVE s \in Seq(B)
  OBVIOUS
<1>1. s \in [1 .. Len(s) -> A] /\ Len(s) \in Nat
  BY LenProperties
<1>2. s \in [1 .. Len(s) -> B]
  BY <1>1
<1> QED
  BY <1>1, <1>2

LEMMA Grows ==
    ASSUME Known \subseteq Known', Len(comments) <= Len(comments'),
           Len(comments) \in Nat, Len(comments') \in Nat
    PROVE  Grown
<1>1. Stickies \subseteq Stickies'
  BY DEF Stickies
<1>2. Entries \subseteq Entries' /\ Counts \subseteq Counts'
  BY <1>1 DEF Entries, Counts
<1> QED
  BY <1>1, <1>2, GrownSeq DEF Grown

LEMMA Stays ==
    ASSUME UNCHANGED <<fate, comments>>
    PROVE  Grown
<1>1. Known' = Known /\ Stickies' = Stickies
  BY DEF Known, Stickies
<1>2. Entries' = Entries /\ Counts' = Counts
  BY <1>1 DEF Entries, Counts
<1> QED
  BY <1>1, <1>2 DEF Grown

LEMMA FilesStay == FilesType /\ Grown /\ UNCHANGED files => FilesType'
BY DEF FilesType, Grown, files

LEMMA HookStays ==
    ASSUME HookType, Grown, UNCHANGED hook,
           \A p \in Pushes : hook[p].pc \in {"idle", "queue"} => fate'[p] = "none"
    PROVE  HookType'
<1>1. [pc : HookSteps, loop : Counts, file : Seq(Entries)]
        \subseteq [pc : HookSteps, loop : Counts', file : Seq(Entries')]
  BY DEF Grown
<1> QED
  BY <1>1, Zenon DEF HookType

LEMMA DaemonStays == DaemonType /\ Grown /\ UNCHANGED daemon => DaemonType'
<1> SUFFICES ASSUME DaemonType, Grown, UNCHANGED daemon PROVE DaemonType'
  OBVIOUS
<1>1. [pc : DaemonSteps, todo : Seq(Entries), rec : Entries \cup {NoRecord},
       prev : Counts, target : Stickies, file : Seq(Entries)]
        \subseteq [pc : DaemonSteps, todo : Seq(Entries'), rec : Entries' \cup {NoRecord},
                   prev : Counts', target : Stickies', file : Seq(Entries')]
  BY DEF Grown
<1> QED
  BY <1>1 DEF DaemonType, Grown

LEMMA RetryStays == RetryType /\ Grown /\ UNCHANGED retry => RetryType'
BY DEF RetryType, Grown

LEMMA InitTyped == Init => TypeInv
<1> SUFFICES ASSUME Init PROVE TypeInv
  OBVIOUS
<1>1. <<>> \in Seq(Pushes) /\ <<>> \in Seq(Entries) /\ Len(comments) = 0 /\ NoLoop \in Counts
  BY DEF Init, Counts, NoLoop, Stickies
<1>2. WorldType
  BY <1>1 DEF WorldType, Init
<1>3. FilesType
  BY <1>1 DEF FilesType, Init
<1>4. HookType
  BY <1>1 DEF HookType, Init, HookSteps
<1>5. DaemonType
  BY <1>1 DEF DaemonType, Init, Resting, DaemonSteps, Stickies
<1>6. RetryType
  BY <1>1 DEF RetryType, Init, Pending, RetrySteps
<1> QED
  BY <1>2, <1>3, <1>4, <1>5, <1>6 DEF TypeInv

LEMMA HookSetsTo ==
    ASSUME HookType, Grown, NEW p \in Pushes,
           NEW h \in [pc : HookSteps, loop : Counts', file : Seq(Entries')],
           hook' = [hook EXCEPT ![p] = h],
           h.pc \in {"idle", "queue"} => fate'[p] = "none",
           \A q \in Pushes \ {p} : hook[q].pc \in {"idle", "queue"} => fate'[q] = "none"
    PROVE  HookType'
<1> DEFINE H == [pc : HookSteps, loop : Counts, file : Seq(Entries)]
           G == [pc : HookSteps, loop : Counts', file : Seq(Entries')]
<1>1. H \subseteq G
  BY DEF Grown
<1>2. hook \in [Pushes -> H]
  BY DEF HookType
<1>3. h \in G
  OBVIOUS
<1> HIDE DEF H, G
<1>4. hook' \in [Pushes -> G] /\ hook'[p] = h /\ \A q \in Pushes \ {p} : hook'[q] = hook[q]
  BY <1>1, <1>2, <1>3
<1> QED
  BY <1>4 DEF HookType, G

LEMMA VerdictTyped ==
    ASSUME TypeInv, NEW p \in Pushes, Verdict(p)
    PROVE  TypeInv'
<1> USE DEF TypeInv
<1>1. Grown
  BY Stays DEF Verdict, pull
<1>2. PICK seen \in {loop, NoLoop} :
          hook' = [hook EXCEPT
               ![p].pc = IF p \in Cleans /\ seen = NoLoop THEN "done" ELSE "queue",
               ![p].loop = seen]
  BY DEF Verdict
<1> DEFINE h == [hook[p] EXCEPT !.pc = IF p \in Cleans /\ seen = NoLoop THEN "done" ELSE "queue",
                                !.loop = seen]
<1>3. hook' = [hook EXCEPT ![p] = h]
  BY <1>2, Zenon
<1>4. seen \in Counts' /\ hook[p] \in [pc : HookSteps, loop : Counts, file : Seq(Entries)]
  BY <1>1 DEF Grown, WorldType, Counts, Stickies, NoLoop, HookType
<1>5. h \in [pc : HookSteps, loop : Counts', file : Seq(Entries')]
  BY <1>1, <1>4 DEF Grown, HookSteps
<1>6. HookType'
  <2>1. fate' = fate /\ hook[p].pc = "idle"
    BY DEF Verdict
  <2>2. \A q \in Pushes : hook[q].pc \in {"idle", "queue"} => fate'[q] = "none"
    BY <2>1 DEF HookType
  <2> HIDE DEF h
  <2> QED
    BY <1>1, <1>3, <1>5, <2>1, <2>2, HookSetsTo
<1>7. WorldType'
  BY <1>1 DEF WorldType, Verdict, Fault, NoFault, pull, Grown
<1>8. FilesType'
  BY <1>1, FilesStay DEF Verdict
<1>9. DaemonType' /\ RetryType'
  BY <1>1, DaemonStays, RetryStays DEF Verdict
<1> QED
  BY <1>6, <1>7, <1>8, <1>9

LEMMA EnqueueTyped ==
    ASSUME TypeInv, NEW p \in Pushes, Enqueue(p)
    PROVE  TypeInv'
<1> USE DEF TypeInv
<1> DEFINE pc == hook'[p].pc
           h == [hook[p] EXCEPT !.pc = pc]
<1>1. hook[p] \in [pc : HookSteps, loop : Counts, file : Seq(Entries)]
  BY DEF HookType
<1>2. /\ pc \in {"close", "done"} /\ hook' = [hook EXCEPT ![p] = h]
      /\ hook[p].pc = "queue" /\ fate[p] = "none"
  BY DEF Enqueue, HookType
<1>3. /\ fate' \in [Pushes -> {"none", "queued", "moot", "settled"}]
      /\ \A q \in Pushes \ {p} : fate'[q] = fate[q]
      /\ comments' = comments
  BY DEF Enqueue, WorldType, pull
<1>4. Grown
  <2>1. Known \subseteq Known'
    BY <1>2, <1>3 DEF Known
  <2>2. Len(comments) \in Nat
    BY DEF WorldType
  <2> QED
    BY <1>3, <2>1, <2>2, Grows
<1>5. h \in [pc : HookSteps, loop : Counts', file : Seq(Entries')]
  BY <1>1, <1>2, <1>4 DEF Grown, HookSteps
<1>6. HookType'
  <2>1. \A q \in Pushes \ {p} : hook[q].pc \in {"idle", "queue"} => fate'[q] = "none"
    BY <1>3 DEF HookType
  <2>2. h.pc \notin {"idle", "queue"}
    BY <1>1, <1>2
  <2> HIDE DEF h
  <2> QED
    BY <1>2, <1>4, <1>5, <2>1, <2>2, HookSetsTo
<1>7. WorldType'
  BY <1>3, <1>4 DEF WorldType, Enqueue, Fault, NoFault, pull, Grown
<1>8. FilesType'
  <2>1. CASE queue' = queue
    BY <1>4, <2>1, FilesStay DEF Enqueue, files
  <2>2. CASE NoFault /\ fate' = [fate EXCEPT ![p] = "queued"]
             /\ queue' = Append(queue, [Fresh(p) EXCEPT
                        !.sticky = IF p \in Cleans THEN hook[p].loop.sticky ELSE 0])
    <3>1. p \in Known'
      BY <2>2 DEF Known, WorldType
    <3>2. hook[p].loop.sticky \in Stickies' /\ 0 \in Stickies'
      BY <1>1, <1>3, <1>4 DEF Grown, Counts, Stickies, WorldType
    <3>3. [Fresh(p) EXCEPT !.sticky = IF p \in Cleans THEN hook[p].loop.sticky ELSE 0]
             \in Entries'
      BY <3>1, <3>2 DEF Fresh, Entries
    <3>4. queue \in Seq(Entries') /\ dead' \in Seq(Entries')
      BY <1>4 DEF Grown, FilesType, Enqueue
    <3> QED
      BY <2>2, <3>3, <3>4 DEF FilesType
  <2> QED
    BY <2>1, <2>2 DEF Enqueue
<1>9. DaemonType' /\ RetryType'
  BY <1>4, DaemonStays, RetryStays DEF Enqueue
<1> QED
  BY <1>6, <1>7, <1>8, <1>9

LEMMA CloseTyped ==
    ASSUME TypeInv, NEW p \in Pushes, CloseLoop(p) \/ HookDies(p) \/ ReadRejects(p)
    PROVE  TypeInv'
<1> USE DEF TypeInv
<1>1. Grown
  BY Stays DEF CloseLoop, HookDies, ReadRejects, pull
<1> DEFINE h == [hook[p] EXCEPT !.pc = hook'[p].pc, !.file = hook'[p].file]
<1>2. hook[p] \in [pc : HookSteps, loop : Counts, file : Seq(Entries)]
  BY DEF HookType
<1>3. /\ hook' = [hook EXCEPT ![p] = h]
      /\ hook'[p].pc \in HookSteps \ {"idle", "queue"}
      /\ hook'[p].file \in Seq(Entries)
  <2>1. CASE CloseLoop(p)
    BY <1>2, <2>1 DEF CloseLoop, HookType, HookSteps
  <2>2. CASE HookDies(p)
    <3>1. <<>> \in Seq(Entries)
      OBVIOUS
    <3> QED
      BY <1>2, <2>2, <3>1 DEF HookDies, HookType, HookSteps
  <2>3. CASE ReadRejects(p)
    BY <1>2, <2>3 DEF ReadRejects, HookType, HookSteps, FilesType
  <2> QED
    BY <2>1, <2>2, <2>3
<1>4. h \in [pc : HookSteps, loop : Counts', file : Seq(Entries')]
  BY <1>1, <1>2, <1>3 DEF Grown
<1>5. HookType'
  <2>1. \A q \in Pushes : hook[q].pc \in {"idle", "queue"} => fate'[q] = "none"
    BY DEF HookType, CloseLoop, HookDies, ReadRejects
  <2>2. h.pc \notin {"idle", "queue"}
    BY <1>2, <1>3
  <2> HIDE DEF h
  <2> QED
    BY <1>1, <1>3, <1>4, <2>1, <2>2, HookSetsTo
<1>6. WorldType'
  <2>1. loop' \in {loop, NoLoop}
    BY DEF CloseLoop, HookDies, ReadRejects
  <2>2. loop' \in Counts'
    BY <1>1, <2>1 DEF WorldType, Grown, Counts, Stickies, NoLoop
  <2> QED
    BY <2>2 DEF WorldType, CloseLoop, HookDies, ReadRejects, Fault, NoFault, pull
<1>7. FilesType' /\ DaemonType' /\ RetryType'
  BY <1>1, FilesStay, DaemonStays, RetryStays DEF CloseLoop, HookDies, ReadRejects
<1> QED
  BY <1>5, <1>6, <1>7

LEMMA DropTyped ==
    ASSUME TypeInv, NEW p \in Pushes, DropRejects(p)
    PROVE  TypeInv'
<1> USE DEF TypeInv
<1>1. hook[p] \in [pc : HookSteps, loop : Counts, file : Seq(Entries)]
  BY DEF HookType
<1>2. /\ fate' \in [Pushes -> {"none", "queued", "moot", "settled"}]
      /\ \A q \in Pushes : fate'[q] = fate[q] \/ (fate[q] = "queued" /\ fate'[q] = "moot")
      /\ comments' = comments
  BY DEF DropRejects, WorldType, pull
<1>3. Grown
  <2>1. Known \subseteq Known'
    BY <1>2 DEF Known
  <2>2. Len(comments) \in Nat
    BY DEF WorldType
  <2> QED
    BY <1>2, <2>1, <2>2, Grows
<1> DEFINE h == [hook[p] EXCEPT !.pc = "done", !.file = <<>>]
<1>4. hook' = [hook EXCEPT ![p] = h]
  BY Zenon DEF DropRejects
<1>5. h \in [pc : HookSteps, loop : Counts', file : Seq(Entries')] /\ h.pc = "done"
  <2> DEFINE none == <<>>
  <2>1. none \in Seq(Entries)
    OBVIOUS
  <2> HIDE DEF none
  <2>2. [hook[p] EXCEPT !.pc = "done", !.file = none]
           \in [pc : HookSteps, loop : Counts', file : Seq(Entries')]
    BY <1>1, <1>3, <2>1 DEF HookSteps, Grown
  <2>3. [hook[p] EXCEPT !.pc = "done", !.file = none].pc = "done"
    BY <1>1, <2>2
  <2> QED
    BY <2>2, <2>3 DEF none
<1>6. HookType'
  <2>1. \A q \in Pushes : hook[q].pc \in {"idle", "queue"} => fate'[q] = "none"
    BY <1>2 DEF HookType
  <2> HIDE DEF h
  <2> QED
    BY <1>3, <1>4, <1>5, <2>1, HookSetsTo
<1>7. WorldType'
  BY <1>2, <1>3 DEF WorldType, DropRejects, Fault, NoFault, pull, Grown
<1>8. FilesType'
  <2>1. WithoutRejects(hook[p].file) \in Seq(Entries)
    BY <1>1, WithoutHolds
  <2>2. queue' \in Seq(Entries) /\ dead' \in Seq(Entries)
    BY <2>1 DEF DropRejects, FilesType
  <2> QED
    BY <1>3, <2>2 DEF Grown, FilesType
<1>9. DaemonType' /\ RetryType'
  BY <1>3, DaemonStays, RetryStays DEF DropRejects
<1> QED
  BY <1>6, <1>7, <1>8, <1>9

\* What no step of the dashboard's touches.
LEMMA HookBystander ==
    ASSUME TypeInv, Grown, UNCHANGED hook, \A q \in Pushes : fate[q] = "none" => fate'[q] = "none"
    PROVE  HookType'
BY HookStays DEF TypeInv, HookType

LEMMA QuietTyped ==
    ASSUME TypeInv,
           \/ Poll \/ TakeNext \/ FindPR \/ Lookup \/ SaveLoop \/ ReadSettled \/ ReadFailed
           \/ Bury \/ Rewrite
    PROVE  Grown /\ WorldType' /\ HookType' /\ RetryType'
<1> USE DEF TypeInv, Quiet, files, pull
<1>1. UNCHANGED <<fate, comments, hook, retry, audit, clicks>>
  BY DEF Poll, TakeNext, FindPR, Lookup, SaveLoop, ReadSettled, ReadFailed, Bury, Rewrite
<1>2. Grown
  BY <1>1, Stays
<1>3. HookType' /\ RetryType'
  BY <1>1, <1>2, HookBystander, RetryStays
<1>4. faults' \in 0 .. MaxFaults
  BY DEF WorldType, Poll, TakeNext, FindPR, Lookup, SaveLoop, ReadSettled, ReadFailed, Bury,
         Rewrite, Fault, NoFault
<1>5. waiting' \subseteq Pushes
  <2>1. CASE ReadFailed
    <3>1. daemon.rec \in Entries
      BY <2>1 DEF ReadFailed, DaemonType
    <3> QED
      BY <2>1, <3>1 DEF ReadFailed, WorldType, Entries, Known
  <2> QED
    BY <2>1 DEF WorldType, Poll, TakeNext, FindPR, Lookup, SaveLoop, ReadSettled, Bury, Rewrite
<1>6. loop' \in Counts'
  <2>1. CASE SaveLoop
    <3>1. daemon.prev \in Counts
      BY DEF DaemonType
    <3>2. [n |-> daemon.prev.n + 1, sticky |-> daemon.prev.sticky] \in Counts
      BY <3>1 DEF Counts
    <3> QED
      BY <1>2, <2>1, <3>2 DEF SaveLoop, WorldType, Grown
  <2>2. CASE loop' = loop
    BY <1>2, <2>2 DEF WorldType, Grown
  <2> QED
    BY <2>1, <2>2 DEF Poll, TakeNext, FindPR, Lookup, ReadSettled, ReadFailed, Bury, Rewrite
<1>7. WorldType'
  BY <1>1, <1>4, <1>5, <1>6 DEF WorldType
<1> QED
  BY <1>2, <1>3, <1>7

LEMMA DaemonFilesTyped ==
    ASSUME TypeInv, Grown,
           \/ Poll \/ TakeNext \/ FindPR \/ Lookup \/ SaveLoop \/ ReadSettled \/ ReadFailed
           \/ Bury \/ Rewrite
    PROVE  FilesType'
<1> USE DEF TypeInv, files
<1>1. CASE Bury
  <2>1. daemon.rec \in Entries
    BY <1>1 DEF Bury, DaemonType
  <2>2. queue' \in Seq(Entries) /\ dead' \in Seq(Entries)
    BY <1>1, <2>1 DEF Bury, FilesType
  <2> QED
    BY <2>2 DEF Grown, FilesType
<1>2. CASE Rewrite
  <2>1. daemon.file \in Seq(Entries)
    BY DEF DaemonType
  <2>2. queue' \in Seq(Entries) /\ dead' \in Seq(Entries)
    BY <1>2, <2>1 DEF Rewrite, FilesType
  <2> QED
    BY <2>2 DEF Grown, FilesType
<1> QED
  BY <1>1, <1>2, FilesStay DEF Poll, TakeNext, FindPR, Lookup, SaveLoop, ReadSettled, ReadFailed

DaemonIn == [pc : DaemonSteps, todo : Seq(Entries), rec : Entries \cup {NoRecord},
             prev : Counts, target : Stickies, file : Seq(Entries)]

\* The daemon's own fields, by what its step puts in them.
LEMMA DaemonSetsTo ==
    ASSUME TypeInv, Grown, NEW pc \in DaemonSteps, NEW todo \in Seq(Entries),
           NEW rec \in Entries \cup {NoRecord}, NEW prev \in Counts', NEW target \in Stickies',
           NEW file \in Seq(Entries), pc \notin {"idle", "next"} => rec \in Entries,
           daemon' = [pc |-> pc, todo |-> todo, rec |-> rec, prev |-> prev, target |-> target,
                      file |-> file]
    PROVE  DaemonType'
<1>1. todo \in Seq(Entries') /\ file \in Seq(Entries') /\ rec \in Entries' \cup {NoRecord}
  BY DEF Grown
<1>2. daemon'.pc = pc /\ daemon'.rec = rec
  OBVIOUS
<1>3. pc \notin {"idle", "next"} => rec \in Entries'
  BY DEF Grown
<1> QED
  BY <1>1, <1>2, <1>3 DEF DaemonType

LEMMA DaemonRested ==
    ASSUME TypeInv, Grown, daemon' = Resting
    PROVE  DaemonType'
<1>1. NoLoop \in Counts' /\ 0 \in Stickies'
  BY DEF Grown, Stickies, Counts, NoLoop, TypeInv, WorldType
<1>2. <<>> \in Seq(Entries) /\ "idle" \in DaemonSteps
  BY DEF DaemonSteps
<1> QED
  BY <1>1, <1>2, DaemonSetsTo DEF Resting

\* A step that only moves on, from a step that had a record.
LEMMA DaemonStepped ==
    ASSUME TypeInv, Grown, daemon.pc \notin {"idle", "next"}, NEW pc \in DaemonSteps, Step(pc)
    PROVE  DaemonType'
<1>1. daemon \in DaemonIn /\ daemon.rec \in Entries
  BY DEF TypeInv, DaemonType, DaemonIn
<1>2. daemon' = [pc |-> pc, todo |-> daemon.todo, rec |-> daemon.rec, prev |-> daemon.prev,
                 target |-> daemon.target, file |-> daemon.file]
  BY <1>1 DEF Step, DaemonIn
<1>3. daemon.prev \in Counts' /\ daemon.target \in Stickies' /\ daemon.todo \in Seq(Entries)
      /\ daemon.file \in Seq(Entries)
  BY <1>1 DEF Grown, DaemonIn
<1> QED
  BY <1>1, <1>2, <1>3, DaemonSetsTo

LEMMA PollTyped ==
    ASSUME TypeInv, Grown, Poll
    PROVE  DaemonType'
<1>1. queue \in Seq(Entries) /\ <<>> \in Seq(Entries) /\ NoLoop \in Counts' /\ 0 \in Stickies'
  BY DEF Grown, Stickies, Counts, NoLoop, TypeInv, WorldType, FilesType
<1>2. daemon' = [pc |-> "next", todo |-> queue, rec |-> NoRecord, prev |-> NoLoop,
                 target |-> 0, file |-> <<>>]
  BY DEF Poll, Resting
<1>3. "next" \in DaemonSteps
  BY DEF DaemonSteps
<1> QED
  BY <1>1, <1>2, <1>3, DaemonSetsTo

LEMMA TakeTyped ==
    ASSUME TypeInv, Grown, TakeNext
    PROVE  DaemonType'
<1>1. CASE daemon.todo = <<>>
  BY <1>1, DaemonRested DEF TakeNext
<1>2. CASE daemon.todo # <<>>
  <2>1. daemon.todo \in Seq(Entries)
    BY DEF TypeInv, DaemonType
  <2>2. Head(daemon.todo) \in Entries /\ Tail(daemon.todo) \in Seq(Entries)
    BY <1>2, <2>1, HeadHolds
  <2>3. PICK pc \in {"next", "find"} :
           daemon' = [Resting EXCEPT !.pc = pc, !.todo = Tail(daemon.todo),
                                     !.rec = Head(daemon.todo)]
    BY <1>2 DEF TakeNext
  <2>4. daemon' = [pc |-> pc, todo |-> Tail(daemon.todo), rec |-> Head(daemon.todo),
                   prev |-> NoLoop, target |-> 0, file |-> <<>>]
    BY <2>3 DEF Resting
  <2>5. <<>> \in Seq(Entries) /\ NoLoop \in Counts' /\ 0 \in Stickies' /\ pc \in DaemonSteps
    BY DEF Grown, Stickies, Counts, NoLoop, TypeInv, WorldType, DaemonSteps
  <2> QED
    BY <2>2, <2>4, <2>5, DaemonSetsTo
<1> QED
  BY <1>1, <1>2

LEMMA FindTyped ==
    ASSUME TypeInv, Grown, FindPR
    PROVE  DaemonType'
<1>1. daemon \in DaemonIn /\ daemon.rec \in Entries
  BY DEF TypeInv, DaemonType, DaemonIn, FindPR
<1>2. {"failed", "webhook", "lookup"} \subseteq DaemonSteps
  BY DEF DaemonSteps
<1>3. CASE \E pc \in {"failed", "webhook", "lookup"} : Step(pc)
  BY <1>2, <1>3, DaemonStepped DEF FindPR
<1>4. CASE daemon' = [daemon EXCEPT !.pc = "lookup", !.prev = loop]
  <2>1. daemon' = [pc |-> "lookup", todo |-> daemon.todo, rec |-> daemon.rec, prev |-> loop,
                   target |-> daemon.target, file |-> daemon.file]
    BY <1>1, <1>4 DEF DaemonIn
  <2>2. loop \in Counts' /\ daemon.target \in Stickies' /\ daemon.todo \in Seq(Entries)
        /\ daemon.file \in Seq(Entries)
    BY <1>1 DEF Grown, DaemonIn, TypeInv, WorldType
  <2> QED
    BY <1>1, <1>2, <2>1, <2>2, DaemonSetsTo
<1> QED
  BY <1>3, <1>4 DEF FindPR

LEMMA LookupTyped ==
    ASSUME TypeInv, Grown, Lookup
    PROVE  DaemonType'
<1>1. daemon \in DaemonIn /\ daemon.rec \in Entries
  BY DEF TypeInv, DaemonType, DaemonIn, Lookup
<1>2. StickyOf(daemon.rec, daemon.prev) \in Stickies
  BY <1>1 DEF StickyOf, DaemonIn, Entries, Counts
<1>3. Len(comments) \in Stickies /\ 0 \in Stickies
  BY DEF Stickies, TypeInv, WorldType
<1>4. PICK c \in Stickies : daemon' = [daemon EXCEPT !.pc = "post", !.target = c]
  BY <1>2, <1>3 DEF Lookup
<1>5. daemon' = [pc |-> "post", todo |-> daemon.todo, rec |-> daemon.rec, prev |-> daemon.prev,
                 target |-> c, file |-> daemon.file]
  BY <1>1, <1>4 DEF DaemonIn
<1>6. daemon.prev \in Counts' /\ c \in Stickies' /\ daemon.todo \in Seq(Entries)
      /\ daemon.file \in Seq(Entries) /\ "post" \in DaemonSteps
  BY <1>1 DEF Grown, DaemonIn, DaemonSteps
<1> QED
  BY <1>1, <1>5, <1>6, DaemonSetsTo

LEMMA ReadTyped ==
    ASSUME TypeInv, Grown, ReadSettled \/ ReadFailed
    PROVE  DaemonType'
<1>1. daemon \in DaemonIn /\ daemon.rec \in Entries /\ daemon.pc \notin {"idle", "next"}
  BY DEF TypeInv, DaemonType, DaemonIn, ReadSettled, ReadFailed
<1>2. CASE Step("next")
  BY <1>1, <1>2, DaemonStepped DEF DaemonSteps
<1>3. CASE \E pc \in DaemonSteps, rec \in Entries, file \in Seq(Entries) :
              daemon' = [daemon EXCEPT !.pc = pc, !.rec = rec, !.file = file]
  <2>1. PICK pc \in DaemonSteps, rec \in Entries, file \in Seq(Entries) :
              daemon' = [daemon EXCEPT !.pc = pc, !.rec = rec, !.file = file]
    BY <1>3
  <2>2. daemon' = [pc |-> pc, todo |-> daemon.todo, rec |-> rec, prev |-> daemon.prev,
                   target |-> daemon.target, file |-> file]
    BY <1>1, <2>1 DEF DaemonIn
  <2>3. daemon.prev \in Counts' /\ daemon.target \in Stickies' /\ daemon.todo \in Seq(Entries)
    BY <1>1 DEF Grown, DaemonIn
  <2> QED
    BY <2>2, <2>3, DaemonSetsTo
<1>4. daemon = [daemon EXCEPT !.rec = daemon.rec]
  BY <1>1 DEF DaemonIn
<1>5. queue \in Seq(Entries) /\ "rewrite" \in DaemonSteps /\ "bury" \in DaemonSteps
  BY DEF TypeInv, FilesType, DaemonSteps
<1>6. Without(queue, daemon.rec.push) \in Seq(Entries)
  <2> DEFINE p == daemon.rec.push
  <2>1. queue \in Seq(Entries)
    BY <1>5
  <2> HIDE DEF p
  <2>2. Without(queue, p) \in Seq(Entries)
    BY <2>1, WithoutHolds
  <2> QED
    BY <2>2 DEF p
<1>7. CASE daemon' = [daemon EXCEPT !.pc = "rewrite", !.file = Without(queue, daemon.rec.push)]
  <2>1. daemon' = [daemon EXCEPT !.pc = "rewrite", !.rec = daemon.rec,
                                 !.file = Without(queue, daemon.rec.push)]
    BY <1>1, <1>7 DEF DaemonIn
  <2> QED
    BY <1>1, <1>3, <1>5, <1>6, <2>1
<1>8. CASE /\ Holds(queue, daemon.rec.push)
           /\ daemon' = [daemon EXCEPT !.pc = "bury", !.rec = Find(queue, daemon.rec.push),
                                       !.file = Without(queue, daemon.rec.push)]
  <2>1. Find(queue, daemon.rec.push) \in Entries
    BY <1>5, <1>8, FindHolds
  <2> QED
    BY <1>3, <1>5, <1>6, <1>8, <2>1
<1>9. CASE daemon' = [daemon EXCEPT !.pc = "rewrite",
                          !.file = Updated(queue, [daemon.rec EXCEPT !.tries = @ + 1])]
  <2>1. [daemon.rec EXCEPT !.tries = @ + 1] \in Entries
    BY <1>1 DEF Entries
  <2>2. Updated(queue, [daemon.rec EXCEPT !.tries = @ + 1]) \in Seq(Entries)
    BY <1>5, <2>1, UpdatedHolds
  <2>3. daemon' = [daemon EXCEPT !.pc = "rewrite", !.rec = daemon.rec,
                                 !.file = Updated(queue, [daemon.rec EXCEPT !.tries = @ + 1])]
    BY <1>1, <1>9 DEF DaemonIn
  <2> QED
    BY <1>1, <1>3, <1>5, <2>2, <2>3
<1>10. CASE ReadSettled
  BY <1>2, <1>7, <1>10 DEF ReadSettled
<1>11. CASE ReadFailed
  BY <1>2, <1>8, <1>9, <1>11 DEF ReadFailed
<1> QED
  BY <1>10, <1>11

LEMMA BuryTyped ==
    ASSUME TypeInv, Grown, Bury \/ Rewrite \/ SaveLoop
    PROVE  DaemonType'
<1>1. daemon.pc \notin {"idle", "next"}
  BY DEF Bury, Rewrite, SaveLoop
<1>2. {"next", "rewrite", "webhook"} \subseteq DaemonSteps
  BY DEF DaemonSteps
<1> QED
  BY <1>1, <1>2, DaemonStepped DEF Bury, Rewrite, SaveLoop

LEMMA PostTyped ==
    ASSUME TypeInv, Post
    PROVE  TypeInv'
<1> USE DEF TypeInv
<1> DEFINE p == daemon.rec.push
           shown == IF daemon.target # 0 THEN [comments EXCEPT ![daemon.target] = p]
                    ELSE IF p \in Rejects THEN Append(comments, p)
                    ELSE comments
<1>1. daemon \in DaemonIn /\ daemon.rec \in Entries /\ daemon.pc = "post"
  BY DEF DaemonType, DaemonIn, Post
<1>2. p \in Pushes /\ daemon.target \in 0 .. Len(comments)
  BY <1>1 DEF Entries, Known, DaemonIn, Stickies
<1>3. comments \in Seq(Pushes) /\ Len(comments) \in Nat
  BY DEF WorldType
<1>4. shown \in Seq(Pushes) /\ Len(comments) <= Len(shown) /\ Len(shown) \in Nat
  <2> HIDE DEF p
  <2> QED
    BY <1>2, <1>3
<1>5. comments' \in {comments, shown} /\ UNCHANGED <<fate, hook, retry, audit, clicks>>
  BY DEF Post, Quiet
<1>6. Known' = Known
  BY <1>5 DEF Known
<1> HIDE DEF shown
<1>7. Grown
  BY <1>3, <1>4, <1>5, <1>6, Grows
<1>8. WorldType'
  BY <1>3, <1>4, <1>5, <1>7 DEF WorldType, Post, Grown, Fault, NoFault
<1>9. FilesType' /\ HookType' /\ RetryType'
  BY <1>5, <1>7, FilesStay, HookBystander, RetryStays DEF Post
<1>10. ASSUME Step("failed") PROVE DaemonType'
  <2>1. "failed" \in DaemonSteps
    BY DEF DaemonSteps
  <2>2. daemon.pc \notin {"idle", "next"}
    BY <1>1
  <2> QED
    BY <1>7, <1>10, <2>1, <2>2, DaemonStepped
<1>11. ASSUME comments' = shown,
              daemon' = [daemon EXCEPT
                   !.pc = IF p \in Rejects THEN "save" ELSE "webhook",
                   !.prev.sticky = IF p \in Rejects /\ daemon.target = 0 THEN Len(shown) ELSE @]
       PROVE  DaemonType'
  <2> DEFINE s == IF p \in Rejects /\ daemon.target = 0 THEN Len(shown) ELSE daemon.prev.sticky
             pc == IF p \in Rejects THEN "save" ELSE "webhook"
             prev == [n |-> daemon.prev.n, sticky |-> s]
  <2>1. daemon.prev \in Counts /\ daemon.prev \in Counts'
    BY <1>1, <1>7 DEF DaemonIn, Grown
  <2>2. s \in Stickies'
    BY <1>4, <1>11, <2>1 DEF Counts, Stickies
  <2>3. daemon' = [pc |-> pc, todo |-> daemon.todo, rec |-> daemon.rec,
                   prev |-> prev, target |-> daemon.target, file |-> daemon.file]
    BY <1>1, <1>11, <2>1 DEF DaemonIn, Counts
  <2>4. prev \in Counts'
    BY <2>1, <2>2 DEF Counts
  <2>5. daemon.todo \in Seq(Entries) /\ daemon.file \in Seq(Entries)
        /\ daemon.target \in Stickies' /\ pc \in DaemonSteps
    BY <1>1, <1>7 DEF DaemonIn, Grown, DaemonSteps
  <2>6. daemon.rec \in Entries
    BY <1>1
  <2> HIDE DEF s, pc, prev
  <2> QED
    BY <1>7, <2>3, <2>4, <2>5, <2>6, DaemonSetsTo
<1>12. DaemonType'
  BY <1>10, <1>11 DEF Post, shown
<1> QED
  BY <1>8, <1>9, <1>12

LEMMA DeliverTyped ==
    ASSUME TypeInv, Deliver
    PROVE  TypeInv'
<1> USE DEF TypeInv
<1>1. daemon.rec.push \in Known /\ daemon.pc = "webhook"
  BY DEF DaemonType, Deliver, Entries
<1>2. /\ fate' \in [Pushes -> {"none", "queued", "moot", "settled"}]
      /\ \A q \in Pushes : fate'[q] = fate[q] \/ (q = daemon.rec.push /\ fate'[q] = "settled")
      /\ comments' = comments /\ UNCHANGED <<hook, retry, audit, clicks>>
  BY DEF Deliver, WorldType, pull, Quiet
<1>3. Grown
  <2>1. Known \subseteq Known'
    BY <1>2 DEF Known
  <2>2. Len(comments) \in Nat
    BY DEF WorldType
  <2> QED
    BY <1>2, <2>1, <2>2, Grows
<1>4. WorldType'
  BY <1>2, <1>3 DEF WorldType, Deliver, Grown, Fault, NoFault
<1>5. \A q \in Pushes : fate[q] = "none" => fate'[q] = "none"
  BY <1>1, <1>2 DEF Known
<1>6. FilesType' /\ HookType' /\ RetryType'
  BY <1>2, <1>3, <1>5, FilesStay, HookBystander, RetryStays DEF Deliver
<1>7. DaemonType'
  <2>1. {"failed", "settle"} \subseteq DaemonSteps
    BY DEF DaemonSteps
  <2> QED
    BY <1>1, <1>3, <2>1, DaemonStepped DEF Deliver
<1> QED
  BY <1>4, <1>6, <1>7

LEMMA DaemonTyped ==
    ASSUME TypeInv, DaemonStep
    PROVE  TypeInv'
<1>1. CASE Post
  BY <1>1, PostTyped
<1>2. CASE Deliver
  BY <1>2, DeliverTyped
<1>3. CASE \/ Poll \/ TakeNext \/ FindPR \/ Lookup \/ SaveLoop \/ ReadSettled \/ ReadFailed
           \/ Bury \/ Rewrite
  <2>1. Grown /\ WorldType' /\ HookType' /\ RetryType'
    BY <1>3, QuietTyped
  <2>2. FilesType'
    BY <1>3, <2>1, DaemonFilesTyped
  <2>3. DaemonType'
    BY <1>3, <2>1, PollTyped, TakeTyped, FindTyped, LookupTyped, ReadTyped, BuryTyped
  <2> QED
    BY <2>1, <2>2, <2>3 DEF TypeInv
<1> QED
  BY <1>1, <1>2, <1>3 DEF DaemonStep

LEMMA CrashTyped ==
    ASSUME TypeInv, Crash
    PROVE  TypeInv'
<1> USE DEF TypeInv
<1>1. Grown
  BY Stays DEF Crash, pull
<1>2. WorldType'
  BY <1>1 DEF Grown, WorldType, Crash, Fault, pull
<1>3. FilesType' /\ HookType' /\ DaemonType'
  BY <1>1, FilesStay, HookBystander, DaemonRested DEF Crash
<1>4. RetryType'
  BY DEF Crash, RetryType, Pending, RetrySteps
<1> QED
  BY <1>2, <1>3, <1>4

LEMMA RetryTyped ==
    ASSUME TypeInv, RetryNow \/ RetryStep
    PROVE  TypeInv'
<1> USE DEF TypeInv
<1>1. UNCHANGED <<fate, comments, prOpen, audit, waiting, hook, daemon, loop>>
  BY DEF RetryNow, RetryStep, Requeue, EmptyDeadletter, ReadBackoff, ResetBackoff, Still, pull
<1>2. Grown
  BY <1>1, Stays
<1>3. faults' \in 0 .. MaxFaults /\ clicks' \in 0 .. MaxClicks
  BY DEF RetryNow, RetryStep, Requeue, EmptyDeadletter, ReadBackoff, ResetBackoff, WorldType,
         Fault, NoFault, Click
<1>4. WorldType'
  BY <1>1, <1>2, <1>3 DEF WorldType, Grown
<1>5. HookType' /\ DaemonType'
  BY <1>1, <1>2, HookBystander, DaemonStays
<1>6. retry \in [pc : RetrySteps, file : Seq(Entries)] /\ queue \in Seq(Entries)
      /\ dead \in Seq(Entries) /\ <<>> \in Seq(Entries)
  BY DEF RetryType, FilesType
<1>7. CASE RetryNow
  <2>1. FilesType'
    BY <1>2, <1>7, FilesStay DEF RetryNow
  <2>2. retry' \in [pc : RetrySteps, file : Seq(Entries)]
        /\ (retry'.pc = "requeue" => retry'.file # <<>>)
    BY <1>6, <1>7 DEF RetryNow, RetrySteps
  <2> QED
    BY <1>2, <1>4, <1>5, <2>1, <2>2 DEF RetryType, Grown
<1>8. CASE Requeue
  <2>1. Head(retry.file) \in Entries /\ Tail(retry.file) \in Seq(Entries)
        /\ (Len(retry.file) = 1 <=> Tail(retry.file) = <<>>)
    BY <1>6, <1>8, HeadHolds DEF Requeue, RetryType
  <2>2. [Head(retry.file) EXCEPT !.tries = 0] \in Entries
    BY <2>1 DEF Entries
  <2> DEFINE first == [Head(retry.file) EXCEPT !.tries = 0]
             rest == Tail(retry.file)
  <2> HIDE DEF first, rest
  <2>3. /\ queue' \in {queue, Append(queue, first)} /\ dead' = dead
        /\ retry' \in {[pc |-> IF Len(retry.file) = 1 THEN "empty" ELSE "requeue", file |-> rest],
                      [pc |-> "reset", file |-> <<>>]}
    BY <1>8 DEF Requeue, first, rest
  <2>4. queue' \in Seq(Entries) /\ dead' \in Seq(Entries)
    <3>1. first \in Entries
      BY <2>2 DEF first
    <3>2. Append(queue, first) \in Seq(Entries)
      BY <1>6, <3>1
    <3> QED
      BY <1>6, <2>3, <3>2
  <2>5. retry' \in [pc : RetrySteps, file : Seq(Entries)]
        /\ (retry'.pc = "requeue" => retry'.file # <<>>)
    <3>1. rest \in Seq(Entries) /\ (Len(retry.file) = 1 <=> rest = <<>>)
      BY <2>1 DEF rest
    <3>2. CASE retry' = [pc |-> "reset", file |-> <<>>]
      BY <1>6, <3>2 DEF RetrySteps
    <3>3. CASE retry' = [pc |-> IF Len(retry.file) = 1 THEN "empty" ELSE "requeue",
                         file |-> rest]
      BY <3>1, <3>3 DEF RetrySteps
    <3> QED
      BY <2>3, <3>2, <3>3
  <2> QED
    BY <1>2, <1>4, <1>5, <2>4, <2>5 DEF RetryType, FilesType, Grown
<1>9. CASE EmptyDeadletter \/ ReadBackoff \/ ResetBackoff
  <2>1. ResetTries(queue) \in Seq(Entries)
    BY <1>6, ResetHolds
  <2>2. queue' \in Seq(Entries) /\ dead' \in Seq(Entries)
    BY <1>6, <1>9 DEF EmptyDeadletter, ReadBackoff, ResetBackoff, files
  <2>3. retry' \in [pc : RetrySteps, file : Seq(Entries)] /\ retry'.pc # "requeue"
    <3> DEFINE mine == ResetTries(queue)
    <3>1. mine \in Seq(Entries) /\ Pending \in [pc : RetrySteps, file : Seq(Entries)]
          /\ Pending.pc = "idle"
      BY <1>6, <2>1 DEF Pending, RetrySteps
    <3> HIDE DEF mine
    <3>2. retry' \in {Pending, [retry EXCEPT !.pc = "reset"], [pc |-> "rewrite", file |-> mine]}
      BY <1>9 DEF EmptyDeadletter, ReadBackoff, ResetBackoff, mine
    <3>3. CASE retry' = [retry EXCEPT !.pc = "reset"]
      BY <1>6, <3>3 DEF RetrySteps
    <3>4. CASE retry' = [pc |-> "rewrite", file |-> mine]
      BY <3>1, <3>4 DEF RetrySteps
    <3> QED
      BY <3>1, <3>2, <3>3, <3>4
  <2> QED
    BY <1>2, <1>4, <1>5, <2>2, <2>3 DEF RetryType, FilesType, Grown
<1> QED
  BY <1>7, <1>8, <1>9 DEF RetryStep

LEMMA OthersTyped ==
    ASSUME TypeInv, ResetLoop \/ OpenPR \/ (\E p \in Pushes : BackoffEnds(p))
    PROVE  TypeInv'
<1> USE DEF TypeInv, ResetLoop, OpenPR, BackoffEnds, Still, pull
<1>1. UNCHANGED <<fate, comments, audit, hook, daemon, retry, files>>
  BY DEF files
<1>2. Grown
  BY <1>1, Stays
<1>3. loop' \in Counts /\ waiting' \subseteq Pushes
  BY DEF WorldType, Counts, NoLoop, Stickies
<1>4. faults' \in 0 .. MaxFaults /\ clicks' \in 0 .. MaxClicks
  BY DEF WorldType, Click
<1>5. WorldType'
  BY <1>1, <1>2, <1>3, <1>4 DEF WorldType, Grown
<1> QED
  BY <1>1, <1>2, <1>5, FilesStay, HookBystander, DaemonStays, RetryStays

LEMMA TypeInvKept == TypeInv /\ [Next]_vars => TypeInv'
<1> SUFFICES ASSUME TypeInv, [Next]_vars PROVE TypeInv'
  OBVIOUS
<1>1. CASE UNCHANGED vars
  <2>1. UNCHANGED <<fate, comments, audit, hook, daemon, retry, queue, dead, loop, waiting,
                    faults, clicks>>
    BY <1>1 DEF vars
  <2>2. Grown
    BY <2>1, Stays
  <2>3. WorldType'
    BY <2>1, <2>2 DEF TypeInv, WorldType, Grown
  <2> QED
    BY <2>1, <2>2, <2>3, FilesStay, HookBystander, DaemonStays, RetryStays DEF TypeInv, files
<1>2. ASSUME NEW p \in Pushes, Verdict(p) \/ HookStep(p) \/ HookDies(p) PROVE TypeInv'
  BY <1>2, VerdictTyped, EnqueueTyped, CloseTyped, DropTyped DEF HookStep
<1> QED
  BY <1>1, <1>2, DaemonTyped, CrashTyped, RetryTyped, OthersTyped DEF Next

LEMMA TypeInvCorrect == Spec => []TypeInv
BY InitTyped, TypeInvKept, PTL DEF Spec

LEMMA TypeInvGives == TypeInv => TypeOK
<1> SUFFICES ASSUME TypeInv PROVE TypeOK
  OBVIOUS
<1> USE DEF TypeInv, WorldType, FilesType, HookType, DaemonType, RetryType
<1>1. Entries \subseteq Record
  BY DEF Entries, Record, Known, Stickies
<1>2. Seq(Entries) \subseteq Seq(Record)
  BY <1>1, GrownSeq
<1>3. \A p \in Pushes : hook[p].pc \in HookSteps /\ hook[p].file \in Seq(Record)
  BY <1>2
<1>4. daemon.prev \in Counts /\ daemon.target \in Stickies
  OBVIOUS
<1> QED
  BY <1>1, <1>2, <1>3, <1>4
     DEF TypeOK, Counts, Stickies, HookSteps, DaemonSteps, RetrySteps

\* Every variable keeps its type, whatever the interleaving of hooks, daemon and operator.
THEOREM TypeCorrect == Spec => []TypeOK
BY TypeInvCorrect, TypeInvGives, PTL
-----------------------------------------------------------------------------
(* Durability, when no process touches the files between the two steps of  *)
(* another.                                                                *)

HookWrites(p) == hook[p].pc = "rewrite"
DaemonWrites == daemon.pc \in {"bury", "rewrite"}
RetryWrites == retry.pc \in {"requeue", "empty", "rewrite"}

OneWriter ==
    /\ \A p, q \in Pushes : HookWrites(p) /\ HookWrites(q) => p = q
    /\ \A p \in Pushes : HookWrites(p) => ~DaemonWrites /\ ~RetryWrites
    /\ DaemonWrites => ~RetryWrites

Within(f, g) == \A q \in Pushes : Holds(f, q) => Holds(g, q)

\* What a process is about to write is enough.  A record the daemon buries is missing from its
\* copy until it is in the deadletter; the operator's copy of the deadletter is emptied into
\* the queue before the deadletter is.
HookCopy == \A p \in Pushes : HookWrites(p) => hook[p].file = queue

Replaces(f, q) == fate[q] = "queued" => Holds(f, q) \/ Holds(dead, q)
DaemonCopy ==
    /\ daemon.pc = "settle" => fate[daemon.rec.push] # "queued"
    /\ daemon.pc = "bury" => \A q \in Pushes \ {daemon.rec.push} : Replaces(daemon.file, q)
    /\ daemon.pc = "rewrite" => \A q \in Pushes : Replaces(daemon.file, q)

RetryCopy ==
    /\ retry.pc = "requeue" =>
          \A q \in Pushes : Holds(dead, q) => Holds(queue, q) \/ Holds(retry.file, q)
    /\ retry.pc = "empty" => Within(dead, queue)
    /\ retry.pc = "rewrite" => Within(queue, retry.file)

DurInv == OneWriter /\ HookCopy /\ DaemonCopy /\ RetryCopy /\ Durable

\* When no process is between its read of the files and its write, only two parts are left.
LEMMA Calm ==
    ASSUME ~Rewriting', Durable', daemon'.pc = "settle" => fate'[daemon'.rec.push] # "queued"
    PROVE  DurInv'
BY DEF DurInv, Rewriting, OneWriter, HookCopy, DaemonCopy, RetryCopy, HookWrites, DaemonWrites,
       RetryWrites

LEMMA InitDurable == Init => DurInv
BY DEF Init, DurInv, OneWriter, HookCopy, DaemonCopy, RetryCopy, Durable, HookWrites, DaemonWrites,
       RetryWrites, Resting, Pending

\* A hook that starts, closes the loop or dies writes nothing.
LEMMA HookStepsDurable ==
    ASSUME TypeInv, DurInv, NEW p \in Pushes, Verdict(p) \/ CloseLoop(p) \/ HookDies(p)
    PROVE  DurInv'
<1>1. UNCHANGED <<daemon, retry, queue, dead, fate>>
  BY DEF Verdict, CloseLoop, HookDies, files
<1>2. hook'[p].pc # "rewrite" /\ \A q \in Pushes \ {p} : hook'[q] = hook[q]
  BY DEF Verdict, CloseLoop, HookDies, TypeInv, HookType
<1>3. \A q \in Pushes : HookWrites(q)' => HookWrites(q) /\ hook'[q] = hook[q]
  BY <1>2 DEF HookWrites
<1>4. OneWriter'
  BY <1>1, <1>3 DEF DurInv, OneWriter, HookWrites, DaemonWrites, RetryWrites
<1>5. HookCopy'
  BY <1>1, <1>3 DEF DurInv, HookCopy, HookWrites
<1>6. DaemonCopy' /\ RetryCopy' /\ Durable'
  BY <1>1 DEF DurInv, DaemonCopy, RetryCopy, Durable, Replaces, Within, Holds
<1> QED
  BY <1>4, <1>5, <1>6 DEF DurInv

LEMMA EnqueueDurable ==
    ASSUME ~Overlap, TypeInv, DurInv, NEW p \in Pushes, Enqueue(p)
    PROVE  DurInv'
<1>1. ~Rewriting
  BY DEF Enqueue, MayTouch
<1>2. UNCHANGED <<daemon, retry, dead>> /\ fate[p] = "none"
  BY DEF Enqueue, TypeInv, HookType
<1>3. ~Rewriting'
  <2>1. hook'[p].pc # "rewrite" /\ \A q \in Pushes \ {p} : hook'[q] = hook[q]
    BY DEF Enqueue, TypeInv, HookType
  <2> QED
    BY <1>1, <1>2, <2>1 DEF Rewriting
<1>4. daemon'.pc = "settle" => fate'[daemon'.rec.push] # "queued"
  <2>1. daemon.pc = "settle" => daemon.rec.push \in Known /\ fate[daemon.rec.push] # "queued"
    BY DEF TypeInv, DaemonType, Entries, DurInv, DaemonCopy
  <2>2. \A q \in Pushes \ {p} : fate'[q] = fate[q]
    BY DEF Enqueue, TypeInv, WorldType
  <2> QED
    BY <1>2, <2>1, <2>2 DEF Known
<1>5. CASE UNCHANGED <<queue, fate>>
  <2>1. Durable'
    BY <1>2, <1>5 DEF DurInv, Durable, Holds
  <2> QED
    BY <1>3, <1>4, <2>1, Calm
<1>6. CASE /\ fate' = [fate EXCEPT ![p] = "queued"]
           /\ queue' = Append(queue, [Fresh(p) EXCEPT
                        !.sticky = IF p \in Cleans THEN hook[p].loop.sticky ELSE 0])
  <2> DEFINE x == [Fresh(p) EXCEPT !.sticky = IF p \in Cleans THEN hook[p].loop.sticky ELSE 0]
             E == Entries \cup {x}
  <2>1. x.push = p /\ x \in E
    BY DEF Fresh
  <2>2. queue \in Seq(Entries) /\ Entries \subseteq E
    BY DEF TypeInv, FilesType
  <2>3. queue' = Append(queue, x)
    BY <1>6
  <2> HIDE DEF E, x
  <2>4. queue \in Seq(E)
    BY <2>2, GrownSeq
  <2>5. \A q : Holds(queue', q) <=> Holds(queue, q) \/ q = p
    BY <2>1, <2>3, <2>4, AppendHolds
  <2>6. \A q \in Pushes \ {p} : fate'[q] = fate[q]
    BY <1>6 DEF TypeInv, WorldType
  <2>7. \A q : Holds(dead', q) <=> Holds(dead, q)
    BY <1>2
  <2>8. Durable'
    BY <2>5, <2>6, <2>7 DEF DurInv, Durable
  <2> QED
    BY <1>3, <1>4, <2>8, Calm
<1> QED
  BY <1>5, <1>6 DEF Enqueue

LEMMA ReadRejectsDurable ==
    ASSUME ~Overlap, TypeInv, DurInv, NEW p \in Pushes, ReadRejects(p)
    PROVE  DurInv'
<1>1. ~Rewriting /\ UNCHANGED <<daemon, retry, queue, dead, fate>>
  BY DEF ReadRejects, MayTouch, files
<1>2. hook'[p].file = queue /\ \A q \in Pushes \ {p} : hook'[q] = hook[q]
  BY DEF ReadRejects, TypeInv, HookType
<1>3. \A q \in Pushes : HookWrites(q)' => q = p
  BY <1>1, <1>2 DEF Rewriting, HookWrites
<1>4. ~DaemonWrites' /\ ~RetryWrites'
  BY <1>1 DEF Rewriting, DaemonWrites, RetryWrites
<1>5. OneWriter'
  BY <1>3, <1>4 DEF OneWriter
<1>6. HookCopy'
  BY <1>1, <1>2, <1>3 DEF HookCopy
<1>7. DaemonCopy' /\ RetryCopy' /\ Durable'
  BY <1>1 DEF DurInv, DaemonCopy, RetryCopy, Durable, Replaces, Within, Holds
<1> QED
  BY <1>5, <1>6, <1>7 DEF DurInv

LEMMA DropDurable ==
    ASSUME TypeInv, DurInv, NEW p \in Pushes, DropRejects(p)
    PROVE  DurInv'
<1>1. /\ HookWrites(p) /\ hook[p].file = queue /\ UNCHANGED <<daemon, retry, dead>>
      /\ \A q \in Pushes : HookWrites(q) => q = p
      /\ ~DaemonWrites /\ ~RetryWrites
  BY DEF DropRejects, HookWrites, DurInv, OneWriter, HookCopy
<1>2. hook'[p].pc = "done" /\ \A q \in Pushes \ {p} : hook'[q] = hook[q]
  BY DEF DropRejects, TypeInv, HookType
<1>3. ~Rewriting'
  BY <1>1, <1>2 DEF Rewriting, HookWrites, DaemonWrites, RetryWrites
<1>4. daemon'.pc = "settle" => fate'[daemon'.rec.push] # "queued"
  <2>1. daemon.pc = "settle" => daemon.rec.push \in Pushes /\ fate[daemon.rec.push] # "queued"
    BY DEF TypeInv, DaemonType, Entries, DurInv, DaemonCopy, Known
  <2>2. \A q \in Pushes : fate'[q] = "queued" => fate[q] = "queued"
    BY DEF DropRejects
  <2> QED
    BY <1>1, <2>1, <2>2
<1>5. CASE UNCHANGED <<queue, fate>>
  <2>1. Durable'
    BY <1>1, <1>5 DEF DurInv, Durable, Holds
  <2> QED
    BY <1>3, <1>4, <2>1, Calm
<1>6. CASE queue' # queue \/ fate' # fate
  <2>1. queue' = WithoutRejects(queue)
    BY <1>1, <1>6 DEF DropRejects
  <2>2. \A q \in Pushes : fate'[q] = "queued" =>
            fate[q] = "queued" /\ ~(q \in Rejects /\ Holds(queue, q))
    BY <1>1, <1>6 DEF DropRejects
  <2>3. queue \in Seq(Entries)
    BY DEF TypeInv, FilesType
  <2>4. \A q \in Pushes : Holds(queue', q) <=> Holds(queue, q) /\ q \notin Rejects
    BY <2>1, <2>3, WithoutHolds
  <2>5. \A q : Holds(dead', q) <=> Holds(dead, q)
    BY <1>1
  <2>6. Durable'
    BY <2>2, <2>4, <2>5 DEF DurInv, Durable
  <2> QED
    BY <1>3, <1>4, <2>6, Calm
<1> QED
  BY <1>5, <1>6

\* The daemon's steps that leave the files and what is known of them alone.
LEMMA DaemonIdleDurable ==
    ASSUME DurInv, ~DaemonWrites',
           UNCHANGED <<queue, dead, fate, hook>>,
           RetryWrites' => RetryWrites /\ retry' = retry,
           daemon'.pc = "settle" => daemon.pc = "settle" /\ daemon' = daemon
    PROVE  DurInv'
<1>1. OneWriter'
  BY DEF DurInv, OneWriter, HookWrites
<1>2. HookCopy'
  BY DEF DurInv, HookCopy, HookWrites
<1>3. DaemonCopy'
  BY DEF DurInv, DaemonCopy, DaemonWrites
<1>4. RetryCopy'
  BY DEF DurInv, RetryCopy, RetryWrites, Within, Holds
<1>5. Durable'
  BY DEF DurInv, Durable, Holds
<1> QED
  BY <1>1, <1>2, <1>3, <1>4, <1>5 DEF DurInv

LEMMA PassDurable ==
    ASSUME TypeInv, DurInv, Poll \/ TakeNext \/ FindPR \/ Lookup \/ Post \/ SaveLoop
    PROVE  DurInv'
<1>1. UNCHANGED <<queue, dead, fate, hook, retry>>
  BY DEF Poll, TakeNext, FindPR, Lookup, Post, SaveLoop, Quiet, files
<1>2. daemon'.pc \notin {"settle", "bury", "rewrite"}
  <2>1. daemon \in DaemonIn
    BY DEF TypeInv, DaemonType, DaemonIn
  <2> QED
    <3>1. CASE Poll
      BY <3>1 DEF Poll, Resting
    <3>5. CASE TakeNext
      <4>1. daemon' = Resting \/ \E pc \in {"next", "find"} :
                daemon' = [Resting EXCEPT !.pc = pc, !.todo = Tail(daemon.todo),
                                          !.rec = Head(daemon.todo)]
        BY <3>5 DEF TakeNext
      <4>2. daemon'.pc \in {"idle", "next", "find"}
        <5>1. ASSUME NEW pc, NEW todo, NEW rec,
                     daemon' = [Resting EXCEPT !.pc = pc, !.todo = todo, !.rec = rec]
              PROVE  daemon'.pc = pc
          BY <5>1 DEF Resting
        <5>2. Resting.pc = "idle"
          BY DEF Resting
        <5> QED
          BY <4>1, <5>1, <5>2, Zenon
      <4> QED
        BY <4>2
    <3>2. CASE FindPR \/ Lookup
      BY <2>1, <3>2 DEF FindPR, Lookup, Step, DaemonIn
    <3>3. CASE Post
      BY <2>1, <3>3 DEF Post, Step, DaemonIn
    <3>4. CASE SaveLoop
      BY <2>1, <3>4 DEF SaveLoop, Step, DaemonIn
    <3> QED
      BY <3>1, <3>2, <3>3, <3>4, <3>5
<1> QED
  BY <1>1, <1>2, DaemonIdleDurable DEF DaemonWrites, RetryWrites

LEMMA DeliverDurable ==
    ASSUME TypeInv, DurInv, Deliver
    PROVE  DurInv'
<1>1. /\ UNCHANGED <<queue, dead, hook, retry>> /\ daemon \in DaemonIn
      /\ daemon.pc = "webhook" /\ daemon.rec.push \in Pushes
  BY DEF Deliver, Quiet, files, TypeInv, DaemonType, DaemonIn, Entries, Known
<1>2. CASE Step("failed") /\ UNCHANGED fate
  <2>1. daemon'.pc = "failed"
    BY <1>1, <1>2 DEF Step, DaemonIn
  <2> QED
    BY <1>1, <1>2, <2>1, DaemonIdleDurable DEF DaemonWrites, RetryWrites
<1>3. CASE Step("settle") /\ fate' = [fate EXCEPT ![daemon.rec.push] = "settled"]
  <2>1. daemon'.pc = "settle" /\ daemon'.rec = daemon.rec
    BY <1>1, <1>3 DEF Step, DaemonIn
  <2>2. /\ fate'[daemon.rec.push] # "queued"
        /\ \A q \in Pushes : fate'[q] = "queued" => fate[q] = "queued"
    BY <1>1, <1>3 DEF TypeInv, WorldType
  <2>3. OneWriter' /\ DaemonCopy'
    BY <1>1, <2>1, <2>2
       DEF DurInv, OneWriter, HookWrites, DaemonWrites, RetryWrites, DaemonCopy
  <2>4. HookCopy' /\ RetryCopy'
    BY <1>1 DEF DurInv, HookCopy, HookWrites, RetryCopy, Within, Holds
  <2>5. Durable'
    BY <1>1, <2>2 DEF DurInv, Durable, Holds
  <2> QED
    BY <2>3, <2>4, <2>5 DEF DurInv
<1> QED
  BY <1>2, <1>3 DEF Deliver

\* The daemon has read the queue, no other process being between a read and a write.
LEMMA ReadDurable ==
    ASSUME DurInv, ~Rewriting, UNCHANGED <<queue, dead, fate, hook, retry>>,
           daemon'.pc \in {"bury", "rewrite"}, DaemonCopy'
    PROVE  DurInv'
<1>1. OneWriter'
  BY DEF Rewriting, OneWriter, HookWrites, DaemonWrites, RetryWrites
<1>2. HookCopy' /\ RetryCopy'
  BY DEF DurInv, HookCopy, HookWrites, RetryCopy, Within, Holds
<1>3. Durable'
  BY DEF DurInv, Durable, Holds
<1> QED
  BY <1>1, <1>2, <1>3 DEF DurInv

LEMMA ReadSettledDurable ==
    ASSUME ~Overlap, TypeInv, DurInv, ReadSettled
    PROVE  DurInv'
<1> DEFINE p == daemon.rec.push
<1>1. /\ ~Rewriting /\ UNCHANGED <<queue, dead, fate, hook, retry>> /\ daemon \in DaemonIn
      /\ daemon.pc = "settle" /\ fate[p] # "queued"
  BY DEF ReadSettled, MayTouch, Quiet, files, TypeInv, DaemonType, DaemonIn, DurInv, DaemonCopy
<1>2. CASE Step("next")
  <2>1. daemon'.pc = "next"
    BY <1>1, <1>2 DEF Step, DaemonIn
  <2> QED
    BY <1>1, <2>1, DaemonIdleDurable DEF DaemonWrites, RetryWrites
<1>3. CASE daemon' = [daemon EXCEPT !.pc = "rewrite", !.file = Without(queue, p)]
  <2>1. daemon'.pc = "rewrite" /\ daemon'.file = Without(queue, p)
    BY <1>1, <1>3 DEF DaemonIn
  <2>2. queue \in Seq(Entries)
    BY DEF TypeInv, FilesType
  <2> HIDE DEF p
  <2>3. \A q \in Pushes : Holds(Without(queue, p), q) <=> Holds(queue, q) /\ q # p
    BY <2>2, WithoutHolds
  <2>4. \A q \in Pushes : Replaces(daemon.file, q)'
    BY <1>1, <2>1, <2>3 DEF Replaces, DurInv, Durable, Holds
  <2>5. DaemonCopy'
    BY <2>1, <2>4 DEF DaemonCopy
  <2> QED
    BY <1>1, <2>1, <2>5, ReadDurable
<1> QED
  BY <1>2, <1>3 DEF ReadSettled

LEMMA ReadFailedDurable ==
    ASSUME ~Overlap, TypeInv, DurInv, ReadFailed
    PROVE  DurInv'
<1> DEFINE p == daemon.rec.push
           rec == [daemon.rec EXCEPT !.tries = @ + 1]
<1>1. /\ ~Rewriting /\ UNCHANGED <<queue, dead, fate, hook, retry>> /\ daemon \in DaemonIn
      /\ daemon.rec \in Entries
  BY DEF ReadFailed, MayTouch, Quiet, files, TypeInv, DaemonType, DaemonIn
<1>2. queue \in Seq(Entries) /\ rec \in Entries
  BY <1>1 DEF TypeInv, FilesType, Entries
<1>3. \A q \in Pushes : fate[q] = "queued" => Holds(queue, q) \/ Holds(dead, q)
  BY DEF DurInv, Durable
<1> HIDE DEF p, rec
<1>4. CASE Step("next")
  <2>1. daemon'.pc = "next"
    BY <1>1, <1>4 DEF Step, DaemonIn
  <2> QED
    BY <1>1, <2>1, DaemonIdleDurable DEF DaemonWrites, RetryWrites
<1>5. CASE /\ Holds(queue, p)
           /\ daemon' = [daemon EXCEPT !.pc = "bury", !.rec = Find(queue, p),
                                       !.file = Without(queue, p)]
  <2>1. daemon'.pc = "bury" /\ daemon'.file = Without(queue, p) /\ daemon'.rec = Find(queue, p)
    BY <1>1, <1>5 DEF DaemonIn
  <2>2. queue \in Seq(Entries)
    BY <1>2
  <2>3. \A q \in Pushes : Holds(Without(queue, p), q) <=> Holds(queue, q) /\ q # p
    BY <2>2, WithoutHolds
  <2>4. Find(queue, p).push = p
    BY <1>5, <2>2, FindHolds
  <2>5. \A q \in Pushes : Holds(dead', q) <=> Holds(dead, q)
    BY <1>1
  <2>6. \A q \in Pushes \ {daemon'.rec.push} : Replaces(daemon.file, q)'
    BY <1>1, <1>3, <2>1, <2>3, <2>4, <2>5 DEF Replaces
  <2>7. DaemonCopy'
    BY <2>1, <2>6 DEF DaemonCopy
  <2> QED
    BY <1>1, <2>1, <2>7, ReadDurable
<1>6. CASE daemon' = [daemon EXCEPT !.pc = "rewrite", !.file = Updated(queue, rec)]
  <2>1. daemon'.pc = "rewrite" /\ daemon'.file = Updated(queue, rec)
    BY <1>1, <1>6 DEF DaemonIn
  <2>2. \A q : Holds(Updated(queue, rec), q) <=> Holds(queue, q)
    BY <1>2, UpdatedHolds
  <2>3. \A q \in Pushes : Holds(dead', q) <=> Holds(dead, q)
    BY <1>1
  <2>4. \A q \in Pushes : Replaces(daemon.file, q)'
    BY <1>1, <1>3, <2>1, <2>2, <2>3 DEF Replaces
  <2>5. DaemonCopy'
    BY <2>1, <2>4 DEF DaemonCopy
  <2> QED
    BY <1>1, <2>1, <2>5, ReadDurable
<1> QED
  BY <1>4, <1>5, <1>6 DEF ReadFailed, p, rec

LEMMA BuryDurable ==
    ASSUME TypeInv, DurInv, Bury
    PROVE  DurInv'
<1>1. /\ UNCHANGED <<queue, fate, hook, retry>> /\ daemon \in DaemonIn /\ daemon.rec \in Entries
      /\ daemon.pc = "bury"
  BY DEF Bury, Quiet, TypeInv, DaemonType, DaemonIn
<1>2. CASE UNCHANGED dead /\ Step("next")
  <2>1. daemon'.pc = "next"
    BY <1>1, <1>2 DEF Step, DaemonIn
  <2> QED
    BY <1>1, <1>2, <2>1, DaemonIdleDurable DEF DaemonWrites, RetryWrites
<1>3. CASE dead' = Append(dead, daemon.rec) /\ Step("rewrite")
  <2>1. daemon'.pc = "rewrite" /\ daemon'.file = daemon.file
    BY <1>1, <1>3 DEF Step, DaemonIn
  <2>2. dead \in Seq(Entries)
    BY DEF TypeInv, FilesType
  <2>3. \A q : Holds(dead', q) <=> Holds(dead, q) \/ q = daemon.rec.push
    BY <1>1, <1>3, <2>2, AppendHolds
  <2>4. \A q \in Pushes \ {daemon.rec.push} : Replaces(daemon.file, q)
    BY <1>1 DEF DurInv, DaemonCopy
  <2>5. \A q \in Pushes : Replaces(daemon.file, q)'
    BY <1>1, <2>1, <2>3, <2>4 DEF Replaces
  <2>6. DaemonCopy'
    BY <2>1, <2>5 DEF DaemonCopy
  <2>7. OneWriter' /\ ~RetryWrites'
    BY <1>1, <2>1 DEF DurInv, OneWriter, HookWrites, DaemonWrites, RetryWrites
  <2>8. HookCopy' /\ RetryCopy'
    BY <1>1, <2>7 DEF DurInv, HookCopy, HookWrites, RetryCopy, RetryWrites
  <2>9. Durable'
    <3>1. \A q \in Pushes : Holds(queue', q) <=> Holds(queue, q)
      BY <1>1
    <3> QED
      BY <1>1, <2>3, <3>1 DEF DurInv, Durable
  <2> QED
    BY <2>6, <2>7, <2>8, <2>9 DEF DurInv
<1> QED
  BY <1>2, <1>3 DEF Bury

LEMMA RewriteDurable ==
    ASSUME TypeInv, DurInv, Rewrite
    PROVE  DurInv'
<1>1. /\ UNCHANGED <<dead, fate, hook, retry>> /\ daemon \in DaemonIn /\ daemon.pc = "rewrite"
      /\ queue' \in {queue, daemon.file} /\ Step("next")
  BY DEF Rewrite, Quiet, TypeInv, DaemonType, DaemonIn
<1>2. daemon'.pc = "next"
  BY <1>1 DEF Step, DaemonIn
<1>3. ~Rewriting'
  BY <1>1, <1>2 DEF Rewriting, DurInv, OneWriter, HookWrites, DaemonWrites, RetryWrites
<1>4. Durable'
  <2>1. \A q \in Pushes : Replaces(queue, q) /\ Replaces(daemon.file, q)
    BY <1>1 DEF DurInv, DaemonCopy, Durable, Replaces
  <2>2. \A q \in Pushes : Holds(dead', q) <=> Holds(dead, q)
    BY <1>1
  <2>3. \A q \in Pushes : Replaces(queue', q)
    BY <1>1, <2>1
  <2> QED
    BY <1>1, <2>2, <2>3 DEF Durable, Replaces
<1> QED
  BY <1>2, <1>3, <1>4, Calm

LEMMA CrashDurable ==
    ASSUME DurInv, Crash
    PROVE  DurInv'
<1>1. UNCHANGED <<queue, dead, fate, hook>> /\ daemon'.pc = "idle" /\ retry'.pc = "idle"
  BY DEF Crash, files, Resting, Pending
<1> QED
  BY <1>1, DaemonIdleDurable DEF DaemonWrites, RetryWrites

\* The operator's request reads a file, no other process being between a read and a write.
LEMMA ReadForRetryDurable ==
    ASSUME ~Overlap, TypeInv, DurInv, RetryNow \/ ReadBackoff
    PROVE  DurInv'
<1>1. ~Rewriting /\ UNCHANGED <<queue, dead, fate, hook, daemon>>
  BY DEF RetryNow, ReadBackoff, MayTouch, Still, files
<1>2. OneWriter'
  BY <1>1 DEF Rewriting, OneWriter, HookWrites, DaemonWrites, RetryWrites
<1>3. HookCopy' /\ DaemonCopy' /\ Durable'
  BY <1>1 DEF DurInv, HookCopy, HookWrites, DaemonCopy, Replaces, Durable, Holds
<1>4. CASE RetryNow
  <2>1. retry'.pc \in {"reset", "requeue"} /\ retry'.file = dead
    BY <1>4 DEF RetryNow
  <2>2. RetryCopy'
    BY <1>1, <2>1 DEF RetryCopy, Holds
  <2> QED
    BY <1>2, <1>3, <2>2 DEF DurInv
<1>5. CASE ReadBackoff
  <2>1. CASE retry' = Pending
    BY <1>2, <1>3, <2>1 DEF DurInv, RetryCopy, Pending
  <2>2. CASE retry' = [pc |-> "rewrite", file |-> ResetTries(queue)]
    <3>1. queue \in Seq(Entries)
      BY DEF TypeInv, FilesType
    <3>2. \A q : Holds(ResetTries(queue), q) <=> Holds(queue, q)
      BY <3>1, ResetHolds
    <3>3. retry'.pc = "rewrite" /\ retry'.file = ResetTries(queue)
      BY <2>2
    <3>4. \A q \in Pushes : Holds(queue', q) <=> Holds(queue, q)
      BY <1>1
    <3>5. RetryCopy'
      BY <3>2, <3>3, <3>4 DEF RetryCopy, Within
    <3> QED
      BY <1>2, <1>3, <3>5 DEF DurInv
  <2> QED
    BY <1>5, <2>1, <2>2 DEF ReadBackoff
<1> QED
  BY <1>4, <1>5

LEMMA RequeueDurable ==
    ASSUME TypeInv, DurInv, Requeue
    PROVE  DurInv'
<1>1. /\ UNCHANGED <<dead, fate, hook, daemon>> /\ retry.pc = "requeue"
      /\ retry.file \in Seq(Entries) /\ retry.file # <<>> /\ queue \in Seq(Entries)
  BY DEF Requeue, Still, TypeInv, RetryType, FilesType
<1>2. (\A p \in Pushes : ~HookWrites(p)) /\ ~DaemonWrites
  BY <1>1 DEF DurInv, OneWriter, RetryWrites
<1>3. CASE UNCHANGED queue /\ retry' = [pc |-> "reset", file |-> <<>>]
  <2>1. Durable'
    BY <1>1, <1>3 DEF DurInv, Durable, Holds
  <2>2. ~Rewriting' /\ (daemon'.pc = "settle" => fate'[daemon'.rec.push] # "queued")
    BY <1>1, <1>2, <1>3 DEF Rewriting, HookWrites, DaemonWrites, DurInv, DaemonCopy
  <2> QED
    BY <2>1, <2>2, Calm
<1>4. CASE /\ queue' = Append(queue, [Head(retry.file) EXCEPT !.tries = 0])
           /\ retry' = [pc |-> IF Len(retry.file) = 1 THEN "empty" ELSE "requeue",
                        file |-> Tail(retry.file)]
  <2> DEFINE first == [Head(retry.file) EXCEPT !.tries = 0]
             rest == Tail(retry.file)
  <2>1. /\ Head(retry.file) \in Entries /\ rest \in Seq(Entries)
        /\ Len(retry.file) = 1 <=> rest = <<>>
        /\ \A q : Holds(retry.file, q) <=> Holds(rest, q) \/ q = Head(retry.file).push
    BY <1>1, HeadHolds
  <2>2. first \in Entries /\ first.push = Head(retry.file).push
    BY <2>1 DEF Entries
  <2>3. queue' = Append(queue, first) /\ retry'.file = rest
        /\ retry'.pc = IF Len(retry.file) = 1 THEN "empty" ELSE "requeue"
    BY <1>4
  <2> HIDE DEF first, rest
  <2>4. \A q : Holds(queue', q) <=> Holds(queue, q) \/ q = first.push
    BY <1>1, <2>2, <2>3, AppendHolds
  <2>5. \A q \in Pushes : Holds(dead', q) <=> Holds(dead, q)
    BY <1>1
  <2>6. \A q \in Pushes : Holds(dead', q) => Holds(queue', q) \/ Holds(retry'.file, q)
    BY <1>1, <2>1, <2>2, <2>3, <2>4, <2>5 DEF DurInv, RetryCopy
  <2>7. \A q : ~Holds(<<>>, q)
    BY DEF Holds
  <2>8. RetryCopy'
    BY <2>1, <2>3, <2>6, <2>7 DEF RetryCopy, Within
  <2>9. OneWriter' /\ HookCopy' /\ DaemonCopy'
    BY <1>1, <1>2 DEF OneWriter, HookCopy, HookWrites, DaemonWrites, DurInv, DaemonCopy
  <2>10. Durable'
    BY <1>1, <2>4, <2>5 DEF DurInv, Durable
  <2> QED
    BY <2>8, <2>9, <2>10 DEF DurInv
<1> QED
  BY <1>3, <1>4 DEF Requeue

LEMMA RetryEndsDurable ==
    ASSUME TypeInv, DurInv, EmptyDeadletter \/ ResetBackoff
    PROVE  DurInv'
<1>1. /\ UNCHANGED <<fate, hook, daemon>> /\ retry.pc \in {"empty", "rewrite"}
      /\ retry \in [pc : RetrySteps, file : Seq(Entries)]
  BY DEF EmptyDeadletter, ResetBackoff, Still, TypeInv, RetryType
<1>2. (\A p \in Pushes : ~HookWrites(p)) /\ ~DaemonWrites
  BY <1>1 DEF DurInv, OneWriter, RetryWrites
<1>3. retry'.pc \notin {"requeue", "empty", "rewrite"}
  BY <1>1 DEF EmptyDeadletter, ResetBackoff, Pending
<1>4. ~Rewriting' /\ (daemon'.pc = "settle" => fate'[daemon'.rec.push] # "queued")
  BY <1>1, <1>2, <1>3 DEF Rewriting, HookWrites, DaemonWrites, DurInv, DaemonCopy
<1>5. \A q \in Pushes : Holds(queue, q) \/ Holds(dead, q) => Holds(queue', q) \/ Holds(dead', q)
  <2>1. CASE EmptyDeadletter
    <3>1. Within(dead, queue) /\ queue' = queue
      BY <2>1 DEF EmptyDeadletter, DurInv, RetryCopy
    <3> QED
      BY <3>1 DEF Within
  <2>2. CASE ResetBackoff
    <3>1. Within(queue, retry.file) /\ dead' = dead /\ queue' \in {queue, retry.file}
      BY <2>2 DEF ResetBackoff, DurInv, RetryCopy
    <3> QED
      BY <3>1 DEF Within
  <2> QED
    BY <2>1, <2>2
<1>6. Durable'
  BY <1>1, <1>5 DEF DurInv, Durable
<1> QED
  BY <1>4, <1>6, Calm

LEMMA OthersDurable ==
    ASSUME DurInv, UNCHANGED <<queue, dead, fate, hook, daemon, retry>>
    PROVE  DurInv'
<1>1. OneWriter' /\ HookCopy'
  BY DEF DurInv, OneWriter, HookCopy, HookWrites, DaemonWrites, RetryWrites
<1>2. DaemonCopy' /\ RetryCopy' /\ Durable'
  BY DEF DurInv, DaemonCopy, RetryCopy, Durable, Replaces, Within, Holds
<1> QED
  BY <1>1, <1>2 DEF DurInv

LEMMA DurInvKept == ~Overlap /\ TypeInv /\ DurInv /\ [Next]_vars => DurInv'
<1> SUFFICES ASSUME ~Overlap, TypeInv, DurInv, [Next]_vars PROVE DurInv'
  OBVIOUS
<1>1. ASSUME NEW p \in Pushes, Verdict(p) \/ HookStep(p) \/ HookDies(p) PROVE DurInv'
  BY <1>1, HookStepsDurable, EnqueueDurable, ReadRejectsDurable, DropDurable DEF HookStep
<1>2. CASE DaemonStep
  BY <1>2, PassDurable, DeliverDurable, ReadSettledDurable, ReadFailedDurable, BuryDurable,
     RewriteDurable DEF DaemonStep
<1>3. CASE RetryNow \/ RetryStep
  BY <1>3, ReadForRetryDurable, RequeueDurable, RetryEndsDurable DEF RetryStep
<1>4. CASE UNCHANGED vars \/ ResetLoop \/ OpenPR \/ \E p \in Pushes : BackoffEnds(p)
  BY <1>4, OthersDurable DEF vars, ResetLoop, OpenPR, BackoffEnds, Still, files
<1> QED
  BY <1>1, <1>2, <1>3, <1>4, CrashDurable DEF Next

\* While no process touches the files between the two steps of another, a queued record is in
\* the queue or in the deadletter until it is delivered or made moot, whatever fails, whoever
\* dies and whenever the operator retries.
THEOREM DurableCorrect == ~Overlap /\ Spec => []Durable
<1>1. ASSUME ~Overlap PROVE Spec => []Durable
  <2>1. TypeInv /\ DurInv /\ [Next]_vars => DurInv'
    BY <1>1, DurInvKept
  <2>2. DurInv => Durable
    BY DEF DurInv
  <2> QED
    BY <2>1, <2>2, InitDurable, TypeInvCorrect, PTL DEF Spec
<1> QED
  BY <1>1
====
