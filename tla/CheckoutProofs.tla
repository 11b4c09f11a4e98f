--------------------------- MODULE CheckoutProofs ---------------------------
(***************************************************************************)
(* Proofs about the tool's files in one checkout, for any processes, names *)
(* and bounds: the ledger of findings (TaskLedger), the command log and    *)
(* its parts (AuditParts), and the project's own frames (FrameLife).       *)
(*                                                                         *)
(* As long as no two commands held copies of the ledger at once, the file  *)
(* says exactly what the history of the saved commands says (Mirrors); its *)
(* three properties are read off that.  A deferral in any copy, overlapped *)
(* or not, was given once (Given).                                         *)
(*                                                                         *)
(* The other two need what each process holds on to: a compactor a copy of *)
(* what its part says (AuditInv), a command the file it reads and writes   *)
(* of its frame, unless another took it (FrameInv).                        *)
(***************************************************************************)
EXTENDS TaskLedger, AuditParts, FrameLife, FiniteSetTheorems, SequenceTheorems,
        WellFoundedInduction, TLAPS

USE TaskLedgerAssumption

-----------------------------------------------------------------------------
(* Types.                                                                  *)

LEMMA FirstValues ==
    /\ 0 \in 0 .. MaxMoments /\ 1 \in 0 .. MaxMoments
    /\ Untracked \in Task /\ NoTasks \in [Findings -> Task]
    /\ NoLedger \in LedgerFiles /\ CutLedger \in LedgerFiles
    /\ NoLedger.tasks = NoTasks /\ CutLedger.tasks = NoTasks
    /\ NoCommand \in CommandStates /\ NoCommand.at = "idle"
<1>1. 0 \in 0 .. MaxMoments /\ 1 \in 0 .. MaxMoments
  BY DEF TaskLedgerAssumption
<1>2. Untracked \in Task
  BY <1>1 DEF Untracked, Task
<1>3. NoTasks \in [Findings -> Task]
  BY <1>2 DEF NoTasks
<1> QED BY <1>1, <1>2, <1>3 DEF NoLedger, CutLedger, LedgerFiles, NoCommand, CommandStates,
          Reconciling, Mutations

LEMMA SightedType ==
    ASSUME NEW t \in Task, NEW now \in 0 .. MaxMoments
    PROVE  Sighted(t, now) \in Task
<1>1. OpenTask(now) \in Task
  BY FirstValues DEF OpenTask, Task
<1>2. [t EXCEPT !.status = "open"] \in Task
  BY DEF Task
<1>3. [t EXCEPT !.status = "open", !.until = 0] \in Task
  BY FirstValues DEF Task
<1> QED BY <1>1, <1>2, <1>3 DEF Sighted

LEMMA MissedType == ASSUME NEW t \in Task PROVE Missed(t) \in Task
<1>1. [t EXCEPT !.status = "resolved", !.until = 0] \in Task
  BY FirstValues DEF Task
<1> QED BY <1>1 DEF Missed

LEMMA ReconcileType ==
    ASSUME NEW tasks \in [Findings -> Task], NEW found, NEW now \in 0 .. MaxMoments
    PROVE  Reconcile(tasks, found, now) \in [Findings -> Task]
BY SightedType, MissedType DEF Reconcile

LEMMA MutatedType ==
    ASSUME NEW op \in Mutations, NEW t \in Task, NEW until \in 0 .. MaxMoments
    PROVE  Mutated(op, t, until) \in Task
<1>1. CASE op = "defer"
  <2>1. [t EXCEPT !.status = "deferred", !.until = until] \in Task
    BY DEF Task
  <2> QED BY <1>1, <2>1 DEF Mutated
<1>2. CASE op = "undefer"
  <2>1. [t EXCEPT !.status = "open", !.until = 0] \in Task
    BY FirstValues DEF Task
  <2> QED BY <1>2, <2>1 DEF Mutated
<1>3. CASE op = "link"
  BY <1>3 DEF Mutated
<1> QED BY <1>1, <1>2, <1>3 DEF Mutations

LEMMA CommandUpdate ==
    ASSUME TaskLedgerTypeOK, NEW p \in Commands, NEW new \in CommandStates
    PROVE  [command EXCEPT ![p] = new] \in [Commands -> CommandStates]
BY DEF TaskLedgerTypeOK

LEMMA QuitType ==
    ASSUME TaskLedgerTypeOK, NEW p \in Commands
    PROVE  QuitCommand(p) \in CommandStates
<1>1. command[p].on \subseteq Findings
  BY DEF TaskLedgerTypeOK, CommandStates
<1>2. [NoCommand EXCEPT !.at = "verify", !.op = "fix", !.on = command[p].on] \in CommandStates
  BY <1>1, FirstValues DEF CommandStates, Reconciling, Mutations
<1> QED BY <1>2, FirstValues DEF QuitCommand

LEMMA StepType ==
    ASSUME TaskLedgerTypeOK, NEW p \in Commands, NEW new \in CommandStates, StepTo(p, new),
           moment' \in 0 .. MaxMoments, everDeferred' \in SUBSET Findings,
           overlapped' \in BOOLEAN
    PROVE  TaskLedgerTypeOK'
<1>1. command' \in [Commands -> CommandStates]
  BY CommandUpdate DEF StepTo
<1> QED BY <1>1 DEF StepTo, TaskLedgerTypeOK

LEMMA WrittenType ==
    ASSUME NEW old \in LedgerFiles, NEW tasks \in [Findings -> Task]
    PROVE  LedgerWritten(old, tasks) \subseteq LedgerFiles
BY FirstValues DEF LedgerWritten, LedgerOf, LedgerFiles

\* What the developer does, a pause, and the bounds of a slice.
LEMMA TypeAround ==
    ASSUME TaskLedgerTypeOK,
           \/ \E found \in SUBSET Findings : EditTree(found)
           \/ \E scope \in Scopes : Pause(scope)
           \/ \E scopes \in SUBSET Scopes : Resume(scopes)
           \/ SliceStart
           \/ SliceDone
    PROVE  TaskLedgerTypeOK'
<1>1. ASSUME NEW found \in SUBSET Findings, EditTree(found)
      PROVE  TaskLedgerTypeOK'
  BY <1>1 DEF EditTree, TaskLedgerTypeOK, TaskLedgerAssumption
<1>2. ASSUME NEW scope \in Scopes, Pause(scope)
      PROVE  TaskLedgerTypeOK'
  BY <1>2 DEF Pause, CommandRuns, TaskLedgerTypeOK, TaskLedgerAssumption
<1>3. ASSUME NEW scopes \in SUBSET Scopes, Resume(scopes)
      PROVE  TaskLedgerTypeOK'
  BY <1>3 DEF Resume, TaskLedgerTypeOK
<1>4. CASE SliceStart
  BY <1>4 DEF SliceStart, CommandRuns, ClockTicks, TaskLedgerTypeOK, TaskLedgerAssumption
<1>5. CASE SliceDone
  BY <1>5, FirstValues DEF SliceDone, TaskLedgerTypeOK
<1> QED BY <1>1, <1>2, <1>3, <1>4, <1>5

LEMMA TypeBegin ==
    ASSUME TaskLedgerTypeOK, NEW p \in Commands,
           NEW op \in Reconciling \cup Mutations \cup {"push"}, NEW at \in {"scan", "load", "agent"},
           NEW on \in SUBSET Findings, NEW until \in 0 .. MaxMoments,
           BeginCommand(p, op, at, on, until)
    PROVE  TaskLedgerTypeOK'
<1>1. [NoCommand EXCEPT !.at = at, !.op = op, !.on = on, !.until = until] \in CommandStates
  BY FirstValues DEF CommandStates
<1>2. command' \in [Commands -> CommandStates]
  BY <1>1, CommandUpdate DEF BeginCommand
<1> QED BY <1>2 DEF BeginCommand, CommandRuns, TaskLedgerTypeOK, TaskLedgerAssumption

\* A command starts.
Begins(p) ==
    \/ BeginCheck(p) \/ BeginPush(p)
    \/ \E f \in Findings : BeginFix(p, f)
    \/ \E f \in Findings, until \in DeferDates : BeginDefer(p, f, until)
    \/ \E op \in {"undefer", "link"}, f \in Findings : BeginOther(p, op, f)

LEMMA BeginsIs ==
    ASSUME NEW p \in Commands, Begins(p)
    PROVE  \E op \in Reconciling \cup Mutations \cup {"push"}, at \in {"scan", "load", "agent"},
              on \in SUBSET Findings, until \in 0 .. MaxMoments :
              BeginCommand(p, op, at, on, until)
<1>1. CASE BeginCheck(p) \/ BeginPush(p)
  BY <1>1, FirstValues DEF BeginCheck, BeginPush, Reconciling
<1>2. ASSUME NEW f \in Findings, BeginFix(p, f)
      PROVE  BeginCommand(p, "fix", "agent", {f}, 0)
  BY <1>2 DEF BeginFix
<1>3. ASSUME NEW f \in Findings, NEW until \in DeferDates, BeginDefer(p, f, until)
      PROVE  BeginCommand(p, "defer", "load", {f}, until) /\ until \in 0 .. MaxMoments
  BY <1>3 DEF BeginDefer, TaskLedgerAssumption
<1>4. ASSUME NEW op \in {"undefer", "link"}, NEW f \in Findings, BeginOther(p, op, f)
      PROVE  BeginCommand(p, op, "load", {f}, 0)
  BY <1>4 DEF BeginOther
<1> QED BY <1>1, <1>2, <1>3, <1>4, FirstValues DEF Begins, Reconciling, Mutations

\* The steps that write no file and leave the history alone.
LedgerMoves(p) == AgentEnds(p) \/ ScanTree(p) \/ ScanRefuses(p) \/ LoadFails(p) \/ GateReads(p)
            \/ Verify(p) \/ CommandEnds(p)

LEMMA TypeMoves == ASSUME TaskLedgerTypeOK, NEW p \in Commands, LedgerMoves(p) PROVE TaskLedgerTypeOK'
<1>1. command[p] \in CommandStates /\ tree \in SUBSET Findings
  BY DEF TaskLedgerTypeOK
<1>2. \A at \in {"scan", "verify"} : [command[p] EXCEPT !.at = at] \in CommandStates
  BY <1>1 DEF CommandStates
<1>3. \A at \in {"gate", "load"} : [command[p] EXCEPT !.at = at, !.found = tree] \in CommandStates
  BY <1>1 DEF CommandStates
<1>4. \A at \in {"passed", "blocked", "cleared", "firing"} :
         [NoCommand EXCEPT !.at = at] \in CommandStates
  BY FirstValues DEF CommandStates
<1>5. QuitCommand(p) \in CommandStates
  BY QuitType
<1>6. UNCHANGED <<moment, everDeferred, overlapped>>
  BY DEF LedgerMoves, AgentEnds, ScanTree, ScanRefuses, LoadFails, GateReads, Verify, CommandEnds
<1>7. \E new \in CommandStates : StepTo(p, new)
  <2>1. CASE AgentEnds(p)
    BY <1>2, <2>1 DEF AgentEnds
  <2>2. CASE ScanTree(p)
    BY <1>3, <2>2 DEF ScanTree
  <2>3. CASE ScanRefuses(p) \/ LoadFails(p)
    BY <1>4, <1>5, <2>3 DEF ScanRefuses, LoadFails
  <2>4. CASE GateReads(p)
    BY <1>4, <2>4 DEF GateReads
  <2>5. CASE Verify(p)
    BY <1>4, <2>5 DEF Verify
  <2>6. CASE CommandEnds(p)
    BY <2>6, FirstValues DEF CommandEnds
  <2> QED BY <2>1, <2>2, <2>3, <2>4, <2>5, <2>6 DEF LedgerMoves
<1> QED BY <1>6, <1>7, StepType DEF TaskLedgerTypeOK

LEMMA TypeLoadAndReconcile ==
    ASSUME TaskLedgerTypeOK, NEW p \in Commands, LoadAndReconcile(p)
    PROVE  TaskLedgerTypeOK'
<1>1. command[p] \in CommandStates /\ ledger.tasks \in [Findings -> Task]
  BY DEF TaskLedgerTypeOK, LedgerFiles
<1>2. moment' \in 0 .. MaxMoments
  BY DEF LoadAndReconcile, ClockTicks, TaskLedgerTypeOK, TaskLedgerAssumption
<1> DEFINE mine == Reconcile(ledger.tasks, command[p].found, moment')
<1>3. mine \in [Findings -> Task]
  BY <1>1, <1>2, ReconcileType
<1>4. [command[p] EXCEPT !.at = "save", !.when = moment', !.mine = mine] \in CommandStates
  BY <1>1, <1>2, <1>3 DEF CommandStates
<1>5. everDeferred' \in SUBSET Findings /\ overlapped' \in BOOLEAN
  BY DEF LoadAndReconcile, TaskLedgerTypeOK
<1> QED BY <1>2, <1>4, <1>5, StepType DEF LoadAndReconcile

\* What a mutation of one task makes of the ledger it loaded.
MutatedBy(e) == [f \in Findings |-> IF f \in e.on THEN Mutated(e.op, ledger.tasks[f], e.until)
                                    ELSE ledger.tasks[f]]

LEMMA TypeLoadAndMutate ==
    ASSUME TaskLedgerTypeOK, NEW p \in Commands, LoadAndMutate(p)
    PROVE  TaskLedgerTypeOK' /\ MutatedBy(command[p]) \in [Findings -> Task]
<1>1. command[p] \in CommandStates /\ ledger.tasks \in [Findings -> Task]
  BY DEF TaskLedgerTypeOK, LedgerFiles
<1>2. command[p].on \subseteq Findings /\ command[p].until \in 0 .. MaxMoments
  BY <1>1 DEF CommandStates
<1>3. MutatedBy(command[p]) \in [Findings -> Task]
  BY <1>1, <1>2, MutatedType DEF MutatedBy, LoadAndMutate
<1>4. [command[p] EXCEPT !.at = "save", !.mine = MutatedBy(command[p])] \in CommandStates
  BY <1>1, <1>3 DEF CommandStates
<1>5. QuitCommand(p) \in CommandStates
  BY QuitType
<1>6. everDeferred' \in SUBSET Findings /\ overlapped' \in BOOLEAN /\ moment' \in 0 .. MaxMoments
  BY <1>2 DEF LoadAndMutate, TaskLedgerTypeOK
<1>7. \E new \in CommandStates : StepTo(p, new)
  BY <1>4, <1>5 DEF LoadAndMutate, MutatedBy
<1> QED BY <1>3, <1>6, <1>7, StepType

\* The steps of a save.
Saves(p) == OpenLedgerTmp(p) \/ FillLedgerTmp(p) \/ SaveFails(p) \/ RenameLedgerTmp(p)
            \/ CommandDies(p)

LEMMA StandingType ==
    ASSUME TaskLedgerTypeOK, NEW e \in CommandStates
    PROVE  Standing(e) \subseteq Findings \X (0 .. MaxMoments)
BY DEF Standing, TaskLedgerTypeOK, CommandStates

LEMMA TypeRename ==
    ASSUME TaskLedgerTypeOK, NEW p \in Commands, RenameLedgerTmp(p)
    PROVE  TaskLedgerTypeOK'
<1>1. command[p] \in CommandStates /\ QuitCommand(p) \in CommandStates
  BY QuitType DEF TaskLedgerTypeOK
<1>2. CASE ledgerTmp.kind = "absent"
  <2>1. command' \in [Commands -> CommandStates]
    BY <1>1, <1>2, CommandUpdate DEF RenameLedgerTmp
  <2> QED BY <1>2, <2>1 DEF RenameLedgerTmp, TaskLedgerTypeOK
<1>3. CASE ledgerTmp.kind # "absent"
  <2>1. \A q \in Commands : [command[q] EXCEPT !.fd = FdFollows(@)] \in CommandStates
    BY DEF TaskLedgerTypeOK, CommandStates, FdFollows
  <2>2. command' \in [Commands -> CommandStates]
    BY <1>1, <1>3, <2>1 DEF RenameLedgerTmp
  <2>3. command[p].found \subseteq Findings /\ command[p].when \in 0 .. MaxMoments
    BY <1>1 DEF CommandStates
  <2>4. lastFound' \subseteq Findings /\ born' \in [Findings -> 0 .. MaxMoments]
    BY <1>3, <2>3 DEF RenameLedgerTmp, TaskLedgerTypeOK
  <2>5. waived' \subseteq Findings \X (0 .. MaxMoments)
    BY <1>1, <1>3, StandingType DEF RenameLedgerTmp
  <2>6. ledger' \in LedgerFiles /\ ledgerTmp' \in LedgerFiles
    BY <1>3, FirstValues DEF RenameLedgerTmp, TaskLedgerTypeOK
  <2> QED BY <1>3, <2>2, <2>4, <2>5, <2>6 DEF RenameLedgerTmp, TaskLedgerTypeOK
<1> QED BY <1>2, <1>3

LEMMA TypeSaves == ASSUME TaskLedgerTypeOK, NEW p \in Commands, Saves(p) PROVE TaskLedgerTypeOK'
<1>1. command[p] \in CommandStates
  BY DEF TaskLedgerTypeOK
<1>2. CASE OpenLedgerTmp(p)
  <2>1. [command[p] EXCEPT !.at = "fill", !.fd = "tmp"] \in CommandStates
    BY <1>1 DEF CommandStates
  <2>2. command' \in [Commands -> CommandStates]
    BY <1>2, <2>1, CommandUpdate DEF OpenLedgerTmp
  <2> QED BY <1>2, <2>2, FirstValues DEF OpenLedgerTmp, TaskLedgerTypeOK
<1>3. CASE FillLedgerTmp(p)
  <2>1. command[p].mine \in [Findings -> Task]
    BY <1>1 DEF CommandStates
  <2>2. ledger' \in LedgerFiles /\ ledgerTmp' \in LedgerFiles
    BY <1>3, <2>1, WrittenType DEF FillLedgerTmp, TaskLedgerTypeOK
  <2>3. [command[p] EXCEPT !.at = "rename", !.mine = NoTasks] \in CommandStates
    BY <1>1, FirstValues DEF CommandStates
  <2>4. command' \in [Commands -> CommandStates]
    BY <1>3, <2>3, CommandUpdate DEF FillLedgerTmp
  <2> QED BY <1>3, <2>2, <2>4 DEF FillLedgerTmp, TaskLedgerTypeOK
<1>4. CASE SaveFails(p)
  <2>1. command' \in [Commands -> CommandStates]
    BY <1>4, QuitType, CommandUpdate DEF SaveFails
  <2> QED BY <1>4, <2>1 DEF SaveFails, LedgerFault, TaskLedgerTypeOK, TaskLedgerAssumption
<1>5. CASE CommandDies(p)
  <2>1. command' \in [Commands -> CommandStates]
    BY <1>5, FirstValues, CommandUpdate DEF CommandDies
  <2> QED BY <1>5, <2>1 DEF CommandDies, LedgerFault, TaskLedgerTypeOK, TaskLedgerAssumption
<1> QED BY <1>2, <1>3, <1>4, <1>5, TypeRename DEF Saves

\* The steps of a behaviour, by what they touch.
LEMMA Steps ==
    ASSUME TaskLedgerNext
    PROVE  \/ \/ \E found \in SUBSET Findings : EditTree(found)
              \/ \E scope \in Scopes : Pause(scope)
              \/ \E scopes \in SUBSET Scopes : Resume(scopes)
              \/ SliceStart
              \/ SliceDone
           \/ \E p \in Commands :
                 Begins(p) \/ LedgerMoves(p) \/ LoadAndReconcile(p) \/ LoadAndMutate(p) \/ Saves(p)
BY DEF TaskLedgerNext, Begins, LedgerMoves, Saves

LEMMA TypeInit == ASSUME TaskLedgerInit PROVE TaskLedgerTypeOK
<1>1. \A f \in Findings : (IF f \in lastFound THEN OpenTask(1) ELSE Untracked) \in Task
  BY FirstValues DEF OpenTask, Task
<1>2. ledger \in LedgerFiles
  BY <1>1, FirstValues DEF TaskLedgerInit, LedgerOf, LedgerFiles
<1>3. command \in [Commands -> CommandStates] /\ born \in [Findings -> 0 .. MaxMoments]
  BY FirstValues DEF TaskLedgerInit
<1>4. moment \in 0 .. MaxMoments /\ slice \in 0 .. MaxMoments
  BY FirstValues DEF TaskLedgerInit
<1>5. /\ commands \in 0 .. MaxCommands /\ treeEdits \in 0 .. MaxTreeEdits
      /\ ledgerFaults \in 0 .. MaxLedgerFaults
  BY DEF TaskLedgerInit, TaskLedgerAssumption
<1>6. /\ {tree, lastFound, everDeferred} \subseteq SUBSET Findings
      /\ paused \subseteq Scopes /\ waived \subseteq Findings \X (0 .. MaxMoments)
      /\ overlapped \in BOOLEAN /\ ledgerTmp \in LedgerFiles
  BY FirstValues DEF TaskLedgerInit
<1> QED BY <1>2, <1>3, <1>4, <1>5, <1>6 DEF TaskLedgerTypeOK

LEMMA TypeStep ==
    ASSUME TaskLedgerTypeOK, [TaskLedgerNext]_ledgerVars
    PROVE  TaskLedgerTypeOK'
<1>1. CASE UNCHANGED ledgerVars
  BY <1>1 DEF ledgerVars, TaskLedgerTypeOK
<1>2. ASSUME NEW p \in Commands, Begins(p)
      PROVE  TaskLedgerTypeOK'
  BY <1>2, BeginsIs, TypeBegin
<1> QED BY <1>1, <1>2, Steps, TypeAround, TypeMoves, TypeLoadAndReconcile, TypeLoadAndMutate,
          TypeSaves

\* The ledger, the processes and the history keep their types, for any number of findings,
\* processes, commands, edits and faults.
THEOREM TaskLedgerTypeCorrect == TaskLedgerSpec => []TaskLedgerTypeOK
BY TypeInit, TypeStep, PTL DEF TaskLedgerSpec
-----------------------------------------------------------------------------
(* What the ledger says, and what the history says.                        *)

\* The tasks are what a check that found F, the deferrals W and the dates B amount to.
Mirrors(tasks, F, W, B) ==
    \A f \in Findings :
       /\ f \in F <=> tasks[f].status \in {"open", "deferred"}
       /\ \A u \in 0 .. MaxMoments :
             <<f, u>> \in W <=> tasks[f].status = "deferred" /\ tasks[f].until = u
       /\ B[f] = tasks[f].first
       /\ tasks[f].first = 0 <=> tasks[f].status = "none"

\* The history once command e is saved, beside Standing(e).
FoundBy(e) == IF e.op \in Reconciling THEN e.found ELSE lastFound
BornBy(e) == [f \in Findings |-> IF e.op \in Reconciling /\ f \in e.found /\ born[f] = 0
                                 THEN e.when ELSE born[f]]

\* What a command is about to install mirrors the history it is about to make.
Prepared(e) ==
    /\ e.at \in {"save", "fill"} => Mirrors(e.mine, FoundBy(e), Standing(e), BornBy(e))
    /\ e.at = "fill" => e.fd = "tmp" /\ ledgerTmp.kind # "whole"
    /\ e.at = "rename" => /\ ledgerTmp.kind # "absent"
                          /\ Mirrors(ledgerTmp.tasks, FoundBy(e), Standing(e), BornBy(e))

Deferred(tasks) == {f \in Findings : tasks[f].status = "deferred"}

\* Every deferral in a file or a copy was given at some time.
Given ==
    /\ Deferred(ledger.tasks) \subseteq everDeferred
    /\ Deferred(ledgerTmp.tasks) \subseteq everDeferred
    /\ \A p \in Commands : Deferred(command[p].mine) \subseteq everDeferred

Separate ==
    /\ Mirrors(ledger.tasks, lastFound, waived, born)
    /\ \A p, q \in Saving : p = q
    /\ \A p \in Commands : Prepared(command[p])

LedgerInv == TaskLedgerTypeOK /\ Given /\ (~overlapped => Separate)

LEMMA NoneDeferred == Deferred(NoTasks) = {}
BY DEF Deferred, NoTasks, Untracked

\* Reconciling keeps the dates of what stays, and nothing of what is missed.
LEMMA ReconcileMirrors ==
    ASSUME NEW tasks \in [Findings -> Task], NEW F, NEW W, NEW B, Mirrors(tasks, F, W, B),
           NEW found \in SUBSET Findings, NEW now \in 1 .. MaxMoments
    PROVE  Mirrors(Reconcile(tasks, found, now), found,
                   {w \in W : w[1] \in found /\ (w[2] = 0 \/ w[2] > now)},
                   [f \in Findings |-> IF f \in found /\ B[f] = 0 THEN now ELSE B[f]])
<1> DEFINE W2 == {w \in W : w[1] \in found /\ (w[2] = 0 \/ w[2] > now)}
           B2 == [f \in Findings |-> IF f \in found /\ B[f] = 0 THEN now ELSE B[f]]
           new == Reconcile(tasks, found, now)
<1>1. now \in Nat \ {0} /\ MaxMoments \in Nat
  BY DEF TaskLedgerAssumption
<1>2. SUFFICES ASSUME NEW f \in Findings
               PROVE  /\ f \in found <=> new[f].status \in {"open", "deferred"}
                      /\ \A u \in 0 .. MaxMoments :
                            <<f, u>> \in W2 <=> new[f].status = "deferred" /\ new[f].until = u
                      /\ B2[f] = new[f].first
                      /\ new[f].first = 0 <=> new[f].status = "none"
  BY DEF Mirrors
<1>3. /\ f \in F <=> tasks[f].status \in {"open", "deferred"}
      /\ \A u \in 0 .. MaxMoments :
            <<f, u>> \in W <=> tasks[f].status = "deferred" /\ tasks[f].until = u
      /\ B[f] = tasks[f].first
      /\ tasks[f].first = 0 <=> tasks[f].status = "none"
  BY DEF Mirrors
<1>4. \A u \in 0 .. MaxMoments :
         <<f, u>> \in W2 <=> <<f, u>> \in W /\ f \in found /\ (u = 0 \/ u > now)
  OBVIOUS
<1>5. /\ tasks[f].status \in {"none", "open", "deferred", "resolved"}
      /\ tasks[f].until \in 0 .. MaxMoments /\ tasks[f].first \in 0 .. MaxMoments
      /\ tasks[f] \in Task
  BY DEF Task
<1>6. CASE f \in found
  <2>1. new[f] = Sighted(tasks[f], now)
    BY <1>6 DEF Reconcile
  <2>2. CASE tasks[f].status = "none"
    <3>1. new[f] = OpenTask(now)
      BY <2>1, <2>2 DEF Sighted
    <3>2. new[f].status = "open" /\ new[f].first = now
      BY <3>1 DEF OpenTask
    <3> QED BY <1>1, <1>3, <1>4, <1>6, <2>2, <3>2
  <2>3. CASE tasks[f].status = "resolved"
    <3>1. new[f] = [tasks[f] EXCEPT !.status = "open"]
      BY <2>1, <2>3 DEF Sighted
    <3>2. new[f].status = "open" /\ new[f].first = tasks[f].first
      BY <1>5, <3>1 DEF Task
    <3> QED BY <1>1, <1>3, <1>4, <1>6, <2>3, <3>2
  <2>4. CASE tasks[f].status = "deferred" /\ tasks[f].until \in 1 .. now
    <3>1. new[f] = [tasks[f] EXCEPT !.status = "open", !.until = 0]
      BY <2>1, <2>4 DEF Sighted
    <3>2. new[f].status = "open" /\ new[f].first = tasks[f].first
      BY <1>5, <3>1 DEF Task
    <3> QED BY <1>1, <1>3, <1>4, <1>5, <1>6, <2>4, <3>2
  <2>5. CASE \/ tasks[f].status = "open"
             \/ tasks[f].status = "deferred" /\ tasks[f].until \notin 1 .. now
    <3>1. new[f] = tasks[f]
      BY <2>1, <2>5 DEF Sighted
    <3> QED BY <1>1, <1>3, <1>4, <1>5, <1>6, <2>5, <3>1
  <2> QED BY <1>5, <2>2, <2>3, <2>4, <2>5
<1>7. CASE f \notin found
  <2>1. new[f] = Missed(tasks[f])
    BY <1>7 DEF Reconcile
  <2>2. CASE tasks[f].status \in {"open", "deferred"}
    <3>1. new[f] = [tasks[f] EXCEPT !.status = "resolved", !.until = 0]
      BY <2>1, <2>2 DEF Missed
    <3>2. new[f].status = "resolved" /\ new[f].first = tasks[f].first
      BY <1>5, <3>1 DEF Task
    <3> QED BY <1>3, <1>4, <1>7, <2>2, <3>2
  <2>3. CASE tasks[f].status \notin {"open", "deferred"}
    <3>1. new[f] = tasks[f]
      BY <2>1, <2>3 DEF Missed
    <3> QED BY <1>3, <1>4, <1>7, <2>3, <3>1
  <2> QED BY <2>2, <2>3
<1> QED BY <1>6, <1>7

\* Deferring, ending a deferral and linking change no more than they say.
LEMMA MutateMirrors ==
    ASSUME LedgerInv, ~overlapped, NEW p \in Commands, command[p].op \in Mutations,
           \A f \in command[p].on : Applies(command[p].op, ledger.tasks[f])
    PROVE  Mirrors(MutatedBy(command[p]), lastFound, Standing(command[p]), born)
<1> DEFINE e == command[p]
           new == MutatedBy(e)
<1>1. SUFFICES ASSUME NEW f \in Findings
               PROVE  /\ f \in lastFound <=> new[f].status \in {"open", "deferred"}
                      /\ \A u \in 0 .. MaxMoments :
                            <<f, u>> \in Standing(e) <=>
                               new[f].status = "deferred" /\ new[f].until = u
                      /\ born[f] = new[f].first
                      /\ new[f].first = 0 <=> new[f].status = "none"
  BY DEF Mirrors
<1> DEFINE t == ledger.tasks[f]
<1>2. /\ f \in lastFound <=> t.status \in {"open", "deferred"}
      /\ \A u \in 0 .. MaxMoments :
            <<f, u>> \in waived <=> t.status = "deferred" /\ t.until = u
      /\ born[f] = t.first
      /\ t.first = 0 <=> t.status = "none"
  BY DEF LedgerInv, Separate, Mirrors
<1>3. t \in Task /\ e.until \in 0 .. MaxMoments /\ e.on \subseteq Findings
  BY DEF LedgerInv, TaskLedgerTypeOK, LedgerFiles, CommandStates
<1>4. CASE f \notin e.on
  <2>1. new[f] = t
    BY <1>4 DEF MutatedBy
  <2>2. \A u \in 0 .. MaxMoments : <<f, u>> \in Standing(e) <=> <<f, u>> \in waived
    BY <1>4 DEF Standing, Mutations, Reconciling
  <2> QED BY <1>2, <2>1, <2>2
<1>5. CASE f \in e.on /\ e.op = "defer"
  <2>1. new[f] = [t EXCEPT !.status = "deferred", !.until = e.until]
    BY <1>5 DEF MutatedBy, Mutated
  <2>2. new[f].status = "deferred" /\ new[f].until = e.until /\ new[f].first = t.first
    BY <1>3, <2>1 DEF Task
  <2>3. \A u \in 0 .. MaxMoments : <<f, u>> \in Standing(e) <=> u = e.until
    BY <1>3, <1>5 DEF Standing, Reconciling
  <2>4. t.status \in {"open", "deferred"}
    BY <1>5 DEF Applies
  <2> QED BY <1>2, <2>2, <2>3, <2>4
<1>6. CASE f \in e.on /\ e.op = "undefer"
  <2>1. new[f] = [t EXCEPT !.status = "open", !.until = 0]
    BY <1>6 DEF MutatedBy, Mutated
  <2>2. new[f].status = "open" /\ new[f].first = t.first
    BY <1>3, <2>1 DEF Task
  <2>3. \A u \in 0 .. MaxMoments : <<f, u>> \notin Standing(e)
    BY <1>6 DEF Standing, Reconciling
  <2>4. t.status = "deferred"
    BY <1>6 DEF Applies
  <2> QED BY <1>2, <2>2, <2>3, <2>4
<1>7. CASE f \in e.on /\ e.op = "link"
  <2>1. new[f] = t
    BY <1>7 DEF MutatedBy, Mutated
  <2>2. Standing(e) = waived
    BY <1>7 DEF Standing, Reconciling
  <2> QED BY <1>2, <2>1, <2>2
<1> QED BY <1>4, <1>5, <1>6, <1>7 DEF Mutations

-----------------------------------------------------------------------------
(* LedgerInv is inductive.                                                 *)

LEMMA LedgerInit == ASSUME TaskLedgerInit PROVE LedgerInv
<1>1. TaskLedgerTypeOK
  BY TypeInit
<1>2. \A f \in Findings : ledger.tasks[f] = IF f \in lastFound THEN OpenTask(1) ELSE Untracked
  <2>1. CASE lastFound = {}
    BY <2>1 DEF TaskLedgerInit, NoLedger, NoTasks
  <2>2. CASE lastFound # {}
    BY <2>2 DEF TaskLedgerInit, LedgerOf
  <2> QED BY <2>1, <2>2
<1>3. Mirrors(ledger.tasks, lastFound, waived, born)
  BY <1>2 DEF TaskLedgerInit, Mirrors, OpenTask, Untracked
<1>4. \A p \in Commands : command[p].at = "idle" /\ command[p].mine = NoTasks
  BY DEF TaskLedgerInit, NoCommand
<1>5. Separate
  BY <1>3, <1>4 DEF Separate, Saving, Prepared
<1>6. Deferred(ledger.tasks) = {} /\ Deferred(ledgerTmp.tasks) = {}
  BY <1>2, NoneDeferred, FirstValues DEF TaskLedgerInit, Deferred, OpenTask, Untracked
<1>7. Given
  BY <1>4, <1>6, NoneDeferred DEF Given
<1> QED BY <1>1, <1>5, <1>7 DEF LedgerInv

\* Nothing that a command holds, and nothing of the files, changes.
LEMMA Unmoved ==
    ASSUME LedgerInv, TaskLedgerTypeOK',
           UNCHANGED <<ledger, ledgerTmp, command, lastFound, born, waived, everDeferred,
                       overlapped>>
    PROVE  LedgerInv'
BY DEF LedgerInv, Given, Separate, Saving, Prepared, Mirrors, Deferred, FoundBy, BornBy, Standing

\* A command moves to a place where it holds no copy of the ledger to be saved.
LEMMA Quiet ==
    ASSUME LedgerInv, TaskLedgerTypeOK', NEW p \in Commands, NEW new,
           new.at \notin {"save", "fill", "rename"}, new.mine \in {command[p].mine, NoTasks},
           command' = [command EXCEPT ![p] = new],
           UNCHANGED <<ledger, ledgerTmp, lastFound, born, waived, everDeferred, overlapped>>
    PROVE  LedgerInv'
<1>1. \A q \in Commands : command'[q] = IF q = p THEN new ELSE command[q]
  BY DEF LedgerInv, TaskLedgerTypeOK
<1>2. Given'
  BY <1>1, NoneDeferred DEF LedgerInv, Given, Deferred
<1>3. ASSUME ~overlapped'
      PROVE  Separate'
  <2>1. Separate
    BY <1>3 DEF LedgerInv
  <2>2. Mirrors(ledger.tasks, lastFound, waived, born)'
    BY <2>1 DEF Separate, Mirrors
  <2>3. Saving' \subseteq Saving
    BY <1>1 DEF Saving
  <2>4. ASSUME NEW q \in Commands
        PROVE  Prepared(command[q])'
    <3>1. CASE q = p
      BY <1>1, <3>1 DEF Prepared
    <3>2. CASE q # p
      <4>1. Prepared(command[q]) /\ command'[q] = command[q]
        BY <1>1, <2>1, <3>2 DEF Separate
      <4> QED BY <4>1 DEF Prepared, Mirrors, FoundBy, BornBy, Standing
    <3> QED BY <3>1, <3>2
  <2> QED BY <2>1, <2>2, <2>3, <2>4 DEF Separate
<1> QED BY <1>2, <1>3 DEF LedgerInv

LEMMA QuitShape ==
    ASSUME NEW p \in Commands
    PROVE  QuitCommand(p).at \in {"idle", "verify"} /\ QuitCommand(p).mine = NoTasks
<1>1. /\ [NoCommand EXCEPT !.at = "verify", !.op = "fix", !.on = command[p].on].at = "verify"
      /\ [NoCommand EXCEPT !.at = "verify", !.op = "fix", !.on = command[p].on].mine = NoTasks
  BY DEF NoCommand
<1> QED BY <1>1 DEF QuitCommand, NoCommand

LEMMA InvBegins ==
    ASSUME LedgerInv, TaskLedgerTypeOK', NEW p \in Commands, Begins(p)
    PROVE  LedgerInv'
<1>1. PICK op \in Reconciling \cup Mutations \cup {"push"}, at \in {"scan", "load", "agent"},
           on \in SUBSET Findings, until \in 0 .. MaxMoments : BeginCommand(p, op, at, on, until)
  BY BeginsIs
<1> DEFINE new == [NoCommand EXCEPT !.at = at, !.op = op, !.on = on, !.until = until]
<1>2. new.at = at /\ new.mine = NoTasks
  BY DEF NoCommand
<1>3. command' = [command EXCEPT ![p] = new]
  BY <1>1 DEF BeginCommand
<1>4. UNCHANGED <<ledger, ledgerTmp, lastFound, born, waived, everDeferred, overlapped>>
  BY <1>1 DEF BeginCommand
<1> HIDE DEF new
<1> QED BY <1>2, <1>3, <1>4, Quiet

LEMMA InvMoves ==
    ASSUME LedgerInv, TaskLedgerTypeOK', NEW p \in Commands, LedgerMoves(p)
    PROVE  LedgerInv'
<1>1. command[p] \in CommandStates
  BY DEF LedgerInv, TaskLedgerTypeOK
<1>2. \A at \in {"scan", "verify"} : /\ [command[p] EXCEPT !.at = at].at = at
                                     /\ [command[p] EXCEPT !.at = at].mine = command[p].mine
  BY <1>1 DEF CommandStates
<1>3. \A at \in {"gate", "load"} :
         /\ [command[p] EXCEPT !.at = at, !.found = tree].at = at
         /\ [command[p] EXCEPT !.at = at, !.found = tree].mine = command[p].mine
  BY <1>1 DEF CommandStates
<1>4. \A at \in {"passed", "blocked", "cleared", "firing"} :
         [NoCommand EXCEPT !.at = at].at = at /\ [NoCommand EXCEPT !.at = at].mine = NoTasks
  BY DEF NoCommand
<1>5. QuitCommand(p).at \in {"idle", "verify"} /\ QuitCommand(p).mine = NoTasks
  BY QuitShape
<1>6. NoCommand.at = "idle" /\ NoCommand.mine = NoTasks
  BY DEF NoCommand
<1>7. \E new : /\ StepTo(p, new) /\ new.at \notin {"save", "fill", "rename"}
               /\ new.mine \in {command[p].mine, NoTasks}
  <2>1. CASE AgentEnds(p)
    BY <1>2, <2>1 DEF AgentEnds
  <2>2. CASE ScanTree(p)
    BY <1>3, <2>2 DEF ScanTree
  <2>3. CASE ScanRefuses(p) \/ LoadFails(p)
    BY <1>4, <1>5, <2>3 DEF ScanRefuses, LoadFails
  <2>4. CASE GateReads(p)
    BY <1>4, <2>4 DEF GateReads
  <2>5. CASE Verify(p)
    BY <1>4, <2>5 DEF Verify
  <2>6. CASE CommandEnds(p)
    BY <1>6, <2>6 DEF CommandEnds
  <2> QED BY <2>1, <2>2, <2>3, <2>4, <2>5, <2>6 DEF LedgerMoves
<1>8. UNCHANGED <<everDeferred, overlapped>>
  BY DEF LedgerMoves, AgentEnds, ScanTree, ScanRefuses, LoadFails, GateReads, Verify, CommandEnds
<1> QED BY <1>7, <1>8, Quiet DEF StepTo

\* A command takes its copy of the ledger.
LEMMA LedgerLoads ==
    ASSUME LedgerInv, TaskLedgerTypeOK', NEW p \in Commands, NEW new,
           new.at = "save", StepTo(p, new), everDeferred \subseteq everDeferred',
           Deferred(new.mine) \subseteq everDeferred',
           overlapped' = (overlapped \/ Saving # {}),
           ~overlapped => Mirrors(new.mine, FoundBy(new), Standing(new), BornBy(new))
    PROVE  LedgerInv'
<1>1. \A q \in Commands : command'[q] = IF q = p THEN new ELSE command[q]
  BY DEF LedgerInv, TaskLedgerTypeOK, StepTo
<1>2. UNCHANGED <<ledger, ledgerTmp, lastFound, born, waived>>
  BY DEF StepTo
<1>3. Given'
  BY <1>1, <1>2 DEF LedgerInv, Given, Deferred
<1>4. ASSUME ~overlapped'
      PROVE  Separate'
  <2>1. Separate /\ Saving = {} /\ ~overlapped
    BY <1>4 DEF LedgerInv
  <2>2. Mirrors(ledger.tasks, lastFound, waived, born)'
    BY <1>2, <2>1 DEF Separate, Mirrors
  <2>3. Saving' \subseteq {p}
    BY <1>1, <2>1 DEF Saving
  <2>4. ASSUME NEW q \in Commands
        PROVE  Prepared(command[q])'
    <3>1. CASE q = p
      <4>1. command'[q] = new
        BY <1>1, <3>1
      <4> QED BY <1>2, <2>1, <4>1 DEF Prepared, Mirrors, FoundBy, BornBy, Standing
    <3>2. CASE q # p
      <4>1. command'[q] = command[q] /\ q \notin Saving
        BY <1>1, <2>1, <3>2
      <4> QED BY <4>1 DEF Prepared, Saving
    <3> QED BY <3>1, <3>2
  <2> QED BY <2>2, <2>3, <2>4 DEF Separate
<1> QED BY <1>3, <1>4 DEF LedgerInv

LEMMA StandingReconciled ==
    ASSUME NEW e, e.op \in Reconciling
    PROVE  Standing(e) = {w \in waived : w[1] \in e.found /\ (w[2] = 0 \/ w[2] > e.when)}
BY DEF Standing, Reconciling

LEMMA InvLoadAndReconcile ==
    ASSUME LedgerInv, TaskLedgerTypeOK', NEW p \in Commands, LoadAndReconcile(p)
    PROVE  LedgerInv'
<1> DEFINE e == command[p]
           mine == Reconcile(ledger.tasks, e.found, moment')
           new == [e EXCEPT !.at = "save", !.when = moment', !.mine = mine]
<1>1. e \in CommandStates /\ ledger.tasks \in [Findings -> Task] /\ e.found \in SUBSET Findings
  BY DEF LedgerInv, TaskLedgerTypeOK, LedgerFiles, CommandStates
<1>2. moment' \in 1 .. MaxMoments
  BY DEF LoadAndReconcile, ClockTicks, LedgerInv, TaskLedgerTypeOK, TaskLedgerAssumption
<1>3. /\ new.at = "save" /\ new.mine = mine /\ new.op = e.op /\ new.found = e.found
      /\ new.when = moment'
  BY <1>1 DEF CommandStates
<1>4. StepTo(p, new) /\ e.op \in Reconciling
  BY DEF LoadAndReconcile
<1>5. everDeferred' = everDeferred /\ overlapped' = (overlapped \/ Saving # {})
  BY DEF LoadAndReconcile
<1>6. Deferred(mine) \subseteq Deferred(ledger.tasks)
  BY <1>1 DEF Deferred, Reconcile, Sighted, Missed, OpenTask, Task
<1>7. Deferred(new.mine) \subseteq everDeferred
  BY <1>3, <1>6 DEF LedgerInv, Given
<1>8. ASSUME ~overlapped
      PROVE  Mirrors(new.mine, FoundBy(new), Standing(new), BornBy(new))
  <2>1. Mirrors(ledger.tasks, lastFound, waived, born)
    BY <1>8 DEF LedgerInv, Separate
  <2>2. Mirrors(mine, e.found,
                {w \in waived : w[1] \in e.found /\ (w[2] = 0 \/ w[2] > moment')},
                [f \in Findings |-> IF f \in e.found /\ born[f] = 0 THEN moment' ELSE born[f]])
    BY <1>1, <1>2, <2>1, ReconcileMirrors
  <2>3. Standing(new) = {w \in waived : w[1] \in e.found /\ (w[2] = 0 \/ w[2] > moment')}
    <3> HIDE DEF new
    <3> QED BY <1>3, <1>4, StandingReconciled
  <2>4. /\ FoundBy(new) = e.found
        /\ BornBy(new) = [f \in Findings |-> IF f \in e.found /\ born[f] = 0 THEN moment'
                                             ELSE born[f]]
    BY <1>3, <1>4 DEF FoundBy, BornBy
  <2> QED BY <1>3, <2>2, <2>3, <2>4
<1> HIDE DEF new
<1> QED BY <1>3, <1>4, <1>5, <1>7, <1>8, LedgerLoads

LEMMA InvLoadAndMutate ==
    ASSUME LedgerInv, TaskLedgerTypeOK', NEW p \in Commands, LoadAndMutate(p)
    PROVE  LedgerInv'
<1> DEFINE e == command[p]
           new == [e EXCEPT !.at = "save", !.mine = MutatedBy(e)]
           refused == \E f \in e.on : ~Applies(e.op, ledger.tasks[f])
<1>1. e \in CommandStates /\ ledger.tasks \in [Findings -> Task] /\ e.op \in Mutations
  BY DEF LedgerInv, TaskLedgerTypeOK, LedgerFiles, LoadAndMutate
<1>2. CASE refused
  <2>1. StepTo(p, QuitCommand(p)) /\ UNCHANGED <<everDeferred, overlapped>>
    BY <1>2 DEF LoadAndMutate
  <2> QED BY <2>1, QuitShape, Quiet DEF StepTo
<1>3. CASE ~refused
  <2>1. StepTo(p, new)
    BY <1>3 DEF LoadAndMutate, MutatedBy
  <2>2. /\ everDeferred' = IF e.op = "defer" THEN everDeferred \cup e.on ELSE everDeferred
        /\ overlapped' = (overlapped \/ Saving # {})
    BY <1>3 DEF LoadAndMutate
  <2>3. /\ new.at = "save" /\ new.mine = MutatedBy(e) /\ new.op = e.op /\ new.on = e.on
        /\ new.until = e.until
    BY <1>1 DEF CommandStates
  <2>4. Deferred(MutatedBy(e)) \subseteq everDeferred'
    <3>1. SUFFICES ASSUME NEW f \in Findings, MutatedBy(e)[f].status = "deferred"
                   PROVE  f \in everDeferred'
      BY DEF Deferred
    <3>2. ledger.tasks[f] \in Task /\ Deferred(ledger.tasks) \subseteq everDeferred
      BY <1>1 DEF LedgerInv, Given
    <3>3. CASE f \notin e.on
      BY <2>2, <3>1, <3>2, <3>3 DEF MutatedBy, Deferred
    <3>4. CASE f \in e.on /\ e.op = "defer"
      BY <2>2, <3>4
    <3>5. CASE f \in e.on /\ e.op = "undefer"
      <4>1. MutatedBy(e)[f] = [ledger.tasks[f] EXCEPT !.status = "open", !.until = 0]
        BY <3>5 DEF MutatedBy, Mutated
      <4> QED BY <3>1, <3>2, <4>1 DEF Task
    <3>6. CASE f \in e.on /\ e.op = "link"
      BY <2>2, <3>1, <3>2, <3>6 DEF MutatedBy, Mutated, Deferred
    <3> QED BY <1>1, <3>3, <3>4, <3>5, <3>6 DEF Mutations
  <2>5. ASSUME ~overlapped
        PROVE  Mirrors(new.mine, FoundBy(new), Standing(new), BornBy(new))
    <3>1. Mirrors(MutatedBy(e), lastFound, Standing(e), born)
      BY <1>1, <1>3, <2>5, MutateMirrors
    <3>2. Standing(new) = Standing(e)
      BY <1>1, <2>3 DEF Standing, Mutations, Reconciling
    <3>3. FoundBy(new) = lastFound /\ \A f \in Findings : BornBy(new)[f] = born[f]
      BY <1>1, <2>3 DEF FoundBy, BornBy, Mutations, Reconciling
    <3> QED BY <2>3, <3>1, <3>2, <3>3 DEF Mirrors
  <2> HIDE DEF new
  <2> QED BY <2>1, <2>2, <2>3, <2>4, <2>5, LedgerLoads
<1> QED BY <1>2, <1>3

LEMMA InvOpen ==
    ASSUME LedgerInv, TaskLedgerTypeOK', NEW p \in Commands, OpenLedgerTmp(p)
    PROVE  LedgerInv'
<1> DEFINE new == [command[p] EXCEPT !.at = "fill", !.fd = "tmp"]
<1>1. command[p] \in CommandStates
  BY DEF LedgerInv, TaskLedgerTypeOK
<1>2. /\ new.at = "fill" /\ new.fd = "tmp"
      /\ \A field \in {"op", "on", "until", "found", "when", "mine"} :
            new[field] = command[p][field]
  BY <1>1 DEF CommandStates
<1>3. \A q \in Commands : command'[q] = IF q = p THEN new ELSE command[q]
  BY DEF LedgerInv, TaskLedgerTypeOK, OpenLedgerTmp
<1>4. command[p].at = "save" /\ ledgerTmp' = CutLedger
      /\ UNCHANGED <<ledger, lastFound, born, waived, everDeferred, overlapped>>
  BY DEF OpenLedgerTmp
<1> HIDE DEF new
<1>5. Given'
  BY <1>2, <1>3, <1>4, NoneDeferred, FirstValues DEF LedgerInv, Given, Deferred
<1>6. ASSUME ~overlapped'
      PROVE  Separate'
  <2>1. Separate
    BY <1>4, <1>6 DEF LedgerInv
  <2>2. Mirrors(ledger.tasks, lastFound, waived, born)'
    BY <1>4, <2>1 DEF Separate, Mirrors
  <2>3. p \in Saving /\ Saving' \subseteq Saving
    BY <1>2, <1>3, <1>4 DEF Saving
  <2>4. ASSUME NEW q \in Commands
        PROVE  Prepared(command[q])'
    <3>1. CASE q = p
      <4>1. Mirrors(command[p].mine, FoundBy(command[p]), Standing(command[p]), BornBy(command[p]))
        BY <1>4, <2>1 DEF Separate, Prepared
      <4>2. FoundBy(new) = FoundBy(command[p]) /\ Standing(new) = Standing(command[p])
            /\ BornBy(new) = BornBy(command[p])
        BY <1>2 DEF FoundBy, Standing, BornBy
      <4>3. Mirrors(new.mine, FoundBy(new), Standing(new), BornBy(new))
        BY <1>2, <4>1, <4>2
      <4> QED BY <1>2, <1>3, <1>4, <3>1, <4>3
              DEF Prepared, Mirrors, FoundBy, BornBy, Standing, CutLedger
    <3>2. CASE q # p
      <4>1. command'[q] = command[q] /\ q \notin Saving
        BY <1>3, <2>1, <2>3, <3>2 DEF Separate
      <4> QED BY <4>1 DEF Prepared, Saving
    <3> QED BY <3>1, <3>2
  <2> QED BY <2>1, <2>2, <2>3, <2>4 DEF Separate
<1> QED BY <1>5, <1>6 DEF LedgerInv

LEMMA InvFill ==
    ASSUME LedgerInv, TaskLedgerTypeOK', NEW p \in Commands, FillLedgerTmp(p)
    PROVE  LedgerInv'
<1> DEFINE e == command[p]
           new == [e EXCEPT !.at = "rename", !.mine = NoTasks]
<1>1. e \in CommandStates
  BY DEF LedgerInv, TaskLedgerTypeOK
<1>2. /\ new.at = "rename" /\ new.mine = NoTasks
      /\ \A field \in {"op", "on", "until", "found", "when"} : new[field] = e[field]
  BY <1>1 DEF CommandStates
<1>3. \A q \in Commands : command'[q] = IF q = p THEN new ELSE command[q]
  BY DEF LedgerInv, TaskLedgerTypeOK, FillLedgerTmp
<1>4. /\ e.at = "fill" /\ UNCHANGED <<lastFound, born, waived, everDeferred, overlapped>>
      /\ IF e.fd = "tmp" THEN ledgerTmp' \in LedgerWritten(ledgerTmp, e.mine)
         ELSE ledgerTmp' = ledgerTmp
      /\ IF e.fd = "live" THEN ledger' \in LedgerWritten(ledger, e.mine) ELSE ledger' = ledger
  BY DEF FillLedgerTmp
<1> HIDE DEF new
<1>5. Given'
  <2>1. \A file : \A new2 \in LedgerWritten(file, e.mine) :
           Deferred(new2.tasks) \subseteq everDeferred
    BY NoneDeferred, FirstValues DEF LedgerWritten, LedgerOf, LedgerInv, Given
  <2>2. /\ Deferred(ledger'.tasks) \subseteq everDeferred
        /\ Deferred(ledgerTmp'.tasks) \subseteq everDeferred
    BY <1>4, <2>1 DEF LedgerInv, Given
  <2>3. \A q \in Commands : Deferred(command'[q].mine) \subseteq everDeferred
    BY <1>2, <1>3, NoneDeferred DEF LedgerInv, Given
  <2> QED BY <1>4, <2>2, <2>3 DEF Given, Deferred
<1>6. ASSUME ~overlapped'
      PROVE  Separate'
  <2>1. Separate
    BY <1>4, <1>6 DEF LedgerInv
  <2>2. /\ Mirrors(e.mine, FoundBy(e), Standing(e), BornBy(e))
        /\ e.fd = "tmp" /\ ledgerTmp.kind # "whole"
    BY <1>4, <2>1 DEF Separate, Prepared
  <2>3. ledger' = ledger /\ ledgerTmp' = LedgerOf(e.mine)
    BY <1>4, <2>2 DEF LedgerWritten
  <2>4. ledgerTmp'.kind = "whole" /\ ledgerTmp'.tasks = e.mine
    BY <2>3 DEF LedgerOf
  <2>5. Mirrors(ledger.tasks, lastFound, waived, born)'
    BY <1>4, <2>1, <2>3 DEF Separate, Mirrors
  <2>6. p \in Saving /\ Saving' \subseteq Saving
    BY <1>2, <1>3, <1>4 DEF Saving
  <2>7. ASSUME NEW q \in Commands
        PROVE  Prepared(command[q])'
    <3>1. CASE q = p
      <4>1. FoundBy(new) = FoundBy(e) /\ Standing(new) = Standing(e) /\ BornBy(new) = BornBy(e)
        BY <1>2 DEF FoundBy, Standing, BornBy
      <4>2. Mirrors(ledgerTmp'.tasks, FoundBy(new), Standing(new), BornBy(new))
        BY <2>2, <2>4, <4>1
      <4> QED BY <1>2, <1>3, <1>4, <2>4, <3>1, <4>2
              DEF Prepared, Mirrors, FoundBy, BornBy, Standing
    <3>2. CASE q # p
      <4>1. command'[q] = command[q] /\ q \notin Saving
        BY <1>3, <2>1, <2>6, <3>2 DEF Separate
      <4> QED BY <4>1 DEF Prepared, Saving
    <3> QED BY <3>1, <3>2
  <2> QED BY <2>1, <2>5, <2>6, <2>7 DEF Separate
<1> QED BY <1>5, <1>6 DEF LedgerInv

LEMMA InvRename ==
    ASSUME LedgerInv, TaskLedgerTypeOK', NEW p \in Commands, RenameLedgerTmp(p)
    PROVE  LedgerInv'
<1> DEFINE e == command[p]
<1>1. CASE ledgerTmp.kind = "absent"
  <2>1. /\ command' = [command EXCEPT ![p] = QuitCommand(p)]
        /\ UNCHANGED <<ledger, ledgerTmp, lastFound, born, waived, everDeferred, overlapped>>
    BY <1>1 DEF RenameLedgerTmp
  <2> QED BY <2>1, QuitShape, Quiet
<1>2. CASE ledgerTmp.kind # "absent"
  <2>1. /\ ledger' = ledgerTmp /\ ledgerTmp' = NoLedger /\ waived' = Standing(e)
        /\ command' = [q \in Commands |-> IF q = p THEN QuitCommand(p)
                                          ELSE [command[q] EXCEPT !.fd = FdFollows(@)]]
        /\ lastFound' = FoundBy(e) /\ born' = BornBy(e)
        /\ e.at = "rename" /\ UNCHANGED <<everDeferred, overlapped>>
    BY <1>2 DEF RenameLedgerTmp, FoundBy, BornBy
  <2>2. ASSUME NEW q \in Commands, q # p
        PROVE  command'[q].at = command[q].at /\ command'[q].mine = command[q].mine
    <3>1. command[q] \in CommandStates
      BY DEF LedgerInv, TaskLedgerTypeOK
    <3>2. command'[q] = [command[q] EXCEPT !.fd = FdFollows(@)]
      BY <2>1, <2>2
    <3> QED BY <3>1, <3>2 DEF CommandStates
  <2>3. command'[p].at \in {"idle", "verify"} /\ command'[p].mine = NoTasks
    BY <2>1, QuitShape
  <2>4. Given'
    BY <2>1, <2>2, <2>3, NoneDeferred, FirstValues DEF LedgerInv, Given, Deferred
  <2>5. ASSUME ~overlapped'
        PROVE  Separate'
    <3>1. Separate
      BY <2>1, <2>5 DEF LedgerInv
    <3>2. Mirrors(ledgerTmp.tasks, FoundBy(e), Standing(e), BornBy(e))
      BY <2>1, <3>1 DEF Separate, Prepared
    <3>3. Mirrors(ledger.tasks, lastFound, waived, born)'
      <4> DEFINE F == FoundBy(e)  W == Standing(e)  B == BornBy(e)
      <4>1. ledger' = ledgerTmp /\ lastFound' = F /\ waived' = W /\ born' = B
        BY <2>1
      <4>2. Mirrors(ledgerTmp.tasks, F, W, B)
        BY <3>2
      <4> HIDE DEF F, W, B
      <4> QED BY <4>1, <4>2 DEF Mirrors
    <3>4. p \in Saving /\ Saving' \subseteq Saving \ {p}
      BY <2>1, <2>2, <2>3 DEF Saving
    <3>5. Saving' = {}
      BY <3>1, <3>4 DEF Separate
    <3>6. \A q \in Commands : Prepared(command[q])'
      BY <3>5 DEF Prepared, Saving
    <3> QED BY <3>3, <3>5, <3>6 DEF Separate
  <2> QED BY <2>4, <2>5 DEF LedgerInv
<1> QED BY <1>1, <1>2

LEMMA InvSaves ==
    ASSUME LedgerInv, TaskLedgerTypeOK', NEW p \in Commands, Saves(p)
    PROVE  LedgerInv'
<1>1. CASE SaveFails(p)
  <2>1. /\ command' = [command EXCEPT ![p] = QuitCommand(p)]
        /\ UNCHANGED <<ledger, ledgerTmp, lastFound, born, waived, everDeferred, overlapped>>
    BY <1>1 DEF SaveFails
  <2> QED BY <2>1, QuitShape, Quiet
<1>2. CASE CommandDies(p)
  <2>1. /\ command' = [command EXCEPT ![p] = NoCommand]
        /\ UNCHANGED <<ledger, ledgerTmp, lastFound, born, waived, everDeferred, overlapped>>
    BY <1>2 DEF CommandDies
  <2>2. NoCommand.at = "idle" /\ NoCommand.mine = NoTasks
    BY DEF NoCommand
  <2> QED BY <2>1, <2>2, Quiet
<1> QED BY <1>1, <1>2, InvOpen, InvFill, InvRename DEF Saves

LEMMA LedgerStep ==
    ASSUME LedgerInv, [TaskLedgerNext]_ledgerVars
    PROVE  LedgerInv'
<1>1. TaskLedgerTypeOK'
  BY TypeStep DEF LedgerInv
<1>2. CASE UNCHANGED ledgerVars
  BY <1>1, <1>2, Unmoved DEF ledgerVars
<1>3. CASE \/ \E found \in SUBSET Findings : EditTree(found)
           \/ \E scope \in Scopes : Pause(scope)
           \/ \E scopes \in SUBSET Scopes : Resume(scopes)
           \/ SliceStart
           \/ SliceDone
  <2>1. UNCHANGED <<ledger, ledgerTmp, command, lastFound, born, waived, everDeferred, overlapped>>
    BY <1>3 DEF EditTree, Pause, Resume, SliceStart, SliceDone
  <2> QED BY <1>1, <2>1, Unmoved
<1> QED BY <1>1, <1>2, <1>3, Steps, InvBegins, InvMoves, InvLoadAndReconcile, InvLoadAndMutate,
          InvSaves

LEMMA LedgerCorrect == TaskLedgerSpec => []LedgerInv
BY LedgerInit, LedgerStep, PTL DEF TaskLedgerSpec

-----------------------------------------------------------------------------
(* The properties.                                                         *)

\* A command's step leaves the other commands where they are.
LEMMA OthersStayPut ==
    ASSUME TaskLedgerTypeOK, NEW q \in Commands,
           Begins(q) \/ LedgerMoves(q) \/ LoadAndReconcile(q) \/ LoadAndMutate(q) \/ Saves(q),
           NEW p \in Commands, p # q
    PROVE  command'[p].at = command[p].at
<1>1. CASE \E new : command' = [command EXCEPT ![q] = new]
  BY <1>1 DEF TaskLedgerTypeOK
<1>2. CASE RenameLedgerTmp(q)
  <2>1. command'[p] = command[p] \/ command'[p] = [command[p] EXCEPT !.fd = FdFollows(@)]
    BY <1>2 DEF RenameLedgerTmp, TaskLedgerTypeOK
  <2>2. command[p] \in CommandStates
    BY DEF TaskLedgerTypeOK
  <2> QED BY <2>1, <2>2 DEF CommandStates
<1>3. CASE Begins(q)
  BY <1>1, <1>3, BeginsIs DEF BeginCommand
<1>4. CASE LedgerMoves(q)
  BY <1>1, <1>4 DEF LedgerMoves, AgentEnds, ScanTree, ScanRefuses, LoadFails, GateReads, Verify,
          CommandEnds, StepTo
<1>5. CASE LoadAndReconcile(q) \/ LoadAndMutate(q)
  BY <1>1, <1>5 DEF LoadAndReconcile, LoadAndMutate, StepTo
<1>6. CASE OpenLedgerTmp(q) \/ FillLedgerTmp(q) \/ SaveFails(q) \/ CommandDies(q)
  BY <1>1, <1>6 DEF OpenLedgerTmp, FillLedgerTmp, SaveFails, CommandDies
<1> QED BY <1>2, <1>3, <1>4, <1>5, <1>6 DEF Saves

\* Only the gate's own read lets a push through, only the verification clears.
LEMMA OwnStep ==
    ASSUME TaskLedgerTypeOK, TaskLedgerNext, NEW p \in Commands,
           command[p].at \in {"gate", "verify"}, command'[p].at \in {"passed", "cleared"}
    PROVE  GateReads(p) \/ Verify(p)
<1>1. CASE \/ \E found \in SUBSET Findings : EditTree(found)
           \/ \E scope \in Scopes : Pause(scope)
           \/ \E scopes \in SUBSET Scopes : Resume(scopes)
           \/ SliceStart
           \/ SliceDone
  <2>1. command' = command
    BY <1>1 DEF EditTree, Pause, Resume, SliceStart, SliceDone
  <2> QED BY <2>1
<1>2. ASSUME NEW q \in Commands,
             Begins(q) \/ LedgerMoves(q) \/ LoadAndReconcile(q) \/ LoadAndMutate(q) \/ Saves(q)
      PROVE  GateReads(p) \/ Verify(p)
  <2>1. q = p
    BY <1>2, OthersStayPut
  <2>2. ~Begins(p)
    BY BeginsIs DEF BeginCommand
  <2>3. ~LoadAndReconcile(p) /\ ~LoadAndMutate(p)
    BY DEF LoadAndReconcile, LoadAndMutate
  <2>4. ~OpenLedgerTmp(p) /\ ~FillLedgerTmp(p) /\ ~SaveFails(p) /\ ~RenameLedgerTmp(p)
    BY DEF OpenLedgerTmp, FillLedgerTmp, SaveFails, RenameLedgerTmp
  <2>5. ~CommandDies(p)
    <3>1. command' = [command EXCEPT ![p] = NoCommand] => command'[p].at = "idle"
      BY DEF TaskLedgerTypeOK, NoCommand
    <3> QED BY <3>1 DEF CommandDies
  <2>6. ~AgentEnds(p) /\ ~ScanTree(p) /\ ~ScanRefuses(p) /\ ~LoadFails(p) /\ ~CommandEnds(p)
    BY DEF AgentEnds, ScanTree, ScanRefuses, LoadFails, CommandEnds
  <2> QED BY <1>2, <2>1, <2>2, <2>3, <2>4, <2>5, <2>6 DEF LedgerMoves, Saves
<1> QED BY <1>1, <1>2, Steps

LEMMA OwnResult ==
    ASSUME TaskLedgerTypeOK, TaskLedgerNext, NEW p \in Commands
    PROVE  /\ command[p].at = "gate" /\ command'[p].at = "passed" =>
                 Blocking(command[p].found) = {}
           /\ command[p].at = "verify" /\ command'[p].at = "cleared" =>
                 \A f \in command[p].on : Cleared(f)
<1>1. \A at : [NoCommand EXCEPT !.at = at].at = at
  BY DEF NoCommand
<1>2. ASSUME command[p].at = "gate", command'[p].at = "passed"
      PROVE  Blocking(command[p].found) = {}
  <2>1. GateReads(p)
    BY <1>2, OwnStep DEF Verify
  <2>2. command'[p] = [NoCommand EXCEPT
                          !.at = IF Blocking(command[p].found) = {} THEN "passed" ELSE "blocked"]
    BY <2>1 DEF GateReads, StepTo, TaskLedgerTypeOK
  <2> QED BY <1>1, <1>2, <2>2
<1>3. ASSUME command[p].at = "verify", command'[p].at = "cleared"
      PROVE  \A f \in command[p].on : Cleared(f)
  <2>1. Verify(p)
    BY <1>3, OwnStep DEF GateReads
  <2>2. command'[p] = [NoCommand EXCEPT
                          !.at = IF \A f \in command[p].on : Cleared(f) THEN "cleared"
                                 ELSE "firing"]
    BY <2>1 DEF Verify, StepTo, TaskLedgerTypeOK
  <2> QED BY <1>1, <1>3, <2>2
<1> QED BY <1>2, <1>3

\* A push that the gate lets through carries a BLOCK finding only on a deferral that stands,
\* or, once commands overlapped, on one that was given.
THEOREM PushConsentedCorrect == TaskLedgerSpec => PushConsented
<1>1. ASSUME LedgerInv, [TaskLedgerNext]_ledgerVars, NEW p \in Commands,
             command[p].at = "gate", command'[p].at = "passed",
             NEW f \in command[p].found \cap Grave
      PROVE  IF overlapped THEN f \in everDeferred ELSE \E w \in waived : w[1] = f
  <2>1. command' # command
    BY <1>1
  <2>2. Blocking(command[p].found) = {}
    BY <1>1, <2>1, OwnResult DEF ledgerVars, LedgerInv
  <2>3. f \in Findings /\ ledger.tasks[f].status = "deferred"
    BY <1>1, <2>2 DEF Blocking, KnownTasks, TaskLedgerAssumption
  <2>4. CASE overlapped
    BY <1>1, <2>3, <2>4 DEF LedgerInv, Given, Deferred
  <2>5. CASE ~overlapped
    <3>1. ledger.tasks[f].until \in 0 .. MaxMoments
      BY <1>1, <2>3 DEF LedgerInv, TaskLedgerTypeOK, LedgerFiles, Task
    <3>2. <<f, ledger.tasks[f].until>> \in waived
      BY <1>1, <2>3, <2>5, <3>1 DEF LedgerInv, Separate, Mirrors
    <3> QED BY <2>5, <3>2
  <2> QED BY <2>4, <2>5
<1>2. LedgerInv /\ [TaskLedgerNext]_ledgerVars =>
         [\A p \in Commands :
            command[p].at = "gate" /\ command'[p].at = "passed" =>
               \A f \in command[p].found \cap Grave :
                  IF overlapped THEN f \in everDeferred ELSE \E w \in waived : w[1] = f]_ledgerVars
  BY <1>1
<1> QED BY <1>2, LedgerCorrect, PTL DEF TaskLedgerSpec, PushConsented

\* `nimblegate fix` clears only what the last recorded check did not find, unless commands
\* overlapped.
THEOREM FixVerifiedCorrect == TaskLedgerSpec => FixVerified
<1>1. ASSUME LedgerInv, [TaskLedgerNext]_ledgerVars, NEW p \in Commands,
             command[p].at = "verify", command'[p].at = "cleared", ~overlapped,
             NEW f \in command[p].on
      PROVE  f \notin lastFound
  <2>1. command' # command
    BY <1>1
  <2>2. Cleared(f)
    BY <1>1, <2>1, OwnResult DEF ledgerVars, LedgerInv
  <2>3. f \in Findings
    BY <1>1 DEF LedgerInv, TaskLedgerTypeOK, CommandStates
  <2> QED BY <1>1, <2>2, <2>3 DEF LedgerInv, Separate, Mirrors, Cleared, KnownTasks
<1>2. LedgerInv /\ [TaskLedgerNext]_ledgerVars =>
         [\A p \in Commands :
            command[p].at = "verify" /\ command'[p].at = "cleared" =>
               overlapped \/ command[p].on \cap lastFound = {}]_ledgerVars
  BY <1>1
<1> QED BY <1>2, LedgerCorrect, PTL DEF TaskLedgerSpec, FixVerified

\* `slice done` names what the slice introduced, and nothing else, unless commands overlapped.
THEOREM SliceBlamesCorrect == TaskLedgerSpec => []SliceBlames
<1>1. ASSUME LedgerInv, slice # 0, ~overlapped
      PROVE  Introduced = {f \in lastFound \cap Grave :
                              born[f] >= slice /\ \A w \in waived : w[1] # f}
  <2>1. Mirrors(ledger.tasks, lastFound, waived, born)
    BY <1>1 DEF LedgerInv, Separate
  <2>2. lastFound \subseteq Findings /\ waived \subseteq Findings \X (0 .. MaxMoments)
        /\ ledger.tasks \in [Findings -> Task] /\ Grave \subseteq Findings
    BY <1>1 DEF LedgerInv, TaskLedgerTypeOK, LedgerFiles, TaskLedgerAssumption
  <2>3. ASSUME NEW f \in Findings
        PROVE  (\A w \in waived : w[1] # f) <=> ledger.tasks[f].status # "deferred"
    <3>1. \A u \in 0 .. MaxMoments :
             <<f, u>> \in waived <=> ledger.tasks[f].status = "deferred" /\ ledger.tasks[f].until = u
      BY <2>1 DEF Mirrors
    <3>2. ledger.tasks[f].until \in 0 .. MaxMoments
      BY <2>2 DEF Task
    <3>3. \A w \in waived : w = <<w[1], w[2]>> /\ w[2] \in 0 .. MaxMoments
      BY <2>2
    <3> QED BY <3>1, <3>2, <3>3
  <2>4. ASSUME NEW f \in Findings
        PROVE  f \in lastFound /\ ledger.tasks[f].status # "deferred"
                  <=> ledger.tasks[f].status = "open"
    BY <2>1 DEF Mirrors
  <2>5. \A f \in Findings : born[f] = ledger.tasks[f].first
    BY <2>1 DEF Mirrors
  <2> QED BY <2>2, <2>3, <2>4, <2>5 DEF Introduced, KnownTasks
<1>2. LedgerInv => SliceBlames
  BY <1>1 DEF SliceBlames
<1> QED BY <1>2, LedgerCorrect, PTL

HIDE TaskLedgerAssumption

-----------------------------------------------------------------------------
(* AuditParts.                                                             *)

USE AuditPartsAssumption DEF AuditPartsAssumption

-----------------------------------------------------------------------------
(* AuditParts: rotation, and what is found in the logs.                    *)

PartFiles == [there : BOOLEAN, fresh : BOOLEAN, torn : BOOLEAN, lines : SUBSET Nat]
LogFiles == [batches : Seq(SUBSET (Invocations \X Nat)), torn : BOOLEAN]
AuditFiles == Invocations \X Slots
LogSets == [Slots -> LogFiles]
LineSets == SUBSET Nat

\* The files of one invocation hold no entry twice, and those that are missing nothing.
NoOverlap(fs) == \A i, j \in Slots : i # j => fs[i].lines \cap fs[j].lines = {}
EmptyIfMissing(fs) == \A i \in Slots : fs[i].there \/ fs[i] = NoPart

HasLine(fs, n) == \E i \in Slots : n \in fs[i].lines

\* An entry is in the logs, and in one place of them.
HasAt(logs, i, k, p, n) == k \in DOMAIN logs[i].batches /\ <<p, n>> \in logs[i].batches[k]
Logged(logs, p, n) == \E i \in Slots : \E k : HasAt(logs, i, k, p, n)
OnePlace(logs, p, n) ==
    \A i, j \in Slots : \A k, l :
        HasAt(logs, i, k, p, n) /\ HasAt(logs, j, l, p, n) => i = j /\ k = l

LEMMA SlotsAre ==
    /\ 0 \in Slots /\ MaxFiles \in Slots /\ MaxFiles \in Nat
    /\ Slots \subseteq Nat
    /\ \A i \in Slots : i # 0 => i - 1 \in Slots
    /\ \A i \in Slots : i # MaxFiles => i + 1 \in Slots
BY DEF Slots

LEMMA EmptyFiles ==
    /\ NoPart \in PartFiles /\ NewPart \in PartFiles /\ NoLog \in LogFiles
    /\ NoPart.lines = {} /\ NewPart.lines = {} /\ NoPart.there = FALSE /\ NewPart.there = TRUE
    /\ NoLog.batches = <<>>
<1>1. <<>> \in Seq(SUBSET (Invocations \X Nat))
  OBVIOUS
<1> QED BY <1>1 DEF NoPart, NewPart, NoLog, PartFiles, LogFiles

\* A rotation keeps what the files hold, but for the last file.
LEMMA PartsShift ==
    ASSUME NEW fs \in [Slots -> PartFiles], NEW k \in Nat, NEW empty \in {NoPart, NewPart},
           NoOverlap(fs), EmptyIfMissing(fs)
    PROVE  LET gs == Shifted(fs, k, empty)
           IN /\ gs \in [Slots -> PartFiles] /\ NoOverlap(gs) /\ EmptyIfMissing(gs)
              /\ \A n : HasLine(gs, n) => HasLine(fs, n)
              /\ \A n : HasLine(fs, n) => HasLine(gs, n) \/ (k <= MaxFiles /\ n \in fs[MaxFiles].lines)
<1> DEFINE gs == Shifted(fs, k, empty)
<1>1. \A i \in Slots : gs[i] = IF i < k THEN fs[i] ELSE IF i = k THEN empty ELSE fs[i - 1]
  BY DEF Shifted
<1>2. empty \in PartFiles /\ empty.lines = {} /\ (empty.there \/ empty = NoPart)
  BY EmptyFiles
<1>3. DOMAIN gs = Slots /\ gs = [i \in Slots |-> gs[i]]
  BY DEF Shifted
<1> HIDE DEF gs
<1>4. ASSUME NEW i \in Slots PROVE gs[i] \in PartFiles /\ (gs[i].there \/ gs[i] = NoPart)
  BY <1>1, <1>2, SlotsAre DEF EmptyIfMissing
<1>5. gs \in [Slots -> PartFiles] /\ EmptyIfMissing(gs)
  BY <1>3, <1>4 DEF EmptyIfMissing
<1>6. NoOverlap(gs)
  <2> SUFFICES ASSUME NEW i \in Slots, NEW j \in Slots, i < j, NEW n \in gs[i].lines, n \in gs[j].lines
               PROVE  FALSE
    BY SlotsAre DEF NoOverlap
  <2>1. i # k /\ j # k
    BY <1>1, <1>2
  <2>2. PICK a \in Slots : n \in fs[a].lines /\ ((a = i /\ i < k) \/ (a = i - 1 /\ i > k))
    BY <1>1, <2>1, SlotsAre
  <2>3. PICK b \in Slots : n \in fs[b].lines /\ ((b = j /\ j < k) \/ (b = j - 1 /\ j > k))
    BY <1>1, <2>1, SlotsAre
  <2>4. a # b
    BY <2>2, <2>3, SlotsAre
  <2> QED BY <2>2, <2>3, <2>4 DEF NoOverlap
<1>7. ASSUME NEW n, HasLine(gs, n) PROVE HasLine(fs, n)
  BY <1>1, <1>2, <1>7, SlotsAre DEF HasLine
<1>8. ASSUME NEW n, HasLine(fs, n) PROVE HasLine(gs, n) \/ (k <= MaxFiles /\ n \in fs[MaxFiles].lines)
  <2>1. PICK i \in Slots : n \in fs[i].lines
    BY <1>8 DEF HasLine
  <2>2. CASE i < k
    BY <1>1, <2>1, <2>2 DEF HasLine
  <2>3. CASE ~(i < k) /\ i # MaxFiles
    <3>1. i + 1 \in Slots /\ ~(i + 1 < k) /\ i + 1 # k /\ (i + 1) - 1 = i
      BY <2>3, SlotsAre
    <3> QED BY <1>1, <2>1, <3>1 DEF HasLine
  <2>4. CASE ~(i < k) /\ i = MaxFiles
    BY <2>1, <2>4, SlotsAre
  <2> QED BY <2>2, <2>3, <2>4
<1> QED BY <1>5, <1>6, <1>7, <1>8 DEF gs

LEMMA LogsShift ==
    ASSUME NEW logs \in [Slots -> LogFiles], NEW k \in Nat
    PROVE  LET gs == Shifted(logs, k, NoLog)
           IN /\ gs \in [Slots -> LogFiles]
              /\ \A p, n : Logged(gs, p, n) => Logged(logs, p, n)
              /\ \A p, n : Logged(logs, p, n)
                    => Logged(gs, p, n) \/ (k <= MaxFiles /\ <<p, n>> \in EntriesOf(logs[MaxFiles]))
              /\ \A p, n : OnePlace(logs, p, n) => OnePlace(gs, p, n)
<1> DEFINE gs == Shifted(logs, k, NoLog)
<1>1. \A i \in Slots : gs[i] = IF i < k THEN logs[i] ELSE IF i = k THEN NoLog ELSE logs[i - 1]
  BY DEF Shifted
<1>2. NoLog \in LogFiles /\ DOMAIN NoLog.batches = {}
  BY EmptyFiles
<1>3. DOMAIN gs = Slots /\ gs = [i \in Slots |-> gs[i]]
  BY DEF Shifted
<1> HIDE DEF gs
<1>4. \A i \in Slots : gs[i] \in LogFiles
  BY <1>1, <1>2, SlotsAre
<1>5. gs \in [Slots -> LogFiles]
  BY <1>3, <1>4
\* Where an entry of the new files was.
<1>6. ASSUME NEW i \in Slots, NEW l, NEW p, NEW n, HasAt(gs, i, l, p, n)
      PROVE  \E a \in Slots : HasAt(logs, a, l, p, n) /\ ((a = i /\ i < k) \/ (a = i - 1 /\ i > k))
  <2>1. i # k
    BY <1>1, <1>2, <1>6 DEF HasAt
  <2>2. CASE i < k
    BY <1>1, <1>6, <2>2 DEF HasAt
  <2>3. CASE i > k
    <3>1. gs[i] = logs[i - 1] /\ i - 1 \in Slots
      BY <1>1, <2>3, SlotsAre
    <3> QED BY <1>6, <2>3, <3>1 DEF HasAt
  <2> QED BY <2>1, <2>2, <2>3, SlotsAre
<1>7. ASSUME NEW p, NEW n, Logged(gs, p, n) PROVE Logged(logs, p, n)
  BY <1>6, <1>7 DEF Logged
<1>8. ASSUME NEW p, NEW n, Logged(logs, p, n)
      PROVE  Logged(gs, p, n) \/ (k <= MaxFiles /\ <<p, n>> \in EntriesOf(logs[MaxFiles]))
  <2>1. PICK i \in Slots : \E l : HasAt(logs, i, l, p, n)
    BY <1>8 DEF Logged
  <2>2. PICK l : HasAt(logs, i, l, p, n)
    BY <2>1
  <2>3. CASE i < k
    BY <1>1, <2>2, <2>3 DEF Logged, HasAt
  <2>4. CASE ~(i < k) /\ i # MaxFiles
    <3>1. i + 1 \in Slots /\ ~(i + 1 < k) /\ i + 1 # k /\ (i + 1) - 1 = i
      BY <2>4, SlotsAre
    <3>2. gs[i + 1] = logs[i]
      BY <1>1, <3>1
    <3> QED BY <2>2, <3>1, <3>2 DEF Logged, HasAt
  <2>5. CASE ~(i < k) /\ i = MaxFiles
    BY <2>2, <2>5, SlotsAre DEF EntriesOf, HasAt
  <2> QED BY <2>3, <2>4, <2>5
<1>9. ASSUME NEW p, NEW n, OnePlace(logs, p, n) PROVE OnePlace(gs, p, n)
  <2> SUFFICES ASSUME NEW i \in Slots, NEW j \in Slots, NEW x, NEW y,
                      HasAt(gs, i, x, p, n), HasAt(gs, j, y, p, n)
               PROVE  i = j /\ x = y
    BY DEF OnePlace
  <2>1. PICK a \in Slots : HasAt(logs, a, x, p, n) /\ ((a = i /\ i < k) \/ (a = i - 1 /\ i > k))
    BY <1>6
  <2>2. PICK b \in Slots : HasAt(logs, b, y, p, n) /\ ((b = j /\ j < k) \/ (b = j - 1 /\ j > k))
    BY <1>6
  <2>3. a = b /\ x = y
    BY <1>9, <2>1, <2>2 DEF OnePlace
  <2>4. i \in Nat /\ j \in Nat /\ a \in Nat /\ b \in Nat
    BY SlotsAre
  <2> QED BY <2>1, <2>2, <2>3, <2>4
<1> QED BY <1>5, <1>7, <1>8, <1>9 DEF gs

LEMMA ReadableIn == ASSUME NEW half, NEW S PROVE Readable(half, S) \subseteq S
BY DEF Readable

LogPlus(logs, q, S, half) == [logs EXCEPT ![0] = LogWith(@, q, S, half)]

\* What a write adds to audit.log.
LEMMA LogGrows ==
    ASSUME NEW logs \in LogSets, NEW q \in Invocations, NEW S \in LineSets,
           NEW half \in BOOLEAN, NEW gs, gs = LogPlus(logs, q, S, half)
    PROVE  /\ gs \in LogSets
           /\ \A p, n : Logged(logs, p, n) => Logged(gs, p, n)
           /\ \A p, n : Logged(gs, p, n) => Logged(logs, p, n) \/ (p = q /\ n \in S)
           /\ \A n \in Readable(logs[0].torn, S) : Logged(gs, q, n)
           /\ \A p, n : OnePlace(logs, p, n) /\ (p = q /\ n \in S => ~Logged(logs, p, n))
                 => OnePlace(gs, p, n)
<1> DEFINE R == Readable(logs[0].torn, S)
           b == logs[0].batches
           new == {q} \X R
<1> USE DEF LogSets, LineSets
<1>1. R \subseteq S
  BY ReadableIn
<1>2. CASE S = {} /\ ~half
  <2>1. gs = logs
    BY <1>2, SlotsAre DEF LogWith, LogPlus
  <2> QED BY <1>1, <1>2, <2>1
<1>3. CASE ~(S = {} /\ ~half)
  <2>1. b \in Seq(SUBSET (Invocations \X Nat)) /\ Len(b) \in Nat /\ DOMAIN b = 1 .. Len(b)
    BY SlotsAre DEF LogFiles
  <2>2. new \in SUBSET (Invocations \X Nat)
    BY <1>1
  <2>3. gs[0] = [batches |-> Append(b, new), torn |-> half]
        /\ \A i \in Slots : i # 0 => gs[i] = logs[i]
    BY <1>3, SlotsAre DEF LogWith, LogPlus
  <2>4. /\ Append(b, new) \in Seq(SUBSET (Invocations \X Nat))
        /\ DOMAIN Append(b, new) = 1 .. Len(b) + 1
        /\ \A k \in 1 .. Len(b) : Append(b, new)[k] = b[k]
        /\ Append(b, new)[Len(b) + 1] = new
    <3> DEFINE T == SUBSET (Invocations \X Nat)
    <3> HIDE DEF T, b, new
    <3>1. b \in Seq(T) /\ new \in T
      BY <2>1, <2>2 DEF T
    <3>2. Append(b, new) \in Seq(T) /\ DOMAIN Append(b, new) = 1 .. Len(b) + 1
          /\ (\A k \in 1 .. Len(b) : Append(b, new)[k] = b[k]) /\ Append(b, new)[Len(b) + 1] = new
      BY <3>1
    <3> QED BY <3>2 DEF T
  <2> DEFINE w == Append(b, new)
             e == [batches |-> w, torn |-> half]
  <2>5. w \in Seq(SUBSET (Invocations \X Nat)) /\ gs[0] = e
    BY <2>3, <2>4
  <2> HIDE DEF w
  <2>15. e \in LogFiles /\ e.batches = w
    BY <2>5 DEF LogFiles
  <2> HIDE DEF e
  <2>6. gs \in [Slots -> LogFiles] /\ gs[0].batches = w
    BY <2>5, <2>15, SlotsAre, e \in LogFiles DEF LogPlus
  <2>7. /\ \A k : k \in DOMAIN w <=> k \in DOMAIN b \/ k = Len(b) + 1
        /\ \A k \in DOMAIN b : w[k] = b[k] /\ k # Len(b) + 1
        /\ w[Len(b) + 1] = new
    BY <2>1, <2>4 DEF w
  <2> DEFINE N == Len(b) + 1
  <2> HIDE DEF N, b, new, R
  <2>8. ASSUME NEW i \in Slots, NEW k, NEW p, NEW n
        PROVE  HasAt(gs, i, k, p, n)
                  <=> HasAt(logs, i, k, p, n) \/ (i = 0 /\ k = N /\ <<p, n>> \in new)
    <3>1. CASE i = 0
      <4>1. HasAt(gs, i, k, p, n) <=> k \in DOMAIN w /\ <<p, n>> \in w[k]
        BY <2>6, <3>1 DEF HasAt
      <4>2. HasAt(logs, i, k, p, n) <=> k \in DOMAIN b /\ <<p, n>> \in b[k]
        BY <3>1 DEF HasAt, b
      <4> QED BY <2>7, <3>1, <4>1, <4>2 DEF N
    <3>2. CASE i # 0
      BY <2>3, <3>2 DEF HasAt
    <3> QED BY <3>1, <3>2
  <2>10. \A p, n : <<p, n>> \in new <=> p = q /\ n \in R
    BY DEF new
  <2>16. R \subseteq S
    BY <1>1
  <2>11. \A p, n : Logged(logs, p, n) => Logged(gs, p, n)
    BY <2>8 DEF Logged
  <2>12. \A p, n : Logged(gs, p, n) => Logged(logs, p, n) \/ (p = q /\ n \in S)
    <3> SUFFICES ASSUME NEW p, NEW n, Logged(gs, p, n), ~(p = q /\ n \in S) PROVE Logged(logs, p, n)
      OBVIOUS
    <3>1. PICK i \in Slots : \E k : HasAt(gs, i, k, p, n)
      BY DEF Logged
    <3>2. PICK k : HasAt(gs, i, k, p, n)
      BY <3>1
    <3>3. <<p, n>> \notin new
      BY <2>10, <2>16
    <3> QED BY <2>8, <3>2, <3>3 DEF Logged
  <2>13. \A n \in R : Logged(gs, q, n)
    BY <2>8, <2>10, SlotsAre DEF Logged
  <2>14. ASSUME NEW p, NEW n, OnePlace(logs, p, n), p = q /\ n \in S => ~Logged(logs, p, n)
         PROVE  OnePlace(gs, p, n)
    <3> SUFFICES ASSUME NEW i \in Slots, NEW j \in Slots, NEW x, NEW y,
                        HasAt(gs, i, x, p, n), HasAt(gs, j, y, p, n)
                 PROVE  i = j /\ x = y
      BY DEF OnePlace
    <3>1. CASE <<p, n>> \in new
      <4>1. ~Logged(logs, p, n)
        <5>1. p = q /\ n \in S
          BY <2>10, <2>16, <3>1
        <5> QED BY <2>14, <5>1
      <4>2. ~HasAt(logs, i, x, p, n) /\ ~HasAt(logs, j, y, p, n)
        BY <4>1 DEF Logged
      <4>3. HasAt(logs, i, x, p, n) \/ (i = 0 /\ x = N /\ <<p, n>> \in new)
        BY <2>8
      <4>4. HasAt(logs, j, y, p, n) \/ (j = 0 /\ y = N /\ <<p, n>> \in new)
        BY <2>8
      <4> QED BY <4>2, <4>3, <4>4
    <3>2. CASE <<p, n>> \notin new
      <4>1. HasAt(logs, i, x, p, n) /\ HasAt(logs, j, y, p, n)
        BY <2>8, <3>2
      <4> QED BY <2>14, <4>1 DEF OnePlace
    <3> QED BY <3>1, <3>2
  <2> QED BY <2>6, <2>11, <2>12, <2>13, <2>14 DEF R
<1> QED BY <1>2, <1>3

-----------------------------------------------------------------------------
(* AuditParts: the invariant.                                              *)

CompactorStages == {"idle", "read", "append", "remove"}
CompactorStates == [at : CompactorStages, list : SUBSET AuditFiles, file : AuditFiles \cup {<<>>},
                    inHand : PartFiles]
WriterStates == [up : BOOLEAN, linked : BOOLEAN, size : Nat]

\* What c read is still in its hands.
Holding(c) == compactor[c].at \in {"append", "remove"}
HeldLines(c) == compactor[c].inHand.lines
HeldOf(c) == compactor[c].file[1]

AuditShape ==
    /\ part \in [Invocations -> [Slots -> PartFiles]]
    /\ writer \in [Invocations -> WriterStates]
    /\ written \in [Invocations -> Nat]
    /\ auditLog \in [Slots -> LogFiles]
    /\ compactor \in [Compactors -> CompactorStates]
    /\ \A c \in Compactors : Holding(c) => compactor[c].file \in AuditFiles
    /\ outlived \subseteq Invocations /\ cut \subseteq Invocations
    /\ discarded \subseteq Invocations \X Nat
    /\ auditCount \in 0 .. MaxCompactions /\ auditFaults \in 0 .. MaxAuditFaults

Bounded == \A p \in Invocations : written[p] <= MaxEntries[p] /\ writer[p].size <= written[p]

\* The lock: one compaction at a time, also after one died.
OneCompaction ==
    /\ locked \in BOOLEAN
    /\ \A c \in Compactors : compactor[c].at # "idle" => locked
    /\ \A c, d \in Compactors : compactor[c].at # "idle" /\ compactor[d].at # "idle" => c = d

\* No file of an invocation has what another has, and none what was not written.
FilesSound ==
    \A p \in Invocations :
        /\ NoOverlap(part[p]) /\ EmptyIfMissing(part[p])
        /\ \A n : HasLine(part[p], n) => n \in 1 .. written[p]

LogWritten ==
    \A p, n : Logged(auditLog, p, n) \/ <<p, n>> \in discarded
                 => p \in Invocations /\ n \in 1 .. written[p]

\* What a compactor holds is still in the file, unless its writer overtook it; what it is
\* about to remove was appended.
FaithfulCopy ==
    \A c \in Compactors : Holding(c) =>
        /\ HeldOf(c) \notin outlived => HeldLines(c) = part[HeldOf(c)][compactor[c].file[2]].lines
        /\ HeldLines(c) \subseteq 1 .. written[HeldOf(c)]
        /\ compactor[c].at = "remove" =>
              \A n \in HeldLines(c) : Logged(auditLog, HeldOf(c), n) \/ <<HeldOf(c), n>> \in discarded

NothingLost ==
    \A p \in Invocations \ outlived : \A n \in 1 .. written[p] :
        HasLine(part[p], n) \/ Logged(auditLog, p, n) \/ <<p, n>> \in discarded

Removing(c, p, n) == compactor[c].at = "remove" /\ HeldOf(c) = p /\ n \in HeldLines(c)

NotTwice ==
    \A p \in Invocations \ (outlived \cup cut) : \A n :
        /\ OnePlace(auditLog, p, n)
        /\ HasLine(part[p], n) /\ Logged(auditLog, p, n) => \E c \in Compactors : Removing(c, p, n)

AuditInv ==
    /\ AuditShape /\ Bounded /\ OneCompaction /\ FilesSound /\ LogWritten
    /\ FaithfulCopy /\ NothingLost /\ NotTwice

LEMMA IdleIs == IdleCompactor \in CompactorStates /\ IdleCompactor.at = "idle"
BY EmptyFiles DEF IdleCompactor, CompactorStates, CompactorStages

LEMMA AuditStart == AuditPartsInit => AuditInv
<1> SUFFICES ASSUME AuditPartsInit PROVE AuditInv
  OBVIOUS
<1> USE DEF AuditPartsInit
<1>1. /\ \A p \in Invocations : \A i \in Slots :
             part[p][i] \in {NoPart, NewPart} /\ part[p][i] \in PartFiles /\ part[p][i].lines = {}
      /\ part \in [Invocations -> [Slots -> PartFiles]]
  BY EmptyFiles
<1>2. /\ \A i \in Slots : auditLog[i] = NoLog /\ DOMAIN auditLog[i].batches = {}
      /\ auditLog \in [Slots -> LogFiles]
  BY EmptyFiles
<1>3. AuditShape
  <2>1. writer \in [Invocations -> WriterStates] /\ written \in [Invocations -> Nat]
    BY DEF WriterStates
  <2>2. compactor \in [Compactors -> CompactorStates] /\ \A c \in Compactors : compactor[c].at = "idle"
    BY IdleIs
  <2> QED BY <1>1, <1>2, <2>1, <2>2 DEF AuditShape, Holding
<1>4. Bounded
  BY DEF Bounded
<1>5. OneCompaction
  BY IdleIs DEF OneCompaction
<1>6. FilesSound
  BY <1>1, EmptyFiles DEF FilesSound, NoOverlap, EmptyIfMissing, HasLine
<1>7. \A p, n : ~Logged(auditLog, p, n)
  BY <1>2 DEF Logged, HasAt
<1>8. LogWritten /\ NothingLost
  BY <1>7 DEF LogWritten, NothingLost
<1>9. FaithfulCopy
  BY IdleIs DEF FaithfulCopy, Holding
<1>10. NotTwice
  BY <1>2, <1>7 DEF NotTwice, OnePlace, HasAt
<1> QED BY <1>3, <1>4, <1>5, <1>6, <1>8, <1>9, <1>10 DEF AuditInv

\* An invocation changes its files.
LEMMA PartsChange ==
    ASSUME AuditInv, NEW p \in Invocations, NEW gs \in [Slots -> PartFiles], NEW w \in Nat,
           NoOverlap(gs), EmptyIfMissing(gs),
           part' = [part EXCEPT ![p] = gs],
           written' = [written EXCEPT ![p] = w], written[p] <= w, w <= MaxEntries[p],
           writer' \in [Invocations -> WriterStates],
           \A q \in Invocations : writer'[q].size <= written'[q],
           \A n : HasLine(gs, n) => n \in 1 .. w /\ (HasLine(part[p], n) \/ n \notin 1 .. written[p]),
           p \notin outlived' => \A n \in 1 .. w :
              HasLine(gs, n) \/ Logged(auditLog, p, n) \/ <<p, n>> \in discarded',
           outlived' \in {outlived, outlived \cup {p}},
           discarded \subseteq discarded', discarded' \subseteq discarded \cup ({p} \X (1 .. w)),
           p \notin outlived' => \A c \in Compactors, i \in Slots :
              Holding(c) /\ compactor[c].file = <<p, i>> => gs[i].lines = part[p][i].lines,
           UNCHANGED <<auditLog, locked, compactor, cut, auditCount>>,
           auditFaults' \in 0 .. MaxAuditFaults
    PROVE  AuditInv'
<1>1. AuditShape /\ Bounded /\ OneCompaction /\ FilesSound /\ LogWritten /\ FaithfulCopy
      /\ NothingLost /\ NotTwice
  BY DEF AuditInv
<1>2. /\ part'[p] = gs /\ \A q \in Invocations \ {p} : part'[q] = part[q]
      /\ written'[p] = w /\ \A q \in Invocations \ {p} : written'[q] = written[q]
      /\ \A q \in Invocations : 1 .. written[q] \subseteq 1 .. written'[q]
      /\ part' \in [Invocations -> [Slots -> PartFiles]] /\ written' \in [Invocations -> Nat]
  <2>1. part \in [Invocations -> [Slots -> PartFiles]] /\ written \in [Invocations -> Nat]
    BY <1>1 DEF AuditShape
  <2>2. /\ part'[p] = gs /\ \A q \in Invocations \ {p} : part'[q] = part[q]
        /\ written'[p] = w /\ \A q \in Invocations \ {p} : written'[q] = written[q]
        /\ part' \in [Invocations -> [Slots -> PartFiles]] /\ written' \in [Invocations -> Nat]
    BY <2>1
  <2>3. ASSUME NEW q \in Invocations PROVE 1 .. written[q] \subseteq 1 .. written'[q]
    BY <2>1, <2>2
  <2> QED BY <2>2, <2>3
<1>3. \A c : Holding(c)' = Holding(c) /\ HeldLines(c)' = HeldLines(c) /\ HeldOf(c)' = HeldOf(c)
  BY DEF Holding, HeldLines, HeldOf
<1>4. AuditShape'
  BY <1>1, <1>2, <1>3 DEF AuditShape
<1>5. Bounded'
  BY <1>1, <1>2 DEF Bounded
<1>6. OneCompaction'
  BY <1>1 DEF OneCompaction
<1>7. FilesSound'
  BY <1>1, <1>2 DEF FilesSound
<1>8. LogWritten'
  BY <1>1, <1>2 DEF LogWritten
<1>9. FaithfulCopy'
  <2> SUFFICES ASSUME NEW c \in Compactors, Holding(c)
               PROVE  /\ HeldOf(c) \notin outlived'
                            => HeldLines(c) = part'[HeldOf(c)][compactor[c].file[2]].lines
                      /\ HeldLines(c) \subseteq 1 .. written'[HeldOf(c)]
                      /\ compactor[c].at = "remove" => \A n \in HeldLines(c) :
                            Logged(auditLog, HeldOf(c), n) \/ <<HeldOf(c), n>> \in discarded'
    BY <1>3 DEF FaithfulCopy
  <2>1. PICK q \in Invocations, i \in Slots : compactor[c].file = <<q, i>>
    BY <1>1 DEF AuditShape, AuditFiles
  <2>2. HeldOf(c) = q /\ compactor[c].file[2] = i
    BY <2>1 DEF HeldOf
  <2>3. /\ q \notin outlived => HeldLines(c) = part[q][i].lines
        /\ HeldLines(c) \subseteq 1 .. written[q]
        /\ compactor[c].at = "remove" => \A n \in HeldLines(c) :
              Logged(auditLog, q, n) \/ <<q, n>> \in discarded
    BY <1>1, <2>2 DEF FaithfulCopy
  <2>4. q \notin outlived' => part'[q][i].lines = part[q][i].lines
    BY <1>2, <2>1
  <2>5. q \notin outlived' => HeldLines(c) = part'[q][i].lines
    BY <2>3, <2>4
  <2>6. HeldLines(c) \subseteq 1 .. written'[q]
    BY <1>2, <2>3
  <2> QED BY <2>2, <2>3, <2>5, <2>6
<1>10. NothingLost'
  <2> SUFFICES ASSUME NEW q \in Invocations, q \notin outlived', NEW n \in 1 .. written'[q]
               PROVE  HasLine(part'[q], n) \/ Logged(auditLog, q, n) \/ <<q, n>> \in discarded'
    BY DEF NothingLost
  <2>1. CASE q = p
    BY <1>2, <2>1
  <2>2. CASE q # p
    BY <1>1, <1>2, <2>2 DEF NothingLost
  <2> QED BY <2>1, <2>2
<1>11. NotTwice'
  <2> SUFFICES ASSUME NEW q \in Invocations, q \notin outlived' \cup cut, NEW n
               PROVE  /\ OnePlace(auditLog, q, n)
                      /\ HasLine(part'[q], n) /\ Logged(auditLog, q, n)
                            => \E c \in Compactors : Removing(c, q, n)
    BY DEF NotTwice, Removing, HeldOf, HeldLines
  <2>1. /\ OnePlace(auditLog, q, n)
        /\ HasLine(part[q], n) /\ Logged(auditLog, q, n) => \E c \in Compactors : Removing(c, q, n)
    BY <1>1 DEF NotTwice
  <2>2. HasLine(part'[q], n) /\ Logged(auditLog, q, n) => HasLine(part[q], n)
    <3>1. CASE q = p
      BY <1>1, <1>2, <3>1 DEF LogWritten
    <3>2. CASE q # p
      BY <1>2, <3>2
    <3> QED BY <3>1, <3>2
  <2> QED BY <2>1, <2>2
<1> QED BY <1>4, <1>5, <1>6, <1>7, <1>8, <1>9, <1>10, <1>11 DEF AuditInv
\* What a writer puts into its part.
Filled(fs, half, S) ==
    [fs EXCEPT ![0] = [there |-> TRUE, fresh |-> TRUE, torn |-> half, lines |-> @.lines \cup S]]

LEMMA FilledIs ==
    ASSUME NEW fs \in [Slots -> PartFiles], NoOverlap(fs), EmptyIfMissing(fs), NEW half \in BOOLEAN,
           NEW S \in SUBSET Nat, \A n \in S : ~HasLine(fs, n), NEW gs, gs = Filled(fs, half, S)
    PROVE  /\ gs \in [Slots -> PartFiles] /\ NoOverlap(gs) /\ EmptyIfMissing(gs)
           /\ \A n : HasLine(gs, n) <=> HasLine(fs, n) \/ n \in S
<1>1. fs[0] \in PartFiles /\ fs[0].lines \in SUBSET Nat
  BY SlotsAre DEF PartFiles
<1> DEFINE e == [there |-> TRUE, fresh |-> TRUE, torn |-> half, lines |-> fs[0].lines \cup S]
<1>2. e \in PartFiles /\ e.there /\ e.lines = fs[0].lines \cup S
  BY <1>1 DEF PartFiles
<1>3. gs = [fs EXCEPT ![0] = e]
  BY DEF Filled
<1> HIDE DEF e
<1>4. gs \in [Slots -> PartFiles] /\ gs[0] = e /\ \A i \in Slots : i # 0 => gs[i] = fs[i]
  BY <1>2, <1>3, SlotsAre
<1>5. EmptyIfMissing(gs)
  BY <1>2, <1>4 DEF EmptyIfMissing
<1>6. NoOverlap(gs)
  <2> SUFFICES ASSUME NEW i \in Slots, NEW j \in Slots, i # j, NEW n \in gs[i].lines, n \in gs[j].lines
               PROVE  FALSE
    BY DEF NoOverlap
  <2>1. CASE i # 0 /\ j # 0
    BY <1>4, <2>1 DEF NoOverlap
  <2>2. ASSUME NEW l \in Slots, l # 0, n \in gs[l].lines, n \in gs[0].lines PROVE FALSE
    <3>1. n \in fs[l].lines /\ (n \in fs[0].lines \/ n \in S)
      BY <1>2, <1>4, <2>2
    <3> QED BY <2>2, <3>1, SlotsAre DEF NoOverlap, HasLine
  <2>3. CASE i = 0
    BY <2>2, <2>3
  <2>4. CASE j = 0
    BY <2>2, <2>4
  <2> QED BY <2>1, <2>3, <2>4
<1>7. ASSUME NEW n PROVE HasLine(gs, n) <=> HasLine(fs, n) \/ n \in S
  BY <1>2, <1>4, SlotsAre DEF HasLine
<1> QED BY <1>4, <1>5, <1>6, <1>7

\* The files a line goes to, after the rotation if the part was full.
LEMMA ReadyIs ==
    ASSUME AuditInv, NEW p \in Invocations
    PROVE  /\ Ready(p) \in [Slots -> PartFiles] /\ NoOverlap(Ready(p)) /\ EmptyIfMissing(Ready(p))
           /\ \A n : HasLine(Ready(p), n) => HasLine(part[p], n)
           /\ \A n : HasLine(part[p], n)
                 => HasLine(Ready(p), n) \/ (FullPart(p) /\ <<p, n>> \in RotatedOut(p, 0))
<1>1. part[p] \in [Slots -> PartFiles] /\ NoOverlap(part[p]) /\ EmptyIfMissing(part[p])
  BY DEF AuditInv, AuditShape, FilesSound
<1> DEFINE gs == Shifted(part[p], 0, NewPart)
<1>2. /\ gs \in [Slots -> PartFiles] /\ NoOverlap(gs) /\ EmptyIfMissing(gs)
      /\ \A n : HasLine(gs, n) => HasLine(part[p], n)
      /\ \A n : HasLine(part[p], n) => HasLine(gs, n) \/ (0 <= MaxFiles /\ n \in part[p][MaxFiles].lines)
  BY <1>1, PartsShift
<1> HIDE DEF gs
<1>3. CASE FullPart(p)
  <2>1. Ready(p) = gs
    BY <1>3 DEF Ready, gs
  <2>2. \A n : 0 <= MaxFiles /\ n \in part[p][MaxFiles].lines => <<p, n>> \in RotatedOut(p, 0)
    BY DEF RotatedOut
  <2> QED BY <1>2, <1>3, <2>1, <2>2
<1>4. CASE ~FullPart(p)
  BY <1>1, <1>4 DEF Ready
<1> QED BY <1>3, <1>4

LEMMA RotatedOutIs ==
    ASSUME AuditInv, NEW p \in Invocations, NEW k \in Nat
    PROVE  RotatedOut(p, k) \subseteq {p} \X (1 .. written[p])
BY SlotsAre DEF AuditInv, FilesSound, HasLine, RotatedOut

LEMMA NotOvertaken ==
    ASSUME NEW p \in Invocations, NEW gs, part' = [part EXCEPT ![p] = gs],
           part \in [Invocations -> [Slots -> PartFiles]],
           outlived' = IF Overtaken(p) THEN outlived \cup {p} ELSE outlived
    PROVE  /\ outlived' \in {outlived, outlived \cup {p}}
           /\ p \notin outlived' => \A c \in Compactors, i \in Slots :
                 Holding(c) /\ compactor[c].file = <<p, i>> => gs[i].lines = part[p][i].lines
<1>1. part'[p] = gs
  OBVIOUS
<1>2. p \notin outlived' => ~Overtaken(p)
  OBVIOUS
<1> QED BY <1>1, <1>2 DEF Overtaken, Holding

LEMMA AuditWrite ==
    ASSUME AuditInv, NEW p \in Invocations, WriteEntry(p) PROVE AuditInv'
<1> DEFINE e == written[p] + 1
           fs == Ready(p)
           found == Readable(fs[0].torn, {e})
           gs == [fs EXCEPT ![0] = [there |-> TRUE, fresh |-> TRUE, torn |-> FALSE,
                                    lines |-> @.lines \cup found]]
<1>1. /\ e <= MaxEntries[p] /\ written' = [written EXCEPT ![p] = e]
      /\ writer' = [writer EXCEPT ![p].size = IF FullPart(p) THEN 1 ELSE @ + 1]
      /\ part' = [part EXCEPT ![p] = gs]
      /\ discarded' = discarded \cup ({p} \X ({e} \ found))
                         \cup (IF FullPart(p) THEN RotatedOut(p, 0) ELSE {})
      /\ outlived' = IF Overtaken(p) THEN outlived \cup {p} ELSE outlived
      /\ UNCHANGED <<auditLog, locked, compactor, cut, auditCount, auditFaults>>
  BY DEF WriteEntry
<1>2. /\ part \in [Invocations -> [Slots -> PartFiles]] /\ written \in [Invocations -> Nat]
      /\ writer \in [Invocations -> WriterStates] /\ auditFaults \in 0 .. MaxAuditFaults
      /\ \A q \in Invocations : writer[q].size <= written[q]
      /\ \A n : HasLine(part[p], n) => n \in 1 .. written[p]
  BY DEF AuditInv, AuditShape, Bounded, FilesSound
<1>3. e \in Nat /\ 1 .. e = 1 .. written[p] \cup {e} /\ e \notin 1 .. written[p] /\ written[p] <= e
  <2> DEFINE w == written[p]
  <2>1. w \in Nat
    BY <1>2
  <2> HIDE DEF w
  <2>2. w + 1 \in Nat /\ 1 .. w + 1 = 1 .. w \cup {w + 1} /\ w + 1 \notin 1 .. w /\ w <= w + 1
    BY <2>1
  <2> QED BY <2>2 DEF w
<1>4. gs = Filled(fs, FALSE, found)
  BY DEF Filled
<1>5. /\ fs \in [Slots -> PartFiles] /\ NoOverlap(fs) /\ EmptyIfMissing(fs)
      /\ \A n : HasLine(fs, n) => HasLine(part[p], n)
      /\ \A n : HasLine(part[p], n) => HasLine(fs, n) \/ (FullPart(p) /\ <<p, n>> \in RotatedOut(p, 0))
  BY ReadyIs
<1>6. found \subseteq {e}
  BY ReadableIn
<1>7. RotatedOut(p, 0) \subseteq {p} \X (1 .. written[p])
  BY RotatedOutIs
<1>8. /\ outlived' \in {outlived, outlived \cup {p}}
      /\ p \notin outlived' => \A c \in Compactors, i \in Slots :
            Holding(c) /\ compactor[c].file = <<p, i>> => gs[i].lines = part[p][i].lines
  <2> HIDE DEF gs
  <2> QED BY <1>1, <1>2, NotOvertaken, Zenon
<1> HIDE DEF e, fs, found, gs
<1>9. /\ gs \in [Slots -> PartFiles] /\ NoOverlap(gs) /\ EmptyIfMissing(gs)
      /\ \A n : HasLine(gs, n) <=> HasLine(fs, n) \/ n \in found
  <2>1. found \in SUBSET Nat /\ \A n \in found : ~HasLine(fs, n)
    BY <1>2, <1>3, <1>5, <1>6
  <2> QED BY <1>4, <1>5, <2>1, FilledIs
<1>10. /\ writer' \in [Invocations -> WriterStates]
       /\ \A q \in Invocations : writer'[q].size <= written'[q]
  BY <1>1, <1>2, <1>3 DEF WriterStates, e
<1>11. \A n : HasLine(gs, n) => n \in 1 .. e /\ (HasLine(part[p], n) \/ n \notin 1 .. written[p])
  <2> SUFFICES ASSUME NEW n, HasLine(gs, n)
               PROVE  n \in 1 .. e /\ (HasLine(part[p], n) \/ n \notin 1 .. written[p])
    OBVIOUS
  <2>1. HasLine(part[p], n) \/ n = e
    BY <1>5, <1>6, <1>9
  <2> QED BY <1>2, <1>3, <2>1
<1>12. discarded \subseteq discarded' /\ discarded' \subseteq discarded \cup ({p} \X (1 .. e))
  BY <1>1, <1>3, <1>7
<1>13. p \notin outlived' => \A n \in 1 .. e :
          HasLine(gs, n) \/ Logged(auditLog, p, n) \/ <<p, n>> \in discarded'
  <2> SUFFICES ASSUME p \notin outlived', NEW n \in 1 .. e
               PROVE  HasLine(gs, n) \/ Logged(auditLog, p, n) \/ <<p, n>> \in discarded'
    OBVIOUS
  <2>1. CASE n = e
    <3>1. n \in found \/ <<p, n>> \in {p} \X ({e} \ found)
      BY <2>1
    <3> QED BY <1>1, <1>9, <3>1
  <2>2. CASE n # e
    <3>1. n \in 1 .. written[p] /\ p \notin outlived
      BY <1>3, <1>8, <2>2
    <3>2. HasLine(part[p], n) \/ Logged(auditLog, p, n) \/ <<p, n>> \in discarded
      BY <3>1 DEF AuditInv, NothingLost
    <3> QED BY <1>1, <1>5, <1>9, <3>2
  <2> QED BY <2>1, <2>2
<1>14. UNCHANGED <<auditLog, locked, compactor, cut, auditCount>> /\ auditFaults' \in 0 .. MaxAuditFaults
  BY <1>1, <1>2
<1> QED BY <1>1, <1>3, <1>8, <1>9, <1>10, <1>11, <1>12, <1>13, <1>14, PartsChange

LEMMA AuditShort ==
    ASSUME AuditInv, NEW p \in Invocations, WriteShort(p) PROVE AuditInv'
<1> DEFINE fs == Ready(p)
           hs == [fs EXCEPT ![0] = [there |-> TRUE, fresh |-> TRUE, torn |-> TRUE,
                                    lines |-> @.lines]]
<1>1. /\ auditFaults < MaxAuditFaults /\ auditFaults' = auditFaults + 1
      /\ writer' = [writer EXCEPT ![p].size = IF FullPart(p) THEN 0 ELSE @]
      /\ part' = [part EXCEPT ![p] = hs] \/ part' = [part EXCEPT ![p] = fs]
      /\ discarded' = discarded \cup (IF FullPart(p) THEN RotatedOut(p, 0) ELSE {})
      /\ outlived' = IF Overtaken(p) THEN outlived \cup {p} ELSE outlived
      /\ UNCHANGED <<written, auditLog, locked, compactor, cut, auditCount>>
  BY DEF WriteShort
<1>2. /\ part \in [Invocations -> [Slots -> PartFiles]] /\ written \in [Invocations -> Nat]
      /\ writer \in [Invocations -> WriterStates] /\ auditFaults \in 0 .. MaxAuditFaults
      /\ \A q \in Invocations : writer[q].size <= written[q] /\ written[q] <= MaxEntries[q]
      /\ \A n : HasLine(part[p], n) => n \in 1 .. written[p]
  BY DEF AuditInv, AuditShape, Bounded, FilesSound
<1>3. hs = Filled(fs, TRUE, {})
  <2>1. fs[0].lines \cup {} = fs[0].lines
    OBVIOUS
  <2> QED BY <2>1 DEF Filled
<1>4. /\ fs \in [Slots -> PartFiles] /\ NoOverlap(fs) /\ EmptyIfMissing(fs)
      /\ \A n : HasLine(fs, n) => HasLine(part[p], n)
      /\ \A n : HasLine(part[p], n) => HasLine(fs, n) \/ (FullPart(p) /\ <<p, n>> \in RotatedOut(p, 0))
  BY ReadyIs
<1>5. RotatedOut(p, 0) \subseteq {p} \X (1 .. written[p])
  BY RotatedOutIs
<1> HIDE DEF fs, hs
<1>6. /\ hs \in [Slots -> PartFiles] /\ NoOverlap(hs) /\ EmptyIfMissing(hs)
      /\ \A n : HasLine(hs, n) <=> HasLine(fs, n)
  <2> DEFINE S == {}
  <2>1. S \in SUBSET Nat /\ (\A n \in S : ~HasLine(fs, n)) /\ (\A n : n \notin S)
        /\ hs = Filled(fs, TRUE, S)
    BY <1>3
  <2> HIDE DEF S
  <2>2. /\ hs \in [Slots -> PartFiles] /\ NoOverlap(hs) /\ EmptyIfMissing(hs)
        /\ \A n : HasLine(hs, n) <=> HasLine(fs, n) \/ n \in S
    BY <1>4, <2>1, FilledIs
  <2> QED BY <2>1, <2>2
<1>7. PICK gs \in {fs, hs} : part' = [part EXCEPT ![p] = gs]
  BY <1>1
<1>8. /\ gs \in [Slots -> PartFiles] /\ NoOverlap(gs) /\ EmptyIfMissing(gs)
      /\ \A n : HasLine(gs, n) <=> HasLine(fs, n)
  BY <1>4, <1>6, <1>7
<1>9. /\ outlived' \in {outlived, outlived \cup {p}}
      /\ p \notin outlived' => \A c \in Compactors, i \in Slots :
            Holding(c) /\ compactor[c].file = <<p, i>> => gs[i].lines = part[p][i].lines
  BY <1>1, <1>2, <1>7, NotOvertaken, Zenon
<1> DEFINE w == written[p]
<1>10. /\ writer' \in [Invocations -> WriterStates]
       /\ \A q \in Invocations : writer'[q].size <= written'[q]
  BY <1>1, <1>2 DEF WriterStates
<1>11. \A n : HasLine(gs, n) => n \in 1 .. w /\ (HasLine(part[p], n) \/ n \notin 1 .. written[p])
  BY <1>2, <1>4, <1>8
<1>12. discarded \subseteq discarded' /\ discarded' \subseteq discarded \cup ({p} \X (1 .. w))
  BY <1>1, <1>5
<1>13. p \notin outlived' => \A n \in 1 .. w :
          HasLine(gs, n) \/ Logged(auditLog, p, n) \/ <<p, n>> \in discarded'
  <2> SUFFICES ASSUME p \notin outlived', NEW n \in 1 .. w
               PROVE  HasLine(gs, n) \/ Logged(auditLog, p, n) \/ <<p, n>> \in discarded'
    OBVIOUS
  <2>1. HasLine(part[p], n) \/ Logged(auditLog, p, n) \/ <<p, n>> \in discarded
    BY <1>9 DEF AuditInv, NothingLost
  <2> QED BY <1>1, <1>8, <1>4, <2>1
<1>14. /\ written' = [written EXCEPT ![p] = w] /\ w \in Nat /\ w <= MaxEntries[p] /\ written[p] <= w
       /\ UNCHANGED <<auditLog, locked, compactor, cut, auditCount>> /\ auditFaults' \in 0 .. MaxAuditFaults
  BY <1>1, <1>2
<1> HIDE DEF w
<1> QED BY <1>1, <1>8, <1>9, <1>7, <1>10, <1>11, <1>12, <1>13, <1>14, PartsChange

LEMMA AuditWriteLost ==
    ASSUME AuditInv, NEW p \in Invocations, WriteLost(p) PROVE AuditInv'
<1> DEFINE w == written[p] + 1
           gs == part[p]
<1>1. /\ written[p] < MaxEntries[p]
      /\ written' = [written EXCEPT ![p] = @ + 1]
      /\ writer' = [writer EXCEPT ![p].size = @ + 1]
      /\ outlived' = outlived \cup {p}
      /\ UNCHANGED <<part, auditLog, locked, compactor, discarded, cut, auditCount, auditFaults>>
  BY DEF WriteLost
<1>2. /\ part \in [Invocations -> [Slots -> PartFiles]] /\ written \in [Invocations -> Nat]
      /\ writer \in [Invocations -> WriterStates] /\ auditFaults \in 0 .. MaxAuditFaults
      /\ \A q \in Invocations : writer[q].size <= written[q] /\ written[q] <= MaxEntries[q]
      /\ \A n : HasLine(part[p], n) => n \in 1 .. written[p]
      /\ NoOverlap(gs) /\ EmptyIfMissing(gs)
  BY DEF AuditInv, AuditShape, Bounded, FilesSound
<1>3. /\ w \in Nat /\ written[p] <= w /\ w <= MaxEntries[p] /\ 1 .. written[p] \subseteq 1 .. w
      /\ written' = [written EXCEPT ![p] = w]
  BY <1>1, <1>2
<1>4. /\ writer' \in [Invocations -> WriterStates]
      /\ \A q \in Invocations : writer'[q].size <= written'[q]
  BY <1>1, <1>2 DEF WriterStates
<1> HIDE DEF w
<1>5. part' = [part EXCEPT ![p] = gs] /\ gs \in [Slots -> PartFiles]
  BY <1>1, <1>2
<1>6. \A n : HasLine(gs, n) => n \in 1 .. w /\ (HasLine(part[p], n) \/ n \notin 1 .. written[p])
  BY <1>2, <1>3
<1>7. p \in outlived' /\ outlived' \in {outlived, outlived \cup {p}}
      /\ discarded \subseteq discarded' /\ discarded' \subseteq discarded \cup ({p} \X (1 .. w))
  BY <1>1
<1>8. UNCHANGED <<auditLog, locked, compactor, cut, auditCount>> /\ auditFaults' \in 0 .. MaxAuditFaults
  BY <1>1, <1>2
<1> HIDE DEF gs
<1>9. NoOverlap(gs) /\ EmptyIfMissing(gs)
  BY <1>2 DEF gs
<1> QED BY <1>3, <1>4, <1>5, <1>6, <1>7, <1>8, <1>9, PartsChange

LEMMA AuditRotationFails ==
    ASSUME AuditInv, NEW p \in Invocations, RotationFails(p) PROVE AuditInv'
<1>1. PICK k \in 0 .. MaxFiles + 1 :
         /\ part' = [part EXCEPT ![p] = Shifted(@, k, NoPart)]
         /\ discarded' = discarded \cup RotatedOut(p, k)
         /\ UNCHANGED auditFaults \/ (auditFaults < MaxAuditFaults /\ auditFaults' = auditFaults + 1)
  BY DEF RotationFails
<1> DEFINE gs == Shifted(part[p], k, NoPart)
           w == written[p]
<1>2. /\ part \in [Invocations -> [Slots -> PartFiles]] /\ written \in [Invocations -> Nat]
      /\ writer \in [Invocations -> WriterStates] /\ auditFaults \in 0 .. MaxAuditFaults
      /\ \A q \in Invocations : writer[q].size <= written[q] /\ written[q] <= MaxEntries[q]
      /\ \A n : HasLine(part[p], n) => n \in 1 .. written[p]
      /\ part[p] \in [Slots -> PartFiles] /\ NoOverlap(part[p]) /\ EmptyIfMissing(part[p])
  BY DEF AuditInv, AuditShape, Bounded, FilesSound
<1>3. k \in Nat /\ part' = [part EXCEPT ![p] = gs]
  BY <1>1, SlotsAre
<1>4. /\ gs \in [Slots -> PartFiles] /\ NoOverlap(gs) /\ EmptyIfMissing(gs)
      /\ \A n : HasLine(gs, n) => HasLine(part[p], n)
      /\ \A n : HasLine(part[p], n) => HasLine(gs, n) \/ (k <= MaxFiles /\ n \in part[p][MaxFiles].lines)
  BY <1>2, <1>3, PartsShift
<1> HIDE DEF gs
<1>5. /\ writer' = [writer EXCEPT ![p].up = FALSE]
      /\ outlived' = IF Overtaken(p) THEN outlived \cup {p} ELSE outlived
      /\ UNCHANGED <<written, auditLog, locked, compactor, cut, auditCount>>
  BY DEF RotationFails
<1>6. /\ outlived' \in {outlived, outlived \cup {p}}
      /\ p \notin outlived' => \A c \in Compactors, i \in Slots :
            Holding(c) /\ compactor[c].file = <<p, i>> => gs[i].lines = part[p][i].lines
  BY <1>2, <1>3, <1>5, NotOvertaken, Zenon
<1>7. /\ writer' \in [Invocations -> WriterStates]
      /\ \A q \in Invocations : writer'[q].size <= written'[q]
  BY <1>2, <1>5 DEF WriterStates
<1>8. \A n : HasLine(gs, n) => n \in 1 .. w /\ (HasLine(part[p], n) \/ n \notin 1 .. written[p])
  BY <1>2, <1>4
<1>9. discarded \subseteq discarded' /\ discarded' \subseteq discarded \cup ({p} \X (1 .. w))
  BY <1>1, <1>3, RotatedOutIs
<1>10. p \notin outlived' => \A n \in 1 .. w :
          HasLine(gs, n) \/ Logged(auditLog, p, n) \/ <<p, n>> \in discarded'
  <2> SUFFICES ASSUME p \notin outlived', NEW n \in 1 .. w
               PROVE  HasLine(gs, n) \/ Logged(auditLog, p, n) \/ <<p, n>> \in discarded'
    OBVIOUS
  <2>1. HasLine(part[p], n) \/ Logged(auditLog, p, n) \/ <<p, n>> \in discarded
    BY <1>6 DEF AuditInv, NothingLost
  <2>2. k <= MaxFiles /\ n \in part[p][MaxFiles].lines => <<p, n>> \in RotatedOut(p, k)
    BY DEF RotatedOut
  <2> QED BY <1>1, <1>4, <2>1, <2>2
<1>11. /\ written' = [written EXCEPT ![p] = w] /\ w \in Nat /\ w <= MaxEntries[p] /\ written[p] <= w
       /\ UNCHANGED <<auditLog, locked, compactor, cut, auditCount>> /\ auditFaults' \in 0 .. MaxAuditFaults
  BY <1>1, <1>2, <1>5
<1> HIDE DEF w
<1> QED BY <1>3, <1>4, <1>6, <1>7, <1>8, <1>9, <1>10, <1>11, PartsChange

LEMMA AuditQuiet ==
    ASSUME AuditInv, NEW p \in Invocations, GoQuiet(p) PROVE AuditInv'
<1> DEFINE w == written[p]
<1>1. PICK i \in Slots :
         part' = [part EXCEPT ![p] =
            [j \in Slots |-> IF j < i THEN @[j] ELSE [@[j] EXCEPT !.fresh = FALSE]]]
  BY DEF GoQuiet
<1> DEFINE gs == [j \in Slots |-> IF j < i THEN part[p][j] ELSE [part[p][j] EXCEPT !.fresh = FALSE]]
<1>2. /\ part \in [Invocations -> [Slots -> PartFiles]] /\ written \in [Invocations -> Nat]
      /\ writer \in [Invocations -> WriterStates] /\ auditFaults \in 0 .. MaxAuditFaults
      /\ \A q \in Invocations : writer[q].size <= written[q] /\ written[q] <= MaxEntries[q]
      /\ \A n : HasLine(part[p], n) => n \in 1 .. written[p]
      /\ part[p] \in [Slots -> PartFiles] /\ NoOverlap(part[p]) /\ EmptyIfMissing(part[p])
  BY DEF AuditInv, AuditShape, Bounded, FilesSound
<1>3. part' = [part EXCEPT ![p] = gs]
  BY <1>1
<1>4. \A j \in Slots : gs[j] \in PartFiles /\ gs[j].lines = part[p][j].lines /\ gs[j].there = part[p][j].there
                       /\ (part[p][j] = NoPart => gs[j] = NoPart)
  <2> SUFFICES ASSUME NEW j \in Slots
               PROVE  gs[j] \in PartFiles /\ gs[j].lines = part[p][j].lines /\ gs[j].there = part[p][j].there
                      /\ (part[p][j] = NoPart => gs[j] = NoPart)
    OBVIOUS
  <2> DEFINE x == part[p][j]
             y == [x EXCEPT !.fresh = FALSE]
  <2>1. x \in PartFiles
    BY <1>2
  <2>2. gs[j] = x \/ gs[j] = y
    OBVIOUS
  <2> HIDE DEF gs
  <2>3. y \in PartFiles /\ y.lines = x.lines /\ y.there = x.there
    <3> HIDE DEF x
    <3> QED BY <2>1 DEF PartFiles
  <2>4. x = NoPart => y = NoPart
    <3> HIDE DEF x
    <3> SUFFICES ASSUME x = NoPart PROVE y = NoPart
      OBVIOUS
    <3>1. x \in PartFiles /\ y \in PartFiles /\ x.fresh = FALSE
      BY <2>1, <2>3 DEF NoPart
    <3>2. y.there = x.there /\ y.fresh = FALSE /\ y.torn = x.torn /\ y.lines = x.lines
      BY <3>1 DEF PartFiles
    <3> HIDE DEF y
    <3> QED BY <3>1, <3>2 DEF PartFiles
  <2> HIDE DEF y
  <2> QED BY <2>1, <2>2, <2>3, <2>4
<1>5. gs \in [Slots -> PartFiles]
  <2>1. DOMAIN gs = Slots /\ gs = [j \in Slots |-> gs[j]]
    OBVIOUS
  <2> HIDE DEF gs
  <2> QED BY <1>4, <2>1
<1> HIDE DEF gs
<1>6. NoOverlap(gs) /\ EmptyIfMissing(gs)
  BY <1>2, <1>4 DEF NoOverlap, EmptyIfMissing
<1>7. \A n : HasLine(gs, n) <=> HasLine(part[p], n)
  BY <1>4 DEF HasLine
<1>8. UNCHANGED <<writer, written, auditLog, locked, compactor, outlived, discarded, cut, auditCount,
                  auditFaults>>
  BY DEF GoQuiet
<1>9. \A n : HasLine(gs, n) => n \in 1 .. w /\ (HasLine(part[p], n) \/ n \notin 1 .. written[p])
  BY <1>2, <1>7
<1>10. p \notin outlived' => \A n \in 1 .. w :
          HasLine(gs, n) \/ Logged(auditLog, p, n) \/ <<p, n>> \in discarded'
  BY <1>7, <1>8 DEF AuditInv, NothingLost
<1>11. /\ written' = [written EXCEPT ![p] = w] /\ w \in Nat /\ w <= MaxEntries[p] /\ written[p] <= w
       /\ writer' \in [Invocations -> WriterStates]
       /\ \A q \in Invocations : writer'[q].size <= written'[q]
       /\ auditFaults' \in 0 .. MaxAuditFaults
  BY <1>2, <1>8
<1> HIDE DEF w
<1>12. /\ outlived' \in {outlived, outlived \cup {p}}
       /\ discarded \subseteq discarded' /\ discarded' \subseteq discarded \cup ({p} \X (1 .. w))
       /\ \A c \in Compactors, j \in Slots :
            Holding(c) /\ compactor[c].file = <<p, j>> => gs[j].lines = part[p][j].lines
  BY <1>4, <1>8
<1> QED BY <1>3, <1>5, <1>6, <1>8, <1>9, <1>10, <1>11, <1>12, PartsChange

\* A compactor moves on, and nothing else changes but what is known of the parts it leaves.
LEMMA CompactorMoves ==
    ASSUME AuditInv, NEW c \in Compactors, NEW e \in CompactorStates,
           compactor' = [compactor EXCEPT ![c] = e],
           UNCHANGED <<part, writer, written, auditLog, outlived, discarded>>,
           compactor[c].at # "append" \/ e.at # "remove",
           e.at \in {"append", "remove"} =>
              /\ e.file \in AuditFiles
              /\ e.inHand.lines = part[e.file[1]][e.file[2]].lines
              /\ e.at = "remove" => e.inHand.lines = {},
           compactor[c].at = "remove" =>
              \A p \in Invocations \ cut' : ~(HeldOf(c) = p /\ HeldLines(c) # {}),
           cut \subseteq cut', cut' \subseteq Invocations,
           OneCompaction', auditCount' \in 0 .. MaxCompactions, auditFaults' \in 0 .. MaxAuditFaults
    PROVE  AuditInv'
<1>1. AuditShape /\ Bounded /\ OneCompaction /\ FilesSound /\ LogWritten /\ FaithfulCopy
      /\ NothingLost /\ NotTwice
  BY DEF AuditInv
<1>2. /\ compactor \in [Compactors -> CompactorStates] /\ compactor' \in [Compactors -> CompactorStates]
      /\ compactor'[c] = e /\ \A d \in Compactors \ {c} : compactor'[d] = compactor[d]
  <2>1. compactor \in [Compactors -> CompactorStates]
    BY <1>1 DEF AuditShape
  <2> QED BY <2>1
<1>3. \A d \in Compactors \ {c} : /\ Holding(d)' <=> Holding(d)
                                  /\ HeldLines(d)' = HeldLines(d) /\ HeldOf(d)' = HeldOf(d)
                                  /\ compactor'[d] = compactor[d]
  BY <1>2 DEF Holding, HeldLines, HeldOf
<1>4. /\ Holding(c)' <=> e.at \in {"append", "remove"}
      /\ HeldLines(c)' = e.inHand.lines /\ HeldOf(c)' = e.file[1]
  BY <1>2 DEF Holding, HeldLines, HeldOf
<1>5. AuditShape'
  <2>1. \A d \in Compactors : Holding(d)' => compactor'[d].file \in AuditFiles
    BY <1>1, <1>2, <1>3, <1>4 DEF AuditShape
  <2> QED BY <1>1, <1>2, <2>1 DEF AuditShape
<1>6. Bounded' /\ FilesSound' /\ LogWritten' /\ NothingLost'
  BY <1>1 DEF Bounded, FilesSound, LogWritten, NothingLost
<1>7. FaithfulCopy'
  <2> SUFFICES ASSUME NEW d \in Compactors, Holding(d)'
               PROVE  /\ HeldOf(d)' \notin outlived
                            => HeldLines(d)' = part[HeldOf(d)'][compactor'[d].file[2]].lines
                      /\ HeldLines(d)' \subseteq 1 .. written[HeldOf(d)']
                      /\ compactor'[d].at = "remove" => \A n \in HeldLines(d)' :
                            Logged(auditLog, HeldOf(d)', n) \/ <<HeldOf(d)', n>> \in discarded
    BY DEF FaithfulCopy
  <2>1. CASE d = c
    <3>1. PICK p \in Invocations, i \in Slots : e.file = <<p, i>>
      BY <1>4, <2>1 DEF AuditFiles
    <3>2. e.inHand.lines = part[p][i].lines /\ (e.at = "remove" => e.inHand.lines = {})
      BY <1>4, <2>1, <3>1
    <3>3. part[p][i].lines \subseteq 1 .. written[p]
      BY <1>1 DEF FilesSound, HasLine
    <3> QED BY <1>2, <1>4, <2>1, <3>1, <3>2, <3>3
  <2>2. CASE d # c
    BY <1>1, <1>3, <2>2 DEF FaithfulCopy
  <2> QED BY <2>1, <2>2
<1>8. NotTwice'
  <2> SUFFICES ASSUME NEW p \in Invocations, p \notin outlived \cup cut', NEW n
               PROVE  /\ OnePlace(auditLog, p, n)
                      /\ HasLine(part[p], n) /\ Logged(auditLog, p, n)
                            => \E d \in Compactors : Removing(d, p, n)'
    BY <1>1 DEF NotTwice
  <2>1. /\ OnePlace(auditLog, p, n)
        /\ HasLine(part[p], n) /\ Logged(auditLog, p, n) => \E d \in Compactors : Removing(d, p, n)
    BY <1>1 DEF NotTwice
  <2>2. ASSUME NEW d \in Compactors, Removing(d, p, n) PROVE Removing(d, p, n)'
    <3>1. d # c
      BY <2>2 DEF Removing
    <3> QED BY <1>3, <2>2, <3>1 DEF Removing
  <2> QED BY <2>1, <2>2
<1> QED BY <1>5, <1>6, <1>7, <1>8 DEF AuditInv

\* The lock when c moves, and is idle or not.
LEMMA LockHeld ==
    ASSUME AuditShape, OneCompaction, NEW c \in Compactors, NEW e,
           compactor' = [compactor EXCEPT ![c] = e], locked' \in BOOLEAN,
           \/ e.at # "idle" /\ locked' = TRUE /\ (compactor[c].at # "idle" \/ ~locked)
           \/ e.at = "idle" /\ (compactor[c].at # "idle" \/ locked' = locked)
    PROVE  OneCompaction'
<1>1. compactor'[c] = e /\ \A d \in Compactors \ {c} : compactor'[d] = compactor[d]
  BY DEF AuditShape
<1>2. CASE compactor[c].at # "idle"
  <2>1. \A d \in Compactors \ {c} : compactor'[d].at = "idle"
    BY <1>1, <1>2 DEF OneCompaction
  <2> QED BY <1>1, <2>1 DEF OneCompaction
<1>3. CASE compactor[c].at = "idle" /\ ~locked
  <2>1. \A d \in Compactors \ {c} : compactor'[d].at = "idle"
    BY <1>1, <1>3 DEF OneCompaction
  <2> QED BY <1>1, <2>1 DEF OneCompaction
<1>4. CASE e.at = "idle" /\ locked' = locked
  BY <1>1, <1>4 DEF OneCompaction
<1> QED BY <1>2, <1>3, <1>4

LEMMA AuditStartCompaction ==
    ASSUME AuditInv, NEW c \in Compactors, StartCompaction(c) PROVE AuditInv'
<1> DEFINE e == [IdleCompactor EXCEPT !.at = "read", !.list = Eligible]
<1>1. /\ ~locked /\ locked' = TRUE /\ auditCount < MaxCompactions /\ auditCount' = auditCount + 1
      /\ compactor[c].at = "idle"
      /\ compactor' = [compactor EXCEPT ![c] = e]
      /\ UNCHANGED <<part, writer, written, auditLog, outlived, discarded, cut, auditFaults>>
  BY DEF StartCompaction
<1>2. Eligible \in SUBSET AuditFiles
  BY DEF Eligible, AuditFiles
<1>3. e \in CompactorStates /\ e.at = "read"
  BY <1>2, IdleIs DEF CompactorStates, CompactorStages
<1> HIDE DEF e
<1>4. OneCompaction'
  BY <1>1, <1>3, LockHeld DEF AuditInv
<1>5. auditCount' \in 0 .. MaxCompactions /\ auditFaults' \in 0 .. MaxAuditFaults
      /\ cut \subseteq cut' /\ cut' \subseteq Invocations
  BY <1>1 DEF AuditInv, AuditShape
<1> QED BY <1>1, <1>3, <1>4, <1>5, CompactorMoves

LEMMA AuditReadPart ==
    ASSUME AuditInv, NEW c \in Compactors, ReadPart(c) PROVE AuditInv'
<1> DEFINE from(f) == part[f[1]][f[2]]
           to(f) == [compactor[c] EXCEPT !.list = @ \ {f}, !.file = f, !.inHand = from(f),
                         !.at = IF from(f).lines = {} /\ ~from(f).torn THEN "remove" ELSE "append"]
<1>1. PICK f \in compactor[c].list :
         compactor[c].at = "read" /\ compactor' = [compactor EXCEPT ![c] = to(f)]
  BY DEF ReadPart, FirstListed
<1> DEFINE file == from(f)
           e == to(f)
<1>2. compactor' = [compactor EXCEPT ![c] = e]
  BY <1>1
<1>3. UNCHANGED <<part, writer, written, auditLog, locked, outlived, discarded, cut, auditCount,
                  auditFaults>>
  BY DEF ReadPart
<1>4. compactor[c] \in CompactorStates /\ f \in AuditFiles
  BY <1>1 DEF AuditInv, AuditShape, CompactorStates
<1>5. file \in PartFiles
  BY <1>4 DEF AuditInv, AuditShape, AuditFiles
<1>6. /\ e \in CompactorStates /\ e.at \in {"append", "remove"} /\ e.file = f /\ e.inHand = file
      /\ e.at = "remove" => file.lines = {}
  <2> DEFINE x == compactor[c]
             at == IF file.lines = {} /\ ~file.torn THEN "remove" ELSE "append"
             list == x.list \ {f}
  <2>1. x \in CompactorStates /\ list \in SUBSET AuditFiles /\ at \in {"append", "remove"}
        /\ (at = "remove" => file.lines = {})
    BY <1>4 DEF CompactorStates
  <2>2. e = [x EXCEPT !.list = list, !.file = f, !.inHand = file, !.at = at]
    OBVIOUS
  <2> HIDE DEF e, x, at, list, file
  <2> QED BY <1>4, <1>5, <2>1, <2>2 DEF CompactorStates, CompactorStages
<1> HIDE DEF e
<1>7. e.inHand.lines = part[e.file[1]][e.file[2]].lines
  BY <1>6
<1> HIDE DEF file
<1>8. OneCompaction'
  <2>1. AuditShape /\ OneCompaction /\ locked' \in BOOLEAN /\ locked' = TRUE
    BY <1>1, <1>3 DEF AuditInv, OneCompaction
  <2> QED BY <1>1, <1>2, <1>6, <2>1, LockHeld
<1>9. auditCount' \in 0 .. MaxCompactions /\ auditFaults' \in 0 .. MaxAuditFaults
      /\ cut \subseteq cut' /\ cut' \subseteq Invocations
  BY <1>3 DEF AuditInv, AuditShape
<1>10. e.at \in {"append", "remove"} =>
              /\ e.file \in AuditFiles
              /\ e.inHand.lines = part[e.file[1]][e.file[2]].lines
              /\ e.at = "remove" => e.inHand.lines = {}
  BY <1>4, <1>6, <1>7
<1> QED BY <1>1, <1>2, <1>3, <1>6, <1>8, <1>9, <1>10, CompactorMoves

LEMMA AuditSkipPart ==
    ASSUME AuditInv, NEW c \in Compactors, SkipPart(c) PROVE AuditInv'
<1>1. PICK f \in compactor[c].list :
         /\ compactor[c].at = "read"
         /\ compactor' = [compactor EXCEPT ![c].list = @ \ {f}]
         /\ UNCHANGED auditFaults \/ (auditFaults < MaxAuditFaults /\ auditFaults' = auditFaults + 1)
  BY DEF SkipPart, FirstListed
<1> DEFINE e == [compactor[c] EXCEPT !.list = @ \ {f}]
<1>2. /\ compactor' = [compactor EXCEPT ![c] = e]
      /\ UNCHANGED <<part, writer, written, auditLog, locked, outlived, discarded, cut, auditCount>>
  BY <1>1 DEF SkipPart
<1>3. e \in CompactorStates /\ e.at = "read"
  BY <1>1 DEF AuditInv, AuditShape, CompactorStates
<1> HIDE DEF e
<1>4. OneCompaction'
  <2>1. AuditShape /\ OneCompaction /\ locked' \in BOOLEAN /\ locked' = TRUE
    BY <1>1, <1>2 DEF AuditInv, OneCompaction
  <2> QED BY <1>1, <1>2, <1>3, <2>1, LockHeld
<1>5. auditCount' \in 0 .. MaxCompactions /\ auditFaults' \in 0 .. MaxAuditFaults
      /\ cut \subseteq cut' /\ cut' \subseteq Invocations
  BY <1>1, <1>2 DEF AuditInv, AuditShape
<1> QED BY <1>1, <1>2, <1>3, <1>4, <1>5, CompactorMoves

LEMMA CutOffIs ==
    ASSUME AuditInv, NEW c \in Compactors, Holding(c), NEW S, cut' = CutOff(c, S)
    PROVE  cut \subseteq cut' /\ cut' \subseteq Invocations /\ (S # {} => HeldOf(c) \in cut')
BY DEF AuditInv, AuditShape, AuditFiles, HeldOf, CutOff

LEMMA AuditRemoveFails ==
    ASSUME AuditInv, NEW c \in Compactors, RemoveFails(c) PROVE AuditInv'
<1> DEFINE e == [compactor[c] EXCEPT !.at = "read"]
<1>1. /\ compactor[c].at = "remove"
      /\ auditFaults < MaxAuditFaults /\ auditFaults' = auditFaults + 1
      /\ cut' = CutOff(c, HeldLines(c))
      /\ compactor' = [compactor EXCEPT ![c] = e]
      /\ UNCHANGED <<part, writer, written, auditLog, locked, outlived, discarded, auditCount>>
  BY DEF RemoveFails, HeldLines
<1>2. e \in CompactorStates /\ e.at = "read"
  BY DEF AuditInv, AuditShape, CompactorStates, CompactorStages
<1> HIDE DEF e
<1>3. OneCompaction'
  <2>1. AuditShape /\ OneCompaction /\ locked' \in BOOLEAN /\ locked' = TRUE
    BY <1>1 DEF AuditInv, OneCompaction
  <2> QED BY <1>1, <1>2, <2>1, LockHeld
<1>4. cut \subseteq cut' /\ cut' \subseteq Invocations /\ (HeldLines(c) # {} => HeldOf(c) \in cut')
  <2>1. Holding(c)
    BY <1>1 DEF Holding
  <2> QED BY <1>1, <2>1, CutOffIs
<1>5. auditCount' \in 0 .. MaxCompactions /\ auditFaults' \in 0 .. MaxAuditFaults
  BY <1>1 DEF AuditInv, AuditShape
<1> QED BY <1>1, <1>2, <1>3, <1>4, <1>5, CompactorMoves

LEMMA AuditEndCompaction ==
    ASSUME AuditInv, NEW c \in Compactors, EndCompaction(c) PROVE AuditInv'
<1>1. /\ compactor[c].at = "read" /\ locked' = FALSE
      /\ compactor' = [compactor EXCEPT ![c] = IdleCompactor]
      /\ UNCHANGED <<part, writer, written, auditLog, outlived, discarded, cut, auditCount, auditFaults>>
  BY DEF EndCompaction
<1>2. OneCompaction'
  BY <1>1, IdleIs, LockHeld DEF AuditInv
<1>3. auditCount' \in 0 .. MaxCompactions /\ auditFaults' \in 0 .. MaxAuditFaults
      /\ cut \subseteq cut' /\ cut' \subseteq Invocations
  BY <1>1 DEF AuditInv, AuditShape
<1> QED BY <1>1, <1>2, <1>3, IdleIs, CompactorMoves

\* Nobody else has a file in hand, and of what an append finds there the log had nothing.
LEMMA HandAlone ==
    ASSUME AuditInv, NEW c \in Compactors, compactor[c].at = "append"
    PROVE  /\ \A d \in Compactors \ {c} : compactor[d].at = "idle" /\ ~Holding(d)
           /\ \A d \in Compactors : \A p, n : ~Removing(d, p, n)
           /\ HeldOf(c) \in Invocations
           /\ HeldLines(c) \in SUBSET Nat /\ HeldLines(c) \subseteq 1 .. written[HeldOf(c)]
           /\ HeldOf(c) \notin outlived => \A n \in HeldLines(c) : HasLine(part[HeldOf(c)], n)
<1>1. AuditShape /\ OneCompaction /\ FaithfulCopy
  BY DEF AuditInv
<1>2. \A d \in Compactors \ {c} : compactor[d].at = "idle" /\ ~Holding(d)
  BY <1>1 DEF OneCompaction, Holding
<1>3. \A d \in Compactors : \A p, n : ~Removing(d, p, n)
  BY <1>2 DEF Removing
<1>4. Holding(c)
  BY DEF Holding
<1>5. PICK q \in Invocations, i \in Slots : compactor[c].file = <<q, i>>
  BY <1>1, <1>4 DEF AuditShape, AuditFiles
<1>6. HeldOf(c) = q /\ compactor[c].file[2] = i
  BY <1>5 DEF HeldOf
<1>7. /\ HeldOf(c) \notin outlived => HeldLines(c) = part[HeldOf(c)][compactor[c].file[2]].lines
      /\ HeldLines(c) \subseteq 1 .. written[HeldOf(c)]
  BY <1>1, <1>4 DEF FaithfulCopy
<1>8. HeldLines(c) \in SUBSET Nat
  BY <1>7
<1> QED BY <1>2, <1>3, <1>6, <1>7, <1>8 DEF HasLine

\* A rotation and a write, or as much of them as was done.
LEMMA LogTaken ==
    ASSUME AuditShape, NEW k \in Nat, NEW q \in Invocations, NEW S \in SUBSET Nat,
           NEW half \in BOOLEAN, auditLog' = LogPlus(Shifted(auditLog, k, NoLog), q, S, half)
    PROVE  /\ auditLog' \in [Slots -> LogFiles]
           /\ \A p, n : Logged(auditLog, p, n) => Logged(auditLog', p, n)
                  \/ (k <= MaxFiles /\ <<p, n>> \in EntriesOf(auditLog[MaxFiles]))
           /\ \A p, n : Logged(auditLog', p, n) => Logged(auditLog, p, n) \/ (p = q /\ n \in S)
           /\ \A n \in Readable(Shifted(auditLog, k, NoLog)[0].torn, S) : Logged(auditLog', q, n)
           /\ \A p, n : OnePlace(auditLog, p, n) /\ (p = q /\ n \in S => ~Logged(auditLog, p, n))
                 => OnePlace(auditLog', p, n)
<1> DEFINE ls == Shifted(auditLog, k, NoLog)
<1>1. /\ ls \in [Slots -> LogFiles]
      /\ \A p, n : Logged(ls, p, n) => Logged(auditLog, p, n)
      /\ \A p, n : Logged(auditLog, p, n)
            => Logged(ls, p, n) \/ (k <= MaxFiles /\ <<p, n>> \in EntriesOf(auditLog[MaxFiles]))
      /\ \A p, n : OnePlace(auditLog, p, n) => OnePlace(ls, p, n)
  <2>1. auditLog \in [Slots -> LogFiles]
    BY DEF AuditShape
  <2> QED BY <2>1, LogsShift
<1> DEFINE gs == auditLog'
<1> HIDE DEF ls, gs
<1>2. gs = LogPlus(ls, q, S, half)
  BY DEF ls, gs
<1>3. /\ gs \in [Slots -> LogFiles]
      /\ \A p, n : Logged(ls, p, n) => Logged(gs, p, n)
      /\ \A p, n : Logged(gs, p, n) => Logged(ls, p, n) \/ (p = q /\ n \in S)
      /\ \A n \in Readable(ls[0].torn, S) : Logged(gs, q, n)
      /\ \A p, n : OnePlace(ls, p, n) /\ (p = q /\ n \in S => ~Logged(ls, p, n)) => OnePlace(gs, p, n)
  <2>1. PICK l, g : l = ls /\ g = gs
    OBVIOUS
  <2>2. l \in LogSets /\ S \in LineSets /\ g = LogPlus(l, q, S, half)
    BY <1>1, <1>2, <2>1 DEF LogSets, LineSets
  <2>3. /\ g \in LogSets
        /\ \A p, n : Logged(l, p, n) => Logged(g, p, n)
        /\ \A p, n : Logged(g, p, n) => Logged(l, p, n) \/ (p = q /\ n \in S)
        /\ \A n \in Readable(l[0].torn, S) : Logged(g, q, n)
        /\ \A p, n : OnePlace(l, p, n) /\ (p = q /\ n \in S => ~Logged(l, p, n)) => OnePlace(g, p, n)
    BY <2>2, LogGrows
  <2> QED BY <2>1, <2>3 DEF LogSets
<1>4. \A p, n : Logged(auditLog, p, n)
         => Logged(gs, p, n) \/ (k <= MaxFiles /\ <<p, n>> \in EntriesOf(auditLog[MaxFiles]))
  BY <1>1, <1>3
<1>5. \A p, n : Logged(gs, p, n) => Logged(auditLog, p, n) \/ (p = q /\ n \in S)
  BY <1>1, <1>3
<1>6. \A p, n : OnePlace(auditLog, p, n) /\ (p = q /\ n \in S => ~Logged(auditLog, p, n)) => OnePlace(gs, p, n)
  BY <1>1, <1>3
<1> QED BY <1>3, <1>4, <1>5, <1>6 DEF ls, gs

\* The compactor goes on to the removal, and all it holds is in audit.log, or in X.
AppendedAll(c, e, k, S, X) ==
    /\ e.at = "remove" /\ e.file = compactor[c].file /\ e.inHand = compactor[c].inHand
    /\ S = HeldLines(c)
    /\ \A n \in S : n \in Readable(Shifted(auditLog, k, NoLog)[0].torn, S) \/ <<HeldOf(c), n>> \in X

\* A compactor writes to audit.log, all of what it holds or, when it fails, some of it.
LEMMA CompactorAppends ==
    ASSUME AuditInv, NEW c \in Compactors, compactor[c].at = "append",
           NEW k \in Nat, NEW S \in SUBSET HeldLines(c), NEW half \in BOOLEAN,
           auditLog' = LogPlus(Shifted(auditLog, k, NoLog), HeldOf(c), S, half),
           NEW X, X \subseteq {HeldOf(c)} \X HeldLines(c),
           discarded' = discarded \cup DroppedLog(k) \cup X,
           NEW e \in CompactorStates, compactor' = [compactor EXCEPT ![c] = e],
           AppendedAll(c, e, k, S, X) \/ (e.at = "idle" /\ (S # {} => HeldOf(c) \in cut')),
           UNCHANGED <<part, writer, written, outlived>>,
           cut \subseteq cut', cut' \subseteq Invocations, OneCompaction',
           auditCount' \in 0 .. MaxCompactions, auditFaults' \in 0 .. MaxAuditFaults
    PROVE  AuditInv'
<1>1. AuditShape /\ Bounded /\ OneCompaction /\ FilesSound /\ LogWritten /\ FaithfulCopy
      /\ NothingLost /\ NotTwice
  BY DEF AuditInv
<1> USE DEF AppendedAll
<1> DEFINE q == HeldOf(c)
           gs == auditLog'
<1>2. /\ \A d \in Compactors \ {c} : compactor[d].at = "idle" /\ ~Holding(d)
      /\ \A d \in Compactors : \A p, n : ~Removing(d, p, n)
      /\ q \in Invocations
      /\ HeldLines(c) \in SUBSET Nat /\ HeldLines(c) \subseteq 1 .. written[q]
      /\ q \notin outlived => \A n \in HeldLines(c) : HasLine(part[q], n)
  BY HandAlone
<1>3. /\ gs \in [Slots -> LogFiles]
      /\ \A p, n : Logged(auditLog, p, n)
            => Logged(gs, p, n) \/ (k <= MaxFiles /\ <<p, n>> \in EntriesOf(auditLog[MaxFiles]))
      /\ \A p, n : Logged(gs, p, n) => Logged(auditLog, p, n) \/ (p = q /\ n \in S)
      /\ \A n \in Readable(Shifted(auditLog, k, NoLog)[0].torn, S) : Logged(gs, q, n)
      /\ \A p, n : OnePlace(auditLog, p, n) /\ (p = q /\ n \in S => ~Logged(auditLog, p, n))
            => OnePlace(gs, p, n)
  <2>1. AuditShape /\ S \in SUBSET Nat /\ q \in Invocations
    BY <1>1, <1>2
  <2>2. auditLog' = LogPlus(Shifted(auditLog, k, NoLog), q, S, half)
    OBVIOUS
  <2> HIDE DEF q
  <2> QED BY <2>1, <2>2, LogTaken
<1>4. /\ \A p, n : Logged(auditLog, p, n) => Logged(gs, p, n) \/ <<p, n>> \in discarded'
      /\ \A p, n : <<p, n>> \in DroppedLog(k) => Logged(auditLog, p, n)
      /\ DroppedLog(k) \subseteq Invocations \X Nat
  <2>1. \A p, n : <<p, n>> \in DroppedLog(k) <=> k <= MaxFiles /\ <<p, n>> \in EntriesOf(auditLog[MaxFiles])
    BY DEF DroppedLog
  <2>2. \A p, n : <<p, n>> \in EntriesOf(auditLog[MaxFiles]) => Logged(auditLog, p, n)
    BY SlotsAre DEF EntriesOf, Logged, HasAt
  <2>3. DroppedLog(k) \subseteq Invocations \X Nat
    <3>1. auditLog[MaxFiles] \in LogFiles
      BY <1>1, SlotsAre DEF AuditShape
    <3>2. EntriesOf(auditLog[MaxFiles]) \subseteq Invocations \X Nat
      <4> DEFINE b == auditLog[MaxFiles].batches
      <4>1. b \in Seq(SUBSET (Invocations \X Nat))
        BY <3>1 DEF LogFiles
      <4>2. \A l \in DOMAIN b : b[l] \in SUBSET (Invocations \X Nat)
        BY <4>1
      <4> QED BY <4>2 DEF EntriesOf
    <3> QED BY <3>2 DEF DroppedLog
  <2> QED BY <1>3, <2>1, <2>2, <2>3
<1>5. /\ compactor \in [Compactors -> CompactorStates] /\ compactor' \in [Compactors -> CompactorStates]
      /\ compactor'[c] = e /\ \A d \in Compactors \ {c} : compactor'[d] = compactor[d]
  BY <1>1 DEF AuditShape
<1>6. \A d \in Compactors : Holding(d)' => d = c /\ e.at = "remove"
  BY <1>2, <1>5 DEF Holding
<1>7. e.at = "remove" => HeldOf(c)' = q /\ HeldLines(c)' = HeldLines(c) /\ compactor'[c].file = compactor[c].file
  BY <1>5 DEF HeldOf, HeldLines
<1> HIDE DEF gs
<1>8. AuditShape'
  <2>1. compactor[c].file \in AuditFiles
    BY <1>1 DEF AuditShape, Holding
  <2>2. \A d \in Compactors : Holding(d)' => compactor'[d].file \in AuditFiles
    BY <1>6, <1>7, <2>1
  <2>3. discarded' \subseteq Invocations \X Nat
    BY <1>1, <1>2, <1>4 DEF AuditShape
  <2>4. auditLog' \in [Slots -> LogFiles]
    BY <1>3 DEF gs
  <2> QED BY <1>1, <1>5, <2>2, <2>3, <2>4 DEF AuditShape
<1>9. Bounded' /\ FilesSound'
  BY <1>1 DEF Bounded, FilesSound
<1>10. LogWritten'
  <2> SUFFICES ASSUME NEW p, NEW n, Logged(gs, p, n) \/ <<p, n>> \in discarded'
               PROVE  p \in Invocations /\ n \in 1 .. written[p]
    BY DEF LogWritten, gs
  <2>1. Logged(auditLog, p, n) \/ <<p, n>> \in discarded \/ (p = q /\ n \in HeldLines(c))
    BY <1>3, <1>4
  <2> QED BY <1>1, <1>2, <2>1 DEF LogWritten
<1>11. FaithfulCopy'
  <2> SUFFICES ASSUME e.at = "remove"
               PROVE  /\ q \notin outlived => HeldLines(c) = part[q][compactor[c].file[2]].lines
                      /\ HeldLines(c) \subseteq 1 .. written[q]
                      /\ \A n \in HeldLines(c) : Logged(gs, q, n) \/ <<q, n>> \in discarded'
    BY <1>6, <1>7 DEF FaithfulCopy, gs
  <2>1. q \notin outlived => HeldLines(c) = part[q][compactor[c].file[2]].lines
    BY <1>1 DEF FaithfulCopy, Holding
  <2>2. \A n \in HeldLines(c) : Logged(gs, q, n) \/ <<q, n>> \in discarded'
    BY <1>3
  <2> QED BY <1>2, <2>1, <2>2
<1>12. NothingLost'
  <2> SUFFICES ASSUME NEW p \in Invocations \ outlived, NEW n \in 1 .. written[p]
               PROVE  HasLine(part[p], n) \/ Logged(gs, p, n) \/ <<p, n>> \in discarded'
    BY DEF NothingLost, gs
  <2>1. HasLine(part[p], n) \/ Logged(auditLog, p, n) \/ <<p, n>> \in discarded
    BY <1>1 DEF NothingLost
  <2> QED BY <1>4, <2>1
<1>13. NotTwice'
  <2> SUFFICES ASSUME NEW p \in Invocations, p \notin outlived \cup cut', NEW n
               PROVE  /\ OnePlace(gs, p, n)
                      /\ HasLine(part[p], n) /\ Logged(gs, p, n) => \E d \in Compactors : Removing(d, p, n)'
    BY DEF NotTwice, gs
  <2>1. OnePlace(auditLog, p, n) /\ ~(HasLine(part[p], n) /\ Logged(auditLog, p, n))
    BY <1>1, <1>2 DEF NotTwice
  <2>2. p = q /\ n \in S => ~Logged(auditLog, p, n)
    BY <1>2, <2>1
  <2>3. OnePlace(gs, p, n)
    BY <1>3, <2>1, <2>2
  <2>4. ASSUME HasLine(part[p], n), Logged(gs, p, n) PROVE Removing(c, p, n)'
    <3>1. p = q /\ n \in S
      BY <1>3, <2>1, <2>4
    <3>2. e.at = "remove" /\ n \in HeldLines(c)
      BY <3>1
    <3>3. compactor'[c].at = "remove" /\ HeldOf(c)' = p /\ n \in HeldLines(c)'
      BY <1>5, <1>7, <3>1, <3>2
    <3> QED BY <3>3 DEF Removing
  <2> QED BY <2>3, <2>4
<1> QED BY <1>8, <1>9, <1>10, <1>11, <1>12, <1>13 DEF AuditInv

LEMMA AuditAppendPart ==
    ASSUME AuditInv, NEW c \in Compactors, AppendPart(c) PROVE AuditInv'
<1> DEFINE k == IF LogFull(c) THEN 0 ELSE MaxFiles + 1
           logs == Rotation(k)
           S == HeldLines(c)
           q == HeldOf(c)
           half == compactor[c].inHand.torn
           X == {q} \X (S \ Readable(logs[0].torn, S))
           e == [compactor[c] EXCEPT !.at = "remove"]
<1>1. /\ compactor[c].at = "append"
      /\ auditLog' = [logs EXCEPT ![0] = LogWith(@, q, S, half)]
      /\ discarded' = discarded \cup DroppedLog(k) \cup X
      /\ compactor' = [compactor EXCEPT ![c] = e]
      /\ UNCHANGED <<part, writer, written, locked, outlived, cut, auditCount, auditFaults>>
  BY DEF AppendPart, HeldOf, HeldLines
<1>2. auditLog' = LogPlus(Shifted(auditLog, k, NoLog), q, S, half)
  BY <1>1 DEF LogPlus, Rotation
<1>3. k \in Nat
  BY SlotsAre
<1>4. compactor[c] \in CompactorStates
  BY DEF AuditInv, AuditShape
<1>5. half \in BOOLEAN
  BY <1>4 DEF CompactorStates, PartFiles
<1>6. e \in CompactorStates /\ e.at = "remove" /\ e.file = compactor[c].file
      /\ e.inHand = compactor[c].inHand
  BY <1>4 DEF CompactorStates, CompactorStages
<1>7. \A n \in S : n \in Readable(Shifted(auditLog, k, NoLog)[0].torn, S) \/ <<q, n>> \in X
  BY DEF Rotation
<1>8. X \subseteq {q} \X S
  OBVIOUS
<1> HIDE DEF k, X, e, half
<1>9. OneCompaction'
  <2>1. AuditShape /\ OneCompaction /\ locked' \in BOOLEAN /\ locked' = TRUE
    BY <1>1 DEF AuditInv, OneCompaction
  <2> QED BY <1>1, <1>6, <2>1, LockHeld
<1>10. auditCount' \in 0 .. MaxCompactions /\ auditFaults' \in 0 .. MaxAuditFaults
       /\ cut \subseteq cut' /\ cut' \subseteq Invocations
  BY <1>1 DEF AuditInv, AuditShape
<1>11. AppendedAll(c, e, k, S, X)
  BY <1>6, <1>7 DEF AppendedAll
<1>12. /\ S \in SUBSET HeldLines(c) /\ X \subseteq {HeldOf(c)} \X HeldLines(c)
       /\ auditLog' = LogPlus(Shifted(auditLog, k, NoLog), HeldOf(c), S, half)
       /\ UNCHANGED <<part, writer, written, outlived>>
  BY <1>1, <1>2, <1>8
<1> HIDE DEF S
<1> QED
  BY <1>1, <1>3, <1>5, <1>6, <1>9, <1>10, <1>11, <1>12, CompactorAppends

\* The append stops, and the compactor is idle.
LEMMA AuditAppendStops ==
    ASSUME AuditInv, NEW c \in Compactors, compactor[c].at = "append", AppendStops(c),
           compactor' = [compactor EXCEPT ![c] = IdleCompactor],
           UNCHANGED <<part, writer, written, outlived, auditCount>>,
           auditFaults < MaxAuditFaults, auditFaults' = auditFaults + 1, OneCompaction'
    PROVE  AuditInv'
<1> DEFINE q == HeldOf(c)
           some(m) == {n \in HeldLines(c) : n <= m}
<1>1. PICK k \in 0 .. MaxFiles + 1, m \in {0} \cup HeldLines(c), half \in BOOLEAN :
         /\ auditLog' = [Rotation(k) EXCEPT ![0] = LogWith(@, q, some(m), half)]
         /\ discarded' = discarded \cup DroppedLog(k)
         /\ cut' = CutOff(c, some(m))
  BY DEF AppendStops, HeldOf, HeldLines
<1> DEFINE S == some(m)
<1>2. auditLog' = LogPlus(Shifted(auditLog, k, NoLog), q, S, half)
  BY <1>1 DEF LogPlus, Rotation
<1>3. k \in Nat /\ S \in SUBSET HeldLines(c)
  BY <1>1
<1> HIDE DEF S
<1>4. cut' = CutOff(c, S)
  BY <1>1 DEF S
<1>5. cut \subseteq cut' /\ cut' \subseteq Invocations /\ (S # {} => q \in cut')
  <2>1. Holding(c)
    BY DEF Holding
  <2> QED BY <1>4, <2>1, CutOffIs
<1> DEFINE X == {}
<1>6. X \subseteq {q} \X HeldLines(c) /\ discarded' = discarded \cup DroppedLog(k) \cup X
  BY <1>1
<1> HIDE DEF X
<1>7. auditCount' \in 0 .. MaxCompactions /\ auditFaults' \in 0 .. MaxAuditFaults
  BY DEF AuditInv, AuditShape
<1> QED BY <1>2, <1>3, <1>5, <1>6, <1>7, IdleIs, CompactorAppends

LEMMA AuditAppendFails ==
    ASSUME AuditInv, NEW c \in Compactors, AppendFails(c) PROVE AuditInv'
<1> USE DEF AppendFails
<1>1. OneCompaction'
  BY IdleIs, LockHeld DEF AuditInv
<1> QED BY <1>1, AuditAppendStops

LEMMA AuditCompactorDies ==
    ASSUME AuditInv, NEW c \in Compactors, CompactorDies(c) PROVE AuditInv'
<1>1. /\ compactor[c].at # "idle" /\ compactor' = [compactor EXCEPT ![c] = IdleCompactor]
      /\ auditFaults < MaxAuditFaults /\ auditFaults' = auditFaults + 1
      /\ UNCHANGED <<part, writer, written, locked, outlived, auditCount>>
  BY DEF CompactorDies
<1>2. OneCompaction'
  <2>1. AuditShape /\ OneCompaction /\ locked' \in BOOLEAN
    BY <1>1 DEF AuditInv, OneCompaction
  <2> QED BY <1>1, <2>1, IdleIs, LockHeld
<1>3. CASE compactor[c].at = "append" /\ AppendStops(c)
  BY <1>1, <1>2, <1>3, AuditAppendStops
<1>4. CASE /\ compactor[c].at = "remove" /\ cut' = CutOff(c, HeldLines(c))
           /\ UNCHANGED <<auditLog, discarded>>
  <2>1. Holding(c)
    BY <1>4 DEF Holding
  <2>2. cut \subseteq cut' /\ cut' \subseteq Invocations /\ (HeldLines(c) # {} => HeldOf(c) \in cut')
    BY <1>4, <2>1, CutOffIs
  <2>3. auditCount' \in 0 .. MaxCompactions /\ auditFaults' \in 0 .. MaxAuditFaults
    BY <1>1 DEF AuditInv, AuditShape
  <2> QED BY <1>1, <1>2, <1>4, <2>2, <2>3, IdleIs, CompactorMoves
<1>5. CASE compactor[c].at = "read" /\ UNCHANGED <<auditLog, discarded, cut>>
  <2>1. auditCount' \in 0 .. MaxCompactions /\ auditFaults' \in 0 .. MaxAuditFaults
        /\ cut \subseteq cut' /\ cut' \subseteq Invocations
    BY <1>1, <1>5 DEF AuditInv, AuditShape
  <2> QED BY <1>1, <1>2, <1>5, <2>1, IdleIs, CompactorMoves
<1> QED BY <1>3, <1>4, <1>5 DEF CompactorDies, HeldLines

LEMMA AuditRemovePart ==
    ASSUME AuditInv, NEW c \in Compactors, RemovePart(c) PROVE AuditInv'
<1>1. AuditShape /\ Bounded /\ OneCompaction /\ FilesSound /\ LogWritten /\ FaithfulCopy
      /\ NothingLost /\ NotTwice
  BY DEF AuditInv
<1> DEFINE e == [compactor[c] EXCEPT !.at = "read"]
           f == compactor[c].file
<1>2. /\ compactor[c].at = "remove"
      /\ part' = [part EXCEPT ![f[1]][f[2]] = NoPart]
      /\ writer' = IF f[2] = 0 THEN [writer EXCEPT ![f[1]].linked = FALSE] ELSE writer
      /\ compactor' = [compactor EXCEPT ![c] = e]
      /\ UNCHANGED <<written, auditLog, locked, outlived, discarded, cut, auditCount, auditFaults>>
  BY DEF RemovePart
<1>3. Holding(c)
  BY <1>2 DEF Holding
<1>4. PICK p \in Invocations, i \in Slots : f = <<p, i>>
  BY <1>1, <1>3 DEF AuditShape, AuditFiles
<1>5. f[1] = p /\ f[2] = i /\ HeldOf(c) = p
  BY <1>4 DEF HeldOf
<1> DEFINE gs == [part[p] EXCEPT ![i] = NoPart]
<1>6. /\ part[p] \in [Slots -> PartFiles] /\ part \in [Invocations -> [Slots -> PartFiles]]
      /\ NoOverlap(part[p]) /\ EmptyIfMissing(part[p])
  BY <1>1 DEF AuditShape, FilesSound
<1>7. part' = [part EXCEPT ![p] = gs]
  BY <1>2, <1>5
<1>8. /\ gs[i] = NoPart /\ \A j \in Slots : j # i => gs[j] = part[p][j]
      /\ gs \in [Slots -> PartFiles]
  BY <1>6, EmptyFiles
<1> HIDE DEF gs
<1>9. /\ part'[p] = gs /\ \A q \in Invocations \ {p} : part'[q] = part[q]
      /\ part' \in [Invocations -> [Slots -> PartFiles]]
  BY <1>6, <1>7, <1>8
<1>10. NoOverlap(gs) /\ EmptyIfMissing(gs) /\ \A n : HasLine(gs, n) => HasLine(part[p], n) /\ n \notin part[p][i].lines
  <2>1. NoOverlap(gs)
    BY <1>6, <1>8, EmptyFiles DEF NoOverlap
  <2>2. EmptyIfMissing(gs)
    BY <1>6, <1>8 DEF EmptyIfMissing
  <2>3. ASSUME NEW n, HasLine(gs, n) PROVE HasLine(part[p], n) /\ n \notin part[p][i].lines
    <3>1. PICK j \in Slots : n \in gs[j].lines
      BY <2>3 DEF HasLine
    <3>2. j # i /\ n \in part[p][j].lines
      BY <1>8, <3>1, EmptyFiles
    <3> QED BY <1>6, <3>2 DEF NoOverlap, HasLine
  <2> QED BY <2>1, <2>2, <2>3
<1>11. \A n : HasLine(part[p], n) => HasLine(gs, n) \/ n \in part[p][i].lines
  BY <1>8 DEF HasLine
<1>12. /\ p \notin outlived => HeldLines(c) = part[p][i].lines
       /\ \A n \in HeldLines(c) : Logged(auditLog, p, n) \/ <<p, n>> \in discarded
  BY <1>1, <1>2, <1>3, <1>5 DEF FaithfulCopy
<1>13. e \in CompactorStates /\ e.at = "read"
  BY <1>1 DEF AuditShape, CompactorStates, CompactorStages
<1> HIDE DEF e
<1>14. /\ compactor' \in [Compactors -> CompactorStates] /\ compactor'[c] = e
       /\ \A d \in Compactors \ {c} : compactor'[d] = compactor[d] /\ compactor[d].at = "idle"
  BY <1>1, <1>2, <1>13 DEF AuditShape, OneCompaction
<1>15. \A d \in Compactors : ~Holding(d)'
  BY <1>13, <1>14 DEF Holding
<1>16. writer' \in [Invocations -> WriterStates] /\ \A q \in Invocations : writer'[q].size = writer[q].size
  BY <1>1, <1>2, <1>5 DEF AuditShape, WriterStates
<1>17. AuditShape'
  BY <1>1, <1>2, <1>9, <1>14, <1>15, <1>16 DEF AuditShape
<1>18. Bounded'
  BY <1>1, <1>2, <1>16 DEF Bounded
<1>19. OneCompaction'
  <2>1. AuditShape /\ OneCompaction /\ locked' \in BOOLEAN /\ locked' = TRUE
    BY <1>1, <1>2 DEF OneCompaction
  <2> QED BY <1>2, <1>13, <2>1, LockHeld
<1>20. FilesSound'
  BY <1>1, <1>2, <1>9, <1>10 DEF FilesSound
<1>21. LogWritten'
  BY <1>1, <1>2 DEF LogWritten
<1>22. FaithfulCopy'
  BY <1>15 DEF FaithfulCopy
<1>23. NothingLost'
  <2> SUFFICES ASSUME NEW q \in Invocations \ outlived, NEW n \in 1 .. written[q]
               PROVE  HasLine(part'[q], n) \/ Logged(auditLog, q, n) \/ <<q, n>> \in discarded
    BY <1>2 DEF NothingLost
  <2>1. HasLine(part[q], n) \/ Logged(auditLog, q, n) \/ <<q, n>> \in discarded
    BY <1>1 DEF NothingLost
  <2>2. CASE q = p
    BY <1>9, <1>11, <1>12, <2>1, <2>2
  <2>3. CASE q # p
    BY <1>9, <2>1, <2>3
  <2> QED BY <2>2, <2>3
<1>24. NotTwice'
  <2> SUFFICES ASSUME NEW q \in Invocations, q \notin outlived \cup cut, NEW n
               PROVE  OnePlace(auditLog, q, n) /\ ~(HasLine(part'[q], n) /\ Logged(auditLog, q, n))
    BY <1>2 DEF NotTwice
  <2>1. /\ OnePlace(auditLog, q, n)
        /\ HasLine(part[q], n) /\ Logged(auditLog, q, n) => \E d \in Compactors : Removing(d, q, n)
    BY <1>1 DEF NotTwice
  <2>2. ASSUME HasLine(part'[q], n), Logged(auditLog, q, n) PROVE FALSE
    <3>1. HasLine(part[q], n)
      BY <1>9, <1>10, <2>2
    <3>2. PICK d \in Compactors : Removing(d, q, n)
      BY <2>1, <2>2, <3>1
    <3>3. d = c /\ q = p /\ n \in HeldLines(c)
      BY <1>5, <1>14, <3>2 DEF Removing
    <3> QED BY <1>9, <1>10, <1>12, <2>2, <3>3
  <2> QED BY <2>1, <2>2
<1> QED
  BY <1>17, <1>18, <1>19, <1>20, <1>21, <1>22, <1>23, <1>24 DEF AuditInv

LEMMA AuditNext == AuditInv /\ [AuditPartsNext]_auditVars => AuditInv'
<1> SUFFICES ASSUME AuditInv, [AuditPartsNext]_auditVars PROVE AuditInv'
  OBVIOUS
<1>1. CASE UNCHANGED auditVars
  BY <1>1 DEF auditVars, AuditInv, AuditShape, Bounded, OneCompaction, FilesSound, LogWritten,
     FaithfulCopy, NothingLost, NotTwice, Removing, Holding, HeldLines, HeldOf
<1>2. CASE AuditPartsNext
  <2>1. ASSUME NEW p \in Invocations,
               WriteEntry(p) \/ WriteShort(p) \/ WriteLost(p) \/ RotationFails(p) \/ GoQuiet(p)
        PROVE  AuditInv'
    BY <2>1, AuditWrite, AuditShort, AuditWriteLost, AuditRotationFails, AuditQuiet
  <2>2. ASSUME NEW c \in Compactors,
               \/ StartCompaction(c) \/ ReadPart(c) \/ SkipPart(c) \/ AppendPart(c) \/ AppendFails(c)
               \/ RemovePart(c) \/ RemoveFails(c) \/ EndCompaction(c) \/ CompactorDies(c)
        PROVE  AuditInv'
    BY <2>2, AuditStartCompaction, AuditReadPart, AuditSkipPart, AuditAppendPart, AuditAppendFails,
       AuditRemovePart, AuditRemoveFails, AuditEndCompaction, AuditCompactorDies
  <2> QED BY <1>2, <2>1, <2>2 DEF AuditPartsNext
<1> QED BY <1>1, <1>2

LEMMA FoundAtIs ==
    ASSUME NEW p, NEW n, NEW a
    PROVE  a \in FoundAt(p, n) <=> \E i \in Slots : \E k : a = <<i, k>> /\ HasAt(auditLog, i, k, p, n)
BY DEF FoundAt, HasAt

LEMMA AuditKept == AuditInv => EntriesKept /\ EntriesOnce
<1> SUFFICES ASSUME AuditInv PROVE EntriesKept /\ EntriesOnce
  OBVIOUS
<1>1. \A p, n : InParts(p, n) <=> HasLine(part[p], n)
  BY DEF InParts, HasLine
<1>2. \A p, n : FoundAt(p, n) # {} <=> Logged(auditLog, p, n)
  BY FoundAtIs DEF Logged
<1>3. EntriesKept
  BY <1>1, <1>2 DEF EntriesKept, AuditInv, NothingLost
<1>4. EntriesOnce
  <2> SUFFICES ASSUME NEW p \in Invocations \ (outlived \cup cut), NEW n \in 1 .. written[p]
               PROVE  /\ \A a, b \in FoundAt(p, n) : a = b
                      /\ FoundAt(p, n) # {} /\ InParts(p, n)
                            => \E c \in Compactors : compactor[c].at = "remove" /\ compactor[c].file[1] = p
    BY DEF EntriesOnce
  <2>1. /\ OnePlace(auditLog, p, n)
        /\ HasLine(part[p], n) /\ Logged(auditLog, p, n) => \E c \in Compactors : Removing(c, p, n)
    BY DEF AuditInv, NotTwice
  <2>2. ASSUME NEW a \in FoundAt(p, n), NEW b \in FoundAt(p, n) PROVE a = b
    <3>1. PICK i \in Slots : \E k : a = <<i, k>> /\ HasAt(auditLog, i, k, p, n)
      BY FoundAtIs
    <3>2. PICK j \in Slots : \E k : b = <<j, k>> /\ HasAt(auditLog, j, k, p, n)
      BY FoundAtIs
    <3>3. PICK k, l : /\ a = <<i, k>> /\ HasAt(auditLog, i, k, p, n)
                      /\ b = <<j, l>> /\ HasAt(auditLog, j, l, p, n)
      BY <3>1, <3>2
    <3> QED BY <2>1, <3>3 DEF OnePlace
  <2>3. FoundAt(p, n) # {} /\ InParts(p, n)
           => \E c \in Compactors : compactor[c].at = "remove" /\ compactor[c].file[1] = p
    BY <1>1, <1>2, <2>1 DEF Removing, HeldOf
  <2> QED BY <2>2, <2>3
<1> QED BY <1>3, <1>4

\* Readers find every entry of an invocation in audit.log, in a part, or in what these were
\* rotated to, but for the exceptions EntriesKept names: CompactAudit appends what it read
\* before it removes it, and a rotation moves what it does not drop.
THEOREM EntriesKeptCorrect == AuditPartsSpec => []EntriesKept
<1> QED
  BY AuditStart, AuditNext, AuditKept, PTL DEF AuditPartsSpec

\* They find it once, but for the exceptions EntriesOnce names: the lock keeps a second
\* compaction out, and a part that was appended is removed before the next is read.
THEOREM EntriesOnceCorrect == AuditPartsSpec => []EntriesOnce
<1> QED
  BY AuditStart, AuditNext, AuditKept, PTL DEF AuditPartsSpec

\* AuditParts keeps its types: what the files and the logs hold was written, by whom they say.
THEOREM AuditTypeCorrect == AuditPartsSpec => []AuditPartsTypeOK
<1>1. AuditInv => AuditPartsTypeOK
  <2> SUFFICES ASSUME AuditInv PROVE AuditPartsTypeOK
    OBVIOUS
  <2>1. AuditShape /\ Bounded /\ OneCompaction /\ FilesSound /\ LogWritten
    BY DEF AuditInv
  <2>2. ASSUME NEW p, NEW n, p \in Invocations, n \in 1 .. written[p]
        PROVE  <<p, n>> \in EntriesWritten
    BY <2>2 DEF EntriesWritten
  <2>3. ASSUME NEW i \in Slots PROVE EntriesOf(auditLog[i]) \subseteq EntriesWritten
    <3> SUFFICES ASSUME NEW x \in EntriesOf(auditLog[i]) PROVE x \in EntriesWritten
      OBVIOUS
    <3> DEFINE b == auditLog[i].batches
    <3>1. b \in Seq(SUBSET (Invocations \X Nat))
      BY <2>1 DEF AuditShape, LogFiles
    <3>2. PICK k \in DOMAIN b : x \in b[k]
      BY DEF EntriesOf
    <3>3. b[k] \in SUBSET (Invocations \X Nat)
      <4> HIDE DEF b
      <4> QED BY <3>1, <3>2
    <3>4. PICK p \in Invocations, n \in Nat : x = <<p, n>>
      BY <3>2, <3>3
    <3>5. Logged(auditLog, p, n)
      BY <3>2, <3>4 DEF Logged, HasAt
    <3> QED BY <2>1, <2>2, <3>4, <3>5 DEF LogWritten
  <2>4. discarded \subseteq EntriesWritten
    <3> SUFFICES ASSUME NEW x \in discarded PROVE x \in EntriesWritten
      OBVIOUS
    <3>1. PICK p \in Invocations, n \in Nat : x = <<p, n>>
      BY <2>1 DEF AuditShape
    <3> QED BY <2>1, <2>2, <3>1 DEF LogWritten
  <2>5. ASSUME NEW p \in Invocations
        PROVE  /\ written[p] \in 0 .. MaxEntries[p]
               /\ writer[p] \in [up : BOOLEAN, linked : BOOLEAN, size : 0 .. written[p]]
    <3>1. written[p] \in Nat /\ written[p] <= MaxEntries[p] /\ writer[p].size <= written[p]
          /\ writer[p] \in WriterStates /\ MaxEntries[p] \in Nat
      BY <2>1 DEF AuditShape, Bounded
    <3> QED BY <3>1 DEF WriterStates
  <2>6. ASSUME NEW p \in Invocations, NEW i \in Slots
        PROVE  /\ part[p][i] \in [there : BOOLEAN, fresh : BOOLEAN, torn : BOOLEAN,
                                  lines : SUBSET (1 .. written[p])]
               /\ part[p][i].there \/ part[p][i] = NoPart
    <3>1. part[p][i] \in PartFiles
      BY <2>1 DEF AuditShape
    <3>2. part[p][i].lines \subseteq 1 .. written[p] /\ (part[p][i].there \/ part[p][i] = NoPart)
      BY <2>1 DEF FilesSound, EmptyIfMissing, HasLine
    <3> QED BY <3>1, <3>2 DEF PartFiles
  <2>7. \A c \in Compactors : compactor[c].at \in {"idle", "read", "append", "remove"}
    BY <2>1 DEF AuditShape, CompactorStates, CompactorStages
  <2> QED
    BY <2>1, <2>3, <2>4, <2>5, <2>6, <2>7 DEF AuditPartsTypeOK, AuditShape, OneCompaction
<1> QED
  BY <1>1, AuditStart, AuditNext, PTL DEF AuditPartsSpec

HIDE AuditPartsAssumption DEF AuditPartsAssumption

-----------------------------------------------------------------------------
(* FrameLife: what the invariant says.                                     *)

\* The first of some files, in the order the directories are walked.
FirstPlace(S) == CHOOSE l \in S : \A m \in S : Rank(l[1]) <= Rank(m[1])

Lives == {"stub", "active", "archived"}
OwnFiles == {NoOwn} \cup [id : Ids, life : Lives \cup {"cut"}]
Works == [op : {"idle", "new", "promote", "archive", "revive"},
          draft : (1 .. MaxDays) \X (Slugs \cup {"none"}),
          src : FramePlaces \cup {Gone}, dst : FramePlaces \cup {Gone},
          new : {NoOwn} \cup [id : Ids, life : Lives],
          at : {"end", "draft", "open", "fill", "remove", "mark"},
          alone : BOOLEAN, lost : BOOLEAN]

\* What each operation does is decided when it begins.
AuthorCourse(w) ==
    /\ w.op = "idle" <=> w.at = "end"
    /\ w.op = "new" <=> w.at = "draft"
    /\ w.op \in {"idle", "new"} => w.new = NoOwn
    /\ w.op \in {"new", "promote"} => w.draft \in (1 .. MaxDays) \X Slugs
    /\ w.op \in {"promote", "archive", "revive"} =>
          /\ {w.src, w.dst} \subseteq FramePlaces
          /\ w.new.id \in Ids /\ w.new.life \in Lives
          /\ w.op = "archive" <=> w.new.life = "archived"
    /\ w.op = "promote" => w.dst = w.src
    /\ w.at = "remove" => w.dst # w.src
    /\ w.at = "mark" => w.op = "promote"
    /\ w.lost => w.at \in {"fill", "remove", "mark"}

FrameShape ==
    /\ own \in [FramePlaces -> OwnFiles]
    /\ drafts \in [(1 .. MaxDays) \X Slugs ->
                      {NoDraft} \cup [status : {"cut", "draft", "promoted"}, to : Ids \cup {Gone}]]
    /\ today \in 1 .. MaxDays
    /\ author \in [Authors -> Works] /\ \A p \in Authors : AuthorCourse(author[p])
    /\ had \cup clobbered \cup torn \cup crossed \cup out \cup aside \subseteq Ids

AuthorBusy(p, id) == id \in Ids /\ author[p].new.id = id

\* Two commands at one frame know of each other.
Aware ==
    \A p, q \in Authors, id \in Ids :
        p # q /\ AuthorBusy(p, id) /\ AuthorBusy(q, id) => id \in crossed /\ ~author[p].alone

\* What a command opened is the frame's own, or was taken by another.
Opened(p) ==
    LET w == author[p]
    IN  /\ w.at = "fill" /\ ~w.lost /\ w.new.id \notin clobbered => own[w.dst].id = w.new.id
        /\ w.lost => w.new.id \in clobbered \/ (w.new.id \in crossed /\ ~w.alone)

\* A move has the frame at its old place until it has it at the new one.
Moving(p) ==
    LET w == author[p]
    IN  w.new.id \notin clobbered \cup crossed /\ Moves(p) =>
          /\ w.at \in {"open", "fill"} => own[w.src].id = w.new.id /\ own[w.src].life \in Lives
          /\ w.at = "remove" => own[w.dst].id = w.new.id /\ own[w.dst].life \in Lives

InSome(id) == \E l \in FramePlaces : own[l].id = id /\ own[l].life \in Lives

FrameStays(id) ==
    \/ InSome(id)
    \/ id \in clobbered \cup torn \cup crossed
    \/ \E p \in Authors : At(p, "fill") /\ author[p].new.id = id /\ ~Moves(p)

HadKept ==
    /\ \A id \in had : FrameStays(id)
    /\ \A i \in DOMAIN drafts : drafts[i].status = "promoted" => drafts[i].to \in had
    /\ \A p \in Authors : At(p, "mark") => author[p].new.id \in had

\* An archive that works alone is at the file that is loaded.
ArchivingFrame(p) ==
    LET w == author[p]
    IN  w.op = "archive" /\ w.alone /\ w.new.id \notin clobbered =>
          /\ ~Moves(p) /\ w.at \in {"open", "fill"} =>
                w.src = FirstPlace(Copies(w.new.id) \cup {w.src})
          /\ ~Moves(p) /\ w.at = "open" => own[w.src].id = w.new.id
          /\ Moves(p) /\ w.at = "remove" => own[w.dst] = w.new

OutOfUse ==
    /\ \A id \in out, p \in Authors : ~AuthorBusy(p, id)
    /\ \A id \in out \ (aside \cup clobbered) : AtCheck(id) # "project"

FrameInv ==
    /\ FrameShape /\ Aware
    /\ \A p \in Authors : Opened(p) /\ Moving(p) /\ ArchivingFrame(p)
    /\ HadKept /\ OutOfUse

USE FrameLifeAssumption DEF FrameLifeAssumption

LEMMA RankIs == ASSUME NEW dir \in DirSet PROVE Rank(dir) \in Nat
<1>1. \E i \in DOMAIN Directories : Directories[i] = dir
  BY DEF DirSet
<1>2. Rank(dir) \in DOMAIN Directories
  BY <1>1 DEF Rank
<1>3. DOMAIN Directories \subseteq Nat
  BY DOMAIN Directories = 1 .. Len(Directories), Len(Directories) \in Nat
<1> QED
  BY <1>2, <1>3

LEMMA FirstIs ==
    ASSUME NEW S \in SUBSET FramePlaces, S # {}
    PROVE  FirstPlace(S) \in S /\ \A m \in S : Rank(FirstPlace(S)[1]) <= Rank(m[1])
<1> DEFINE Before == {ss \in Nat \X Nat : ss[1] < ss[2]}
           Ranks == {Rank(l[1]) : l \in S}
<1>1. \A l \in S : Rank(l[1]) \in Nat
  BY RankIs DEF FramePlaces
<1>2. IsWellFoundedOn(Before, Nat)
  BY NatLessThanWellFounded DEF OpToRel
<1>3. Ranks \subseteq Nat /\ Ranks # {}
  BY <1>1
<1>4. PICK n \in Ranks : \A k \in Ranks : <<k, n>> \notin Before
  <2> HIDE DEF Before, Ranks
  <2> QED
    BY <1>2, <1>3, WFMin
<1>5. \A k \in Ranks : n <= k
  <2> TAKE k \in Ranks
  <2>1. k \in Nat /\ n \in Nat /\ <<k, n>> \notin Before
    BY <1>3, <1>4
  <2> QED
    BY <2>1
<1>6. PICK l \in S : Rank(l[1]) = n
  BY <1>4
<1>7. \A m \in S : Rank(l[1]) <= Rank(m[1])
  BY <1>5, <1>6
<1> QED
  BY <1>6, <1>7 DEF FirstPlace

LEMMA PlacesAre ==
    /\ Ids \subseteq FramePlaces /\ Gone \notin Ids
    /\ \A l \in FramePlaces : <<"history", l[2]>> \in FramePlaces /\ <<"frames", l[2]>> \in FramePlaces
BY DEF Ids, FramePlaces, Categories

LEMMA OwnFilesAre ==
    /\ NoOwn \in OwnFiles /\ NoOwn.id = Gone /\ NoOwn.life = "none"
    /\ \A id \in Ids, life \in Lives \cup {"cut"} :
          OwnFile(id, life) \in OwnFiles /\ OwnFile(id, life).id = id /\ OwnFile(id, life).life = life
    /\ \A f \in OwnFiles : f.id \in Ids \cup {Gone}
BY DEF OwnFiles, NoOwn, OwnFile, Lives

LEMMA IdleWork ==
    /\ IdleAuthor \in Works /\ AuthorCourse(IdleAuthor)
    /\ IdleAuthor.at = "end" /\ IdleAuthor.op = "idle" /\ IdleAuthor.new = NoOwn /\ ~IdleAuthor.lost
BY DEF IdleAuthor, Works, AuthorCourse

LEMMA FirstFrames == FrameLifeInit => FrameInv
<1> SUFFICES ASSUME FrameLifeInit PROVE FrameInv
  OBVIOUS
<1>1. PICK ids \in SUBSET Ids :
        own = [l \in FramePlaces |-> IF l \in ids THEN OwnFile(l, "active") ELSE NoOwn]
  BY DEF FrameLifeInit
<1>2. \A p \in Authors : author[p] = IdleAuthor
  BY DEF FrameLifeInit
<1>3. \A l \in FramePlaces : own[l] = NoOwn \/ (l \in Ids /\ own[l] = OwnFile(l, "active"))
  BY <1>1
<1>4. FrameShape
  <2>1. own \in [FramePlaces -> OwnFiles]
    BY <1>1, OwnFilesAre DEF Lives
  <2>2. drafts \in [(1 .. MaxDays) \X Slugs ->
                      {NoDraft} \cup [status : {"cut", "draft", "promoted"}, to : Ids \cup {Gone}]]
    BY DEF FrameLifeInit
  <2>3. author \in [Authors -> Works] /\ \A p \in Authors : AuthorCourse(author[p])
    BY <1>2, IdleWork DEF FrameLifeInit
  <2>4. had \subseteq Ids
    BY <1>3, OwnFilesAre DEF FrameLifeInit, Lives
  <2> QED
    BY <2>1, <2>2, <2>3, <2>4 DEF FrameShape, FrameLifeInit
<1>5. Aware
  BY <1>2, IdleWork, OwnFilesAre, PlacesAre DEF Aware, AuthorBusy
<1>6. \A p \in Authors : Opened(p) /\ Moving(p) /\ ArchivingFrame(p)
  BY <1>2, IdleWork DEF Opened, Moving, ArchivingFrame
<1>7. HadKept
  <2>1. ASSUME NEW id \in had PROVE InSome(id)
    <3>1. PICK l \in FramePlaces : own[l] # NoOwn /\ own[l].id = id
      BY DEF FrameLifeInit
    <3> QED
      BY <1>3, <3>1, OwnFilesAre DEF InSome, Lives
  <2>2. \A i \in DOMAIN drafts : drafts[i].status # "promoted"
    BY DEF FrameLifeInit, NoDraft, DraftFile
  <2>3. \A p \in Authors : ~At(p, "mark")
    BY <1>2, IdleWork DEF At
  <2> QED
    BY <2>1, <2>2, <2>3 DEF HadKept, FrameStays
<1>8. OutOfUse
  BY DEF OutOfUse, FrameLifeInit
<1> QED
  BY <1>4, <1>5, <1>6, <1>7, <1>8 DEF FrameInv

LEMMA LostIs ==
    ASSUME NEW w \in Works
    PROVE  LET u == [w EXCEPT !.lost = TRUE]
           IN  /\ u \in Works /\ u.op = w.op /\ u.src = w.src /\ u.dst = w.dst /\ u.new = w.new
               /\ u.at = w.at /\ u.alone = w.alone /\ u.draft = w.draft /\ u.lost
BY DEF Works

LEMMA AtIs ==
    ASSUME NEW w \in Works, NEW at \in {"end", "draft", "open", "fill", "remove", "mark"}
    PROVE  LET u == [w EXCEPT !.at = at]
           IN  /\ u \in Works /\ u.op = w.op /\ u.src = w.src /\ u.dst = w.dst /\ u.new = w.new
               /\ u.at = at /\ u.alone = w.alone /\ u.draft = w.draft /\ u.lost = w.lost
BY DEF Works

LEMMA AloneIs ==
    ASSUME NEW w \in Works, NEW b \in BOOLEAN
    PROVE  LET u == [w EXCEPT !.alone = b]
           IN  /\ u \in Works /\ u.op = w.op /\ u.src = w.src /\ u.dst = w.dst /\ u.new = w.new
               /\ u.at = w.at /\ u.alone = b /\ u.draft = w.draft /\ u.lost = w.lost
BY DEF Works

-----------------------------------------------------------------------------
(* What one command does to the frames of the others.                      *)

FrameCommand(w) == w.op \in {"promote", "archive", "revive"}

LEMMA AtWork ==
    ASSUME FrameShape, NEW p \in Authors
    PROVE  /\ author[p] \in Works /\ AuthorCourse(author[p])
           /\ author[p].at \in {"open", "fill", "remove", "mark"} => FrameCommand(author[p])
           /\ FrameCommand(author[p]) =>
                 /\ author[p].src \in FramePlaces /\ author[p].dst \in FramePlaces
                 /\ author[p].new.id \in Ids /\ author[p].new.life \in Lives
                 /\ author[p].new \in OwnFiles
           /\ ~FrameCommand(author[p]) => author[p].new = NoOwn /\ author[p].new.id = Gone
<1>1. author[p] \in Works /\ AuthorCourse(author[p])
  BY DEF FrameShape
<1>2. author[p].at \in {"open", "fill", "remove", "mark"} => FrameCommand(author[p])
  BY <1>1 DEF Works, AuthorCourse, FrameCommand
<1>3. FrameCommand(author[p]) =>
         /\ author[p].src \in FramePlaces /\ author[p].dst \in FramePlaces
         /\ author[p].new.id \in Ids /\ author[p].new.life \in Lives
  BY <1>1 DEF AuthorCourse, FrameCommand
<1>4. FrameCommand(author[p]) => author[p].new \in OwnFiles
  BY <1>1, <1>3, OwnFilesAre DEF Works, OwnFiles, Lives
<1>5. ~FrameCommand(author[p]) => author[p].new = NoOwn /\ author[p].new.id = Gone
  BY <1>1, OwnFilesAre DEF Works, AuthorCourse, FrameCommand
<1> QED
  BY <1>1, <1>2, <1>3, <1>4, <1>5

\* A write at l by p, in its frame's name: f is what is there then, unless nobody finds it.
AuthorWrites(p, l, f) ==
    /\ FrameCommand(author[p]) /\ l \in FramePlaces /\ f \in OwnFiles
    /\ f.id \in {author[p].new.id, Gone}
    /\ \/ /\ own' = [own EXCEPT ![l] = f]
          /\ clobbered' = clobbered \cup Victims(p, l)
       \/ f # NoOwn /\ UNCHANGED <<own, clobbered>>
    /\ UNCHANGED <<torn, crossed>>

LEMMA Untouched ==
    ASSUME FrameShape, NEW p \in Authors, NEW l, NEW f, AuthorWrites(p, l, f),
           NEW id \in Ids, id # author[p].new.id, id \notin clobbered'
    PROVE  /\ \A m \in FramePlaces : own[m].id = id \/ own'[m].id = id => own'[m] = own[m]
           /\ Copies(id)' = Copies(id) /\ AtCheck(id)' = AtCheck(id)
           /\ InSome(id) => InSome(id)'
<1> DEFINE Same == \A m \in FramePlaces : own[m].id = id \/ own'[m].id = id => own'[m] = own[m]
<1>1. UNCHANGED own => Same
  OBVIOUS
<1>2. ASSUME own' = [own EXCEPT ![l] = f] , clobbered' = clobbered \cup Victims(p, l)
      PROVE  Same
  <2>1. own \in [FramePlaces -> OwnFiles] /\ own'[l] = f
        /\ \A m \in FramePlaces \ {l} : own'[m] = own[m]
    BY <1>2 DEF FrameShape, AuthorWrites
  <2>2. f.id # id /\ own[l].id # id
    BY <1>2, PlacesAre DEF AuthorWrites, Victims
  <2> QED
    BY <2>1, <2>2
<1>3. Same
  BY <1>1, <1>2 DEF AuthorWrites
<1>4. Copies(id)' = Copies(id)
  BY <1>3 DEF Copies, Parses
<1>5. Loaded(id)' = Loaded(id)
  BY <1>4 DEF Loaded
<1>6. Copies(id) # {} => Loaded(id) \in Copies(id)
  BY FirstIs DEF Loaded, FirstPlace, Copies
<1>7. Copies(id) # {} => own'[Loaded(id)] = own[Loaded(id)]
  BY <1>3, <1>6 DEF Copies
<1>8. AtCheck(id)' = AtCheck(id)
  BY <1>4, <1>5, <1>7 DEF AtCheck
<1>9. InSome(id) => InSome(id)'
  BY <1>3 DEF InSome
<1> QED
  BY <1>3, <1>4, <1>8, <1>9

\* Another command, which may find the file it opened removed.
Bystander(q, l, f) ==
    \/ author'[q] = author[q] /\ ~(f = NoOwn /\ At(q, "fill") /\ author[q].dst = l)
    \/ /\ author'[q] = [author[q] EXCEPT !.lost = TRUE]
       /\ f = NoOwn /\ At(q, "fill") /\ author[q].dst = l

LEMMA OthersStand ==
    ASSUME FrameInv, NEW p \in Authors, NEW l, NEW f, AuthorWrites(p, l, f),
           NEW q \in Authors \ {p}, Bystander(q, l, f)
    PROVE  Opened(q)' /\ Moving(q)' /\ ArchivingFrame(q)'
<1>0. PICK w, id : w = author[q] /\ id = w.new.id
  OBVIOUS
<1>1. FrameShape /\ Aware /\ Opened(q) /\ Moving(q) /\ ArchivingFrame(q)
  BY DEF FrameInv
<1>2. /\ w \in Works /\ AuthorCourse(w)
      /\ w.at \in {"open", "fill", "remove", "mark"} => FrameCommand(w)
  BY <1>0, <1>1, AtWork
<1>3. PICK u : u = author'[q]
  OBVIOUS
<1>4. /\ u.op = w.op /\ u.src = w.src /\ u.dst = w.dst /\ u.new = w.new /\ u.at = w.at
      /\ u.alone = w.alone
      /\ u.lost => w.lost \/ (f = NoOwn /\ w.at = "fill" /\ w.dst = l)
      /\ f = NoOwn /\ w.at = "fill" /\ w.dst = l => u.lost
  <2>1. CASE author'[q] = author[q] /\ ~(f = NoOwn /\ At(q, "fill") /\ author[q].dst = l)
    BY <1>0, <1>3, <2>1 DEF At
  <2>2. CASE /\ author'[q] = [author[q] EXCEPT !.lost = TRUE]
             /\ f = NoOwn /\ At(q, "fill") /\ author[q].dst = l
    BY <1>0, <1>2, <1>3, <2>2, LostIs DEF At
  <2> QED
    BY <2>1, <2>2 DEF Bystander
<1>9. ~u.lost => ~w.lost
  <2>1. CASE author'[q] = author[q]
    BY <1>0, <1>3, <2>1
  <2>2. CASE author'[q] = [author[q] EXCEPT !.lost = TRUE]
    BY <1>0, <1>2, <1>3, <2>2, LostIs
  <2> QED
    BY <2>1, <2>2 DEF Bystander
<1>5. UNCHANGED crossed /\ clobbered \subseteq clobbered'
  BY DEF AuthorWrites
<1>6. CASE ~FrameCommand(w)
  <2>1. w.at \notin {"open", "fill", "remove"} /\ w.op # "archive" /\ ~w.lost
    <3>1. w.at \notin {"open", "fill", "remove", "mark"} /\ w.op # "archive"
      BY <1>2, <1>6 DEF FrameCommand
    <3> QED
      BY <1>2, <3>1, Zenon DEF AuthorCourse
  <2>2. ~u.lost
    BY <1>4, <2>1
  <2> QED
    BY <1>0, <1>3, <1>4, <2>1, <2>2 DEF Opened, Moving, ArchivingFrame
<1>7. CASE FrameCommand(w) /\ id = author[p].new.id
  <2>1. id \in crossed /\ ~w.alone
    <3>1. id \in Ids
      BY <1>0, <1>1, <1>7, AtWork
    <3> QED
      BY <1>0, <1>1, <1>7, <3>1 DEF Aware, AuthorBusy
  <2>2. Opened(q)'
    <3>1. u.at = "fill" /\ ~u.lost /\ id \notin clobbered' => own'[u.dst].id = id
      <4> SUFFICES ASSUME w.at = "fill", ~u.lost, id \notin clobbered' PROVE own'[w.dst].id = id
        BY <1>4
      <4>1. own[w.dst].id = id
        <5>1. ~w.lost
          BY <1>9
        <5> QED
          BY <1>0, <1>1, <1>5, <5>1 DEF Opened
      <4>2. CASE w.dst = l
        <5>1. f # NoOwn
          BY <1>4, <4>2
        <5>2. f.id = id
          BY <1>7, <5>1, OwnFilesAre, PlacesAre DEF AuthorWrites, OwnFiles
        <5> QED
          BY <1>0, <1>1, <4>1, <4>2, <5>2 DEF AuthorWrites, FrameShape
      <4>3. CASE w.dst # l
        <5>1. w.dst \in FramePlaces
          BY <1>0, <1>1, <1>7, AtWork
        <5>2. own' = own \/ own'[w.dst] = own[w.dst]
          BY <1>1, <4>3, <5>1 DEF AuthorWrites, FrameShape
        <5> QED
          BY <4>1, <5>2
      <4> QED
        BY <4>2, <4>3
    <3> QED
      BY <1>0, <1>3, <1>4, <1>5, <2>1, <3>1 DEF Opened
  <2> QED
    BY <1>0, <1>3, <1>4, <1>5, <2>1, <2>2 DEF Moving, ArchivingFrame
<1>8. CASE FrameCommand(w) /\ id # author[p].new.id
  <2>1. id \in Ids /\ w.src \in FramePlaces /\ w.dst \in FramePlaces /\ w.new.life \in Lives
    BY <1>0, <1>1, <1>8, AtWork
  <2>2. id \notin clobbered' =>
           /\ id \notin clobbered
           /\ \A m \in FramePlaces : own[m].id = id \/ own'[m].id = id => own'[m] = own[m]
           /\ Copies(id)' = Copies(id)
    BY <1>0, <1>1, <1>5, <1>8, <2>1, Untouched
  <2>3. Opened(q)'
    <3>1. ASSUME u.lost PROVE id \in clobbered' \/ (id \in crossed /\ ~w.alone)
      <4>1. CASE w.lost
        BY <1>0, <1>1, <1>5, <4>1 DEF Opened
      <4>2. CASE ~w.lost
        <5>1. f = NoOwn /\ w.at = "fill" /\ w.dst = l
          BY <1>4, <3>1, <4>2
        <5> SUFFICES ASSUME id \notin clobbered' PROVE FALSE
          OBVIOUS
        <5>2. own[l].id = id
          BY <1>0, <1>1, <2>2, <4>2, <5>1 DEF Opened
        <5>3. own'[l].id = id
          BY <2>1, <2>2, <5>1, <5>2
        <5>4. own'[l] = NoOwn
          BY <1>0, <1>1, <2>1, <5>1 DEF AuthorWrites, FrameShape
        <5> QED
          BY <2>1, <5>3, <5>4, OwnFilesAre, PlacesAre
      <4> QED
        BY <4>1, <4>2
    <3>2. u.at = "fill" /\ ~u.lost /\ id \notin clobbered' => own'[u.dst].id = id
      <4> SUFFICES ASSUME w.at = "fill", ~u.lost, id \notin clobbered' PROVE own'[w.dst].id = id
        BY <1>4
      <4>1. ~w.lost
        BY <1>9
      <4> QED
        BY <1>0, <1>1, <2>1, <2>2, <4>1 DEF Opened
    <3> QED
      BY <1>0, <1>3, <1>4, <1>5, <3>1, <3>2 DEF Opened
  <2>4. Moving(q)'
    BY <1>0, <1>1, <1>3, <1>4, <1>5, <2>1, <2>2 DEF Moving, Moves
  <2>5. ArchivingFrame(q)'
    <3> SUFFICES ASSUME w.op = "archive", w.alone, id \notin clobbered'
                 PROVE  /\ w.dst = w.src /\ w.at \in {"open", "fill"} =>
                              w.src = FirstPlace(Copies(id)' \cup {w.src})
                        /\ w.dst = w.src /\ w.at = "open" => own'[w.src].id = id
                        /\ w.dst # w.src /\ w.at = "remove" => own'[w.dst] = w.new
      BY <1>0, <1>3, <1>4 DEF ArchivingFrame, Moves, FirstPlace, Copies, Parses
    <3>1. /\ w.dst = w.src /\ w.at \in {"open", "fill"} =>
                 w.src = FirstPlace(Copies(id) \cup {w.src})
          /\ w.dst = w.src /\ w.at = "open" => own[w.src].id = id
          /\ w.dst # w.src /\ w.at = "remove" => own[w.dst] = w.new
      BY <1>0, <1>1, <1>5 DEF ArchivingFrame, Moves
    <3>2. Copies(id)' = Copies(id) /\ \A m \in FramePlaces : own[m].id = id => own'[m] = own[m]
      BY <2>2
    <3>3. w.dst = w.src /\ w.at \in {"open", "fill"} => w.src = FirstPlace(Copies(id)' \cup {w.src})
      BY <3>1, <3>2
    <3>4. w.dst = w.src /\ w.at = "open" => own'[w.src].id = id
      BY <2>1, <3>1, <3>2
    <3>5. w.dst # w.src /\ w.at = "remove" => own'[w.dst] = w.new
      BY <1>0, <2>1, <3>1, <3>2
    <3> QED
      BY <3>3, <3>4, <3>5
  <2> QED
    BY <2>3, <2>4, <2>5
<1> QED
  BY <1>6, <1>7, <1>8

LEMMA BystanderIs ==
    ASSUME FrameShape, NEW q \in Authors, NEW l, NEW f, Bystander(q, l, f)
    PROVE  /\ author'[q].op = author[q].op /\ author'[q].src = author[q].src
           /\ author'[q].dst = author[q].dst /\ author'[q].new = author[q].new
           /\ author'[q].at = author[q].at /\ author'[q].alone = author[q].alone
           /\ author'[q] \in Works /\ AuthorCourse(author'[q])
<1>1. author[q] \in Works /\ AuthorCourse(author[q])
  BY AtWork
<1>2. CASE author'[q] = author[q]
  BY <1>1, <1>2
<1>3. CASE author'[q] = [author[q] EXCEPT !.lost = TRUE] /\ At(q, "fill")
  <2>1. PICK u : u = author'[q]
    OBVIOUS
  <2>2. /\ u \in Works /\ u.op = author[q].op /\ u.src = author[q].src
        /\ u.dst = author[q].dst /\ u.new = author[q].new /\ u.at = author[q].at
        /\ u.alone = author[q].alone /\ u.draft = author[q].draft /\ u.at = "fill"
    BY <1>1, <1>3, <2>1, LostIs DEF At
  <2>3. AuthorCourse(u)
    BY <1>1, <2>2 DEF AuthorCourse
  <2> QED
    BY <2>1, <2>2, <2>3
<1> QED
  BY <1>2, <1>3 DEF Bystander

\* A step of p that writes a file: what remains to show is about p and its frame.
LEMMA StepKeeps ==
    ASSUME FrameInv, NEW p \in Authors, NEW l, NEW f, AuthorWrites(p, l, f),
           NEW id, id = author[p].new.id, author' = [q \in Authors |-> author'[q]],
           \A q \in Authors \ {p} : Bystander(q, l, f),
           author'[p] \in Works, AuthorCourse(author'[p]),
           \/ author'[p].new = author[p].new /\ author'[p].alone = author[p].alone
           \/ author'[p].new = NoOwn,
           Opened(p)', Moving(p)', ArchivingFrame(p)',
           UNCHANGED <<drafts, today>>,
           had' \in {had, had \cup {id}}, id \in had' => FrameStays(id)',
           author'[p].at = "mark" => id \in had',
           out' \in {out, out \cup {id}}, aside' \in {aside, aside \cup {id}},
           id \in out' => /\ author'[p].new = NoOwn /\ author[p].alone
                          /\ id \in aside' \cup clobbered' \/ AtCheck(id)' # "project"
    PROVE  FrameInv'
<1>1. FrameShape /\ Aware /\ HadKept /\ OutOfUse
  BY DEF FrameInv
<1>2. id \in Ids /\ author[p].new \in OwnFiles
  BY <1>1, AtWork DEF AuthorWrites
<1>3. \A q \in Authors \ {p} :
         /\ author'[q].op = author[q].op /\ author'[q].src = author[q].src
         /\ author'[q].dst = author[q].dst /\ author'[q].new = author[q].new
         /\ author'[q].at = author[q].at /\ author'[q].alone = author[q].alone
         /\ author'[q] \in Works /\ AuthorCourse(author'[q])
  BY <1>1, BystanderIs
<1>4. \A k \in Ids \ {id} : k \notin clobbered' => AtCheck(k)' = AtCheck(k) /\ (InSome(k) => InSome(k)')
  <2> TAKE k \in Ids \ {id}
  <2>1. k # author[p].new.id
    OBVIOUS
  <2> QED
    BY <1>1, <2>1, Untouched
<1>5. clobbered \subseteq clobbered' /\ UNCHANGED <<torn, crossed>>
  BY DEF AuthorWrites
<1>6. FrameShape'
  <2>1. author' \in [Authors -> Works] /\ \A q \in Authors : AuthorCourse(author'[q])
    BY <1>3
  <2>2. own' \in [FramePlaces -> OwnFiles]
    BY <1>1 DEF FrameShape, AuthorWrites
  <2>3. clobbered' \subseteq Ids
    BY <1>1, OwnFilesAre DEF FrameShape, AuthorWrites, Victims
  <2> QED
    BY <1>1, <1>2, <1>5, <2>1, <2>2, <2>3 DEF FrameShape
<1>7. Aware'
  <2> SUFFICES ASSUME NEW q \in Authors, NEW r \in Authors, NEW k \in Ids, q # r,
                      author'[q].new.id = k, author'[r].new.id = k
               PROVE  k \in crossed /\ ~author'[q].alone
    BY <1>5 DEF Aware, AuthorBusy
  <2>1. \A x \in Authors : author'[x].new.id = k =>
            author[x].new.id = k /\ author'[x].alone = author[x].alone
    <3> TAKE x \in Authors
    <3>1. CASE x # p
      BY <1>3, <3>1
    <3>2. CASE x = p
      BY <3>2, OwnFilesAre, PlacesAre
    <3> QED
      BY <3>1, <3>2
  <2> QED
    BY <1>1, <2>1 DEF Aware, AuthorBusy
<1>8. \A q \in Authors : Opened(q)' /\ Moving(q)' /\ ArchivingFrame(q)'
  BY OthersStand
<1>9. HadKept'
  <2>1. ASSUME NEW k \in had', k # id PROVE FrameStays(k)'
    <3>1. k \in had /\ k \in Ids /\ FrameStays(k)
      BY <1>1, <1>2, <2>1 DEF HadKept, FrameShape
    <3>2. CASE k \in clobbered' \cup torn \cup crossed
      BY <1>5, <3>2 DEF FrameStays
    <3>3. CASE InSome(k) /\ k \notin clobbered'
      BY <1>4, <2>1, <3>1, <3>3 DEF FrameStays
    <3>4. CASE \E q \in Authors : At(q, "fill") /\ author[q].new.id = k /\ ~Moves(q)
      <4>1. PICK q \in Authors : At(q, "fill") /\ author[q].new.id = k /\ ~Moves(q)
        BY <3>4
      <4>2. q # p
        BY <2>1, <4>1
      <4>3. (At(q, "fill") /\ author[q].new.id = k /\ ~Moves(q))'
        BY <1>3, <4>1, <4>2 DEF At, Moves
      <4> QED
        BY <4>3 DEF FrameStays
    <3> QED
      BY <1>5, <3>1, <3>2, <3>3, <3>4 DEF FrameStays
  <2>2. \A i \in DOMAIN drafts' : drafts'[i].status = "promoted" => drafts'[i].to \in had'
    BY <1>1 DEF HadKept
  <2>3. ASSUME NEW q \in Authors, author'[q].at = "mark" PROVE author'[q].new.id \in had'
    <3>1. CASE q = p
      <4>1. author'[p].new = author[p].new
        BY <2>3, <3>1, OwnFilesAre, PlacesAre DEF AuthorCourse
      <4> QED
        BY <2>3, <3>1, <4>1
    <3>2. CASE q # p
      BY <1>1, <1>3, <2>3, <3>2 DEF HadKept, At
    <3> QED
      BY <3>1, <3>2
  <2> QED
    BY <2>1, <2>2, <2>3 DEF HadKept, At
<1>10. OutOfUse'
  <2>1. ASSUME NEW k \in out', NEW q \in Authors, k \in Ids, author'[q].new.id = k PROVE FALSE
    <3>1. CASE k = id
      <4>1. author'[p].new = NoOwn /\ author[p].alone
        BY <2>1, <3>1
      <4>2. q # p
        BY <1>2, <2>1, <3>1, <4>1, OwnFilesAre, PlacesAre
      <4>3. author[q].new.id = id
        BY <1>3, <2>1, <3>1, <4>2
      <4> QED
        BY <1>1, <1>2, <4>1, <4>2, <4>3 DEF Aware, AuthorBusy
    <3>2. CASE k # id
      <4>1. k \in out
        BY <2>1, <3>2
      <4>2. author[q].new.id # k
        BY <1>1, <2>1, <4>1 DEF OutOfUse, AuthorBusy
      <4> QED
        BY <1>3, <2>1, <4>2, OwnFilesAre, PlacesAre
    <3> QED
      BY <3>1, <3>2
  <2>2. ASSUME NEW k \in out', k \notin aside' \cup clobbered' PROVE AtCheck(k)' # "project"
    <3>1. CASE k = id
      BY <2>2, <3>1
    <3>2. CASE k # id
      <4>1. k \in out \ (aside \cup clobbered) /\ k \in Ids
        BY <1>1, <1>5, <2>2, <3>2 DEF FrameShape
      <4> QED
        BY <1>1, <1>4, <2>2, <3>2, <4>1 DEF OutOfUse
    <3> QED
      BY <3>1, <3>2
  <2> QED
    BY <2>1, <2>2 DEF OutOfUse, AuthorBusy
<1> QED
  BY <1>6, <1>7, <1>8, <1>9, <1>10 DEF FrameInv

\* A step that leaves the frames' files alone and ends p's command.
LEMMA EndKeeps ==
    ASSUME FrameInv, NEW p \in Authors,
           author' = [author EXCEPT ![p] = IdleAuthor],
           UNCHANGED <<own, today, had, clobbered, crossed, out, aside>>,
           torn' = IF At(p, "fill") /\ ~Moves(p) THEN torn \cup {author[p].new.id} ELSE torn,
           drafts' \in [(1 .. MaxDays) \X Slugs ->
                      {NoDraft} \cup [status : {"cut", "draft", "promoted"}, to : Ids \cup {Gone}]],
           \A i \in DOMAIN drafts' : drafts'[i].status = "promoted" => drafts'[i].to \in had
    PROVE  FrameInv'
<1>1. FrameShape /\ Aware /\ HadKept /\ OutOfUse
  BY DEF FrameInv
<1>2. author'[p] = IdleAuthor /\ \A q \in Authors \ {p} : author'[q] = author[q]
  BY <1>1 DEF FrameShape
<1>3. torn \subseteq torn' /\ torn' \subseteq Ids
  BY <1>1, AtWork DEF FrameShape, At
<1>4. FrameShape'
  <2>1. author' \in [Authors -> Works] /\ \A q \in Authors : AuthorCourse(author'[q])
    BY <1>1, <1>2, IdleWork DEF FrameShape
  <2> QED
    BY <1>1, <1>3, <2>1 DEF FrameShape
<1>5. Aware'
  BY <1>1, <1>2, IdleWork, OwnFilesAre, PlacesAre DEF Aware, AuthorBusy
<1>6. ASSUME NEW q \in Authors PROVE Opened(q)' /\ Moving(q)' /\ ArchivingFrame(q)'
  <2>1. CASE q = p
    BY <1>2, <2>1, IdleWork DEF Opened, Moving, ArchivingFrame
  <2>2. CASE q # p
    <3>1. author'[q] = author[q] /\ Opened(q) /\ Moving(q) /\ ArchivingFrame(q)
      BY <1>2, <2>2 DEF FrameInv
    <3> QED
      BY <3>1 DEF Opened, Moving, ArchivingFrame, Moves, FirstPlace, Copies, Parses
  <2> QED
    BY <2>1, <2>2
<1>7. HadKept'
  <2>1. ASSUME NEW k \in had PROVE FrameStays(k)'
    <3>1. FrameStays(k)
      BY <1>1 DEF HadKept
    <3>2. CASE k \in clobbered \cup torn \cup crossed \/ InSome(k)
      BY <1>3, <3>2 DEF FrameStays, InSome
    <3>3. CASE \E q \in Authors : At(q, "fill") /\ author[q].new.id = k /\ ~Moves(q)
      <4>1. PICK q \in Authors : At(q, "fill") /\ author[q].new.id = k /\ ~Moves(q)
        BY <3>3
      <4>2. CASE q = p
        BY <4>1, <4>2 DEF FrameStays
      <4>3. CASE q # p
        <5>1. (At(q, "fill") /\ author[q].new.id = k /\ ~Moves(q))'
          BY <1>2, <4>1, <4>3 DEF At, Moves
        <5> QED
          BY <5>1 DEF FrameStays
      <4> QED
        BY <4>2, <4>3
    <3> QED
      BY <3>1, <3>2, <3>3 DEF FrameStays
  <2>2. ASSUME NEW q \in Authors, author'[q].at = "mark" PROVE author'[q].new.id \in had
    BY <1>1, <1>2, <2>2, IdleWork DEF HadKept, At
  <2> QED
    BY <2>1, <2>2 DEF HadKept, At
<1>8. OutOfUse'
  <2>1. \A k \in out, q \in Authors : ~AuthorBusy(q, k)'
    BY <1>1, <1>2, IdleWork, OwnFilesAre, PlacesAre DEF OutOfUse, AuthorBusy
  <2>2. \A k \in out : AtCheck(k)' = AtCheck(k)
    BY DEF AtCheck, Loaded, Copies, Parses
  <2> QED
    BY <1>1, <2>1, <2>2 DEF OutOfUse
<1> QED
  BY <1>4, <1>5, <1>6, <1>7, <1>8 DEF FrameInv

LEMMA WriteDraftKeeps == ASSUME FrameInv, NEW p \in Authors, WriteDraft(p) PROVE FrameInv'
<1>1. FrameShape /\ HadKept /\ author[p] \in Works /\ AuthorCourse(author[p]) /\ author[p].at = "draft"
  BY AtWork DEF FrameInv, WriteDraft, At
<1>2. author[p].draft \in (1 .. MaxDays) \X Slugs
  BY <1>1 DEF AuthorCourse
<1>3. author' = [author EXCEPT ![p] = IdleAuthor]
  BY DEF WriteDraft, GoTo
<1>4. DraftFile("draft", Gone) \in [status : {"cut", "draft", "promoted"}, to : Ids \cup {Gone}]
      /\ DraftFile("draft", Gone).status = "draft"
  BY DEF DraftFile
<1>5. drafts' = [drafts EXCEPT ![author[p].draft] = DraftFile("draft", Gone)]
  BY DEF WriteDraft
<1>7. drafts' \in [(1 .. MaxDays) \X Slugs ->
                      {NoDraft} \cup [status : {"cut", "draft", "promoted"}, to : Ids \cup {Gone}]]
  BY <1>1, <1>2, <1>4, <1>5 DEF FrameShape
<1>8. \A i \in DOMAIN drafts' : drafts'[i].status = "promoted" => drafts'[i].to \in had
  BY <1>1, <1>2, <1>4, <1>5 DEF FrameShape, HadKept
<1>9. torn' = IF At(p, "fill") /\ ~Moves(p) THEN torn \cup {author[p].new.id} ELSE torn
  BY <1>1 DEF WriteDraft, At
<1> QED
  BY <1>3, <1>7, <1>8, <1>9, EndKeeps DEF WriteDraft

LEMMA MarkDraftKeeps == ASSUME FrameInv, NEW p \in Authors, MarkDraft(p) PROVE FrameInv'
<1>1. FrameShape /\ HadKept /\ author[p] \in Works /\ AuthorCourse(author[p]) /\ author[p].at = "mark"
  BY AtWork DEF FrameInv, MarkDraft, At
<1>2. author[p].draft \in (1 .. MaxDays) \X Slugs
  BY <1>1 DEF AuthorCourse
<1>3. author' = [author EXCEPT ![p] = IdleAuthor]
  BY DEF MarkDraft, GoTo
<1>4. PICK f : f = DraftFile("promoted", author[p].new.id)
  OBVIOUS
<1>5. f \in [status : {"cut", "draft", "promoted"}, to : Ids \cup {Gone}] /\ f.to \in had
  BY <1>1, <1>4 DEF DraftFile, HadKept, At, FrameShape
<1>6. drafts' = [drafts EXCEPT ![author[p].draft] = f]
  BY <1>4 DEF MarkDraft
<1>7. drafts' \in [(1 .. MaxDays) \X Slugs ->
                      {NoDraft} \cup [status : {"cut", "draft", "promoted"}, to : Ids \cup {Gone}]]
  BY <1>1, <1>2, <1>5, <1>6 DEF FrameShape
<1>8. \A i \in DOMAIN drafts' : drafts'[i].status = "promoted" => drafts'[i].to \in had
  BY <1>1, <1>2, <1>5, <1>6 DEF FrameShape, HadKept
<1>9. torn' = IF At(p, "fill") /\ ~Moves(p) THEN torn \cup {author[p].new.id} ELSE torn
  BY <1>1 DEF MarkDraft, At
<1> QED
  BY <1>3, <1>7, <1>8, <1>9, EndKeeps DEF MarkDraft

LEMMA AuthorStopsKeeps == ASSUME FrameInv, NEW p \in Authors, AuthorStops(p) PROVE FrameInv'
<1>1. FrameShape /\ HadKept /\ author[p] \in Works /\ AuthorCourse(author[p])
  BY AtWork DEF FrameInv
<1>2. author' = [author EXCEPT ![p] = IdleAuthor]
  BY DEF AuthorStops, GoTo
<1>3. DraftFile("cut", Gone) \in [status : {"cut", "draft", "promoted"}, to : Ids \cup {Gone}]
      /\ DraftFile("cut", Gone).status = "cut"
  BY DEF DraftFile
<1>4. CASE UNCHANGED drafts
  BY <1>1, <1>2, <1>4, EndKeeps DEF AuthorStops, FrameShape, HadKept
<1>5. CASE /\ author[p].at \in {"draft", "mark"}
           /\ drafts' = [drafts EXCEPT ![author[p].draft] = DraftFile("cut", Gone)]
  <2>1. author[p].draft \in (1 .. MaxDays) \X Slugs
    BY <1>1, <1>5 DEF AuthorCourse
  <2> QED
    BY <1>1, <1>2, <1>3, <1>5, <2>1, EndKeeps DEF AuthorStops, FrameShape, HadKept
<1> QED
  BY <1>4, <1>5 DEF AuthorStops

\* What a command read when it began: where its frame is loaded from, or a free place.
Begun(w) ==
    /\ w \in Works /\ AuthorCourse(w) /\ w.at \in {"draft", "open"} /\ ~w.lost
    /\ w.op \in {"archive", "revive"} =>
          w.src = Loaded(w.new.id) /\ w.src \in Copies(w.new.id)

LEMMA StartKeeps == ASSUME FrameInv, NEW p \in Authors, NEW w, Start(p, w), Begun(w) PROVE FrameInv'
<1>1. FrameShape /\ Aware /\ HadKept /\ OutOfUse
  BY DEF FrameInv
<1>2. PICK id : id = w.new.id
  OBVIOUS
<1>3. /\ w \in Works /\ AuthorCourse(w) /\ id \in Ids \cup {Gone}
      /\ author[p].at = "end" /\ author[p].new = NoOwn
  <2>1. author[p].op = "idle"
    BY DEF Start
  <2>2. author[p].at = "end" /\ author[p].new = NoOwn
    BY <1>1, <2>1, AtWork DEF AuthorCourse, FrameCommand
  <2>3. id \in Ids \cup {Gone}
    BY <1>2, OwnFilesAre DEF Begun, Works, OwnFiles
  <2> QED
    BY <2>2, <2>3 DEF Begun
<1>4. \A q \in Authors : q \in BusyWith(id) <=> AuthorBusy(q, id)
  BY DEF BusyWith, AuthorBusy
<1>5. /\ author' = [q \in Authors |-> author'[q]]
      /\ crossed' = IF BusyWith(id) # {} THEN crossed \cup {id} ELSE crossed
      /\ out' = out \ {id}
      /\ UNCHANGED <<drafts, own, today, had, clobbered, torn, aside>>
  <2>1. author' = [q \in Authors |-> author'[q]]
    BY DEF Start
  <2>2. crossed' = IF BusyWith(w.new.id) # {} THEN crossed \cup {w.new.id} ELSE crossed
    BY DEF Start
  <2>3. out' = out \ {w.new.id} /\ UNCHANGED <<drafts, own, today, had, clobbered, torn, aside>>
    BY DEF Start
  <2> QED
    BY <1>2, <2>1, <2>2, <2>3
<1>6. ~AuthorBusy(p, id)
  BY <1>3, OwnFilesAre, PlacesAre DEF AuthorBusy
<1>7. PICK b \in BOOLEAN : b <=> BusyWith(id) = {}
  <2>1. (BusyWith(id) = {}) \in BOOLEAN
    OBVIOUS
  <2> QED
    BY <2>1, Zenon
<1>20. author'[p] = [w EXCEPT !.alone = BusyWith(id) = {}]
  <2>1. author' = [q \in Authors |->
               CASE q = p -> [w EXCEPT !.alone = BusyWith(w.new.id) = {}]
                 [] q \in BusyWith(w.new.id) -> [author[q] EXCEPT !.alone = FALSE]
                 [] OTHER -> author[q]]
    BY DEF Start
  <2>2. author'[p] = CASE p = p -> [w EXCEPT !.alone = BusyWith(w.new.id) = {}]
                 [] p \in BusyWith(w.new.id) -> [author[p] EXCEPT !.alone = FALSE]
                 [] OTHER -> author[p]
    BY <2>1, Zenon
  <2>3. p \notin BusyWith(w.new.id)
    BY <1>2, <1>4, <1>6
  <2>4. author'[p] = [w EXCEPT !.alone = BusyWith(w.new.id) = {}]
    BY <2>2, <2>3
  <2> QED
    BY <1>2, <2>4, Zenon
<1>21. author'[p] = [w EXCEPT !.alone = b]
  BY <1>7, <1>20
<1>8. PICK u : u = author'[p]
  OBVIOUS
<1>9. /\ u \in Works /\ u.op = w.op /\ u.src = w.src /\ u.dst = w.dst /\ u.new = w.new
      /\ u.at = w.at /\ u.draft = w.draft /\ u.lost = w.lost /\ u.alone = b
  <2>1. u = [w EXCEPT !.alone = b]
    BY <1>8, <1>21
  <2> QED
    BY <1>3, <2>1, AloneIs
<1>10. \A q \in Authors \ {p} :
          /\ author'[q] = IF AuthorBusy(q, id) THEN [author[q] EXCEPT !.alone = FALSE] ELSE author[q]
  <2>1. \A q \in Authors \ {p} :
          author'[q] = IF q \in BusyWith(id) THEN [author[q] EXCEPT !.alone = FALSE] ELSE author[q]
    BY <1>2 DEF Start
  <2> QED
    BY <1>4, <2>1
<1>11. ASSUME NEW q \in Authors \ {p}
       PROVE  /\ author'[q] \in Works /\ AuthorCourse(author'[q])
              /\ author'[q].op = author[q].op /\ author'[q].src = author[q].src
              /\ author'[q].dst = author[q].dst /\ author'[q].new = author[q].new
              /\ author'[q].at = author[q].at /\ author'[q].lost = author[q].lost
              /\ AuthorBusy(q, id) => ~author'[q].alone
              /\ author'[q].alone => author[q].alone
  <2>1. author[q] \in Works /\ AuthorCourse(author[q])
    BY <1>1, AtWork
  <2>2. CASE AuthorBusy(q, id)
    <3>1. PICK v : v = author'[q]
      OBVIOUS
    <3>2. /\ v \in Works /\ v.op = author[q].op /\ v.src = author[q].src
          /\ v.dst = author[q].dst /\ v.new = author[q].new /\ v.at = author[q].at
          /\ v.draft = author[q].draft /\ v.lost = author[q].lost /\ v.alone = FALSE
      <4>1. v = [author[q] EXCEPT !.alone = FALSE]
        BY <1>10, <2>2, <3>1
      <4> QED
        BY <2>1, <4>1, AloneIs
    <3>3. AuthorCourse(v)
      BY <2>1, <3>2, Zenon DEF AuthorCourse
    <3> QED
      BY <3>1, <3>2, <3>3
  <2>3. CASE ~AuthorBusy(q, id)
    BY <1>10, <2>1, <2>3
  <2> QED
    BY <2>2, <2>3
<1>12. FrameShape'
  <2>1. AuthorCourse(u)
    BY <1>3, <1>9, Zenon DEF AuthorCourse
  <2>2. author' \in [Authors -> Works] /\ \A q \in Authors : AuthorCourse(author'[q])
    BY <1>5, <1>8, <1>9, <1>11, <2>1
  <2>3. crossed' \subseteq Ids
    BY <1>1, <1>5 DEF FrameShape, BusyWith
  <2> QED
    BY <1>1, <1>5, <2>2, <2>3 DEF FrameShape
<1>13. crossed \subseteq crossed'
  BY <1>5
<1>14. Aware'
  <2> SUFFICES ASSUME NEW q \in Authors, NEW r \in Authors, NEW k \in Ids, q # r,
                      author'[q].new.id = k, author'[r].new.id = k
               PROVE  k \in crossed' /\ ~author'[q].alone
    BY DEF Aware, AuthorBusy
  <2>1. CASE q = p
    <3>1. k = id /\ AuthorBusy(r, id)
      BY <1>2, <1>8, <1>9, <1>11, <2>1 DEF AuthorBusy
    <3> QED
      BY <1>4, <1>5, <1>7, <1>8, <1>9, <2>1, <3>1
  <2>2. CASE r = p
    <3>1. k = id /\ AuthorBusy(q, id)
      BY <1>2, <1>8, <1>9, <1>11, <2>2 DEF AuthorBusy
    <3> QED
      BY <1>4, <1>5, <1>11, <2>2, <3>1
  <2>3. CASE q # p /\ r # p
    BY <1>1, <1>11, <1>13, <2>3 DEF Aware, AuthorBusy
  <2> QED
    BY <2>1, <2>2, <2>3
<1>15. \A k : Copies(k)' = Copies(k) /\ AtCheck(k)' = AtCheck(k)
  BY <1>5 DEF Copies, AtCheck, Loaded, Parses
<1>16. Opened(p)' /\ Moving(p)' /\ ArchivingFrame(p)'
  <2>1. u.at \in {"draft", "open"} /\ ~u.lost /\ u.new.id = id
    BY <1>2, <1>9 DEF Begun
  <2>2. u.op \in {"archive", "revive"} =>
           /\ u.src = Loaded(id) /\ u.src \in Copies(id)
           /\ own[u.src].id = id /\ own[u.src].life \in Lives
    BY <1>2, <1>9 DEF Begun, Copies, Parses, Lives
  <2>3. Opened(p)'
    BY <1>8, <2>1 DEF Opened
  <2>4. Moving(p)'
    <3>1. u.at = "open" /\ u.dst # u.src => u.op \in {"archive", "revive"}
      BY <1>3, <1>9 DEF AuthorCourse, Works
    <3> QED
      BY <1>5, <1>8, <2>1, <2>2, <3>1 DEF Moving, Moves
  <2>5. ArchivingFrame(p)'
    <3>1. u.op = "archive" => Copies(id) \cup {u.src} = Copies(id) /\ u.src = FirstPlace(Copies(id) \cup {u.src})
      BY <2>2 DEF Loaded, FirstPlace
    <3> SUFFICES ASSUME u.op = "archive"
                 PROVE  u.src = FirstPlace(Copies(id)' \cup {u.src}) /\ own'[u.src].id = id
      BY <1>8, <2>1 DEF ArchivingFrame, FirstPlace, Copies, Parses
    <3>2. Copies(id)' = Copies(id)
      BY <1>15
    <3> QED
      BY <1>5, <2>2, <3>1, <3>2
  <2> QED
    BY <2>3, <2>4, <2>5
<1>17. ASSUME NEW q \in Authors \ {p} PROVE Opened(q)' /\ Moving(q)' /\ ArchivingFrame(q)'
  <2>1. Opened(q) /\ Moving(q) /\ ArchivingFrame(q)
    BY DEF FrameInv
  <2>2. PICK k : k = author[q].new.id
    OBVIOUS
  <2>3. Copies(k)' = Copies(k)
    BY <1>15
  <2>4. Opened(q)'
    <3>1. AuthorBusy(q, id) => id \in crossed'
      BY <1>4, <1>5
    <3>2. author[q].lost => k \in clobbered \/ (k \in crossed /\ ~author[q].alone)
      BY <2>1, <2>2 DEF Opened
    <3> QED
      BY <1>5, <1>11, <1>13, <2>1, <2>2, <3>2 DEF Opened
  <2>5. Moving(q)'
    BY <1>5, <1>11, <1>13, <2>1 DEF Moving, Moves
  <2>6. ArchivingFrame(q)'
    <3> SUFFICES ASSUME author[q].op = "archive", author[q].alone, k \notin clobbered
                 PROVE  LET x == author[q]
                        IN  /\ x.dst = x.src /\ x.at \in {"open", "fill"} =>
                                   x.src = FirstPlace(Copies(k)' \cup {x.src})
                            /\ x.dst = x.src /\ x.at = "open" => own[x.src].id = k
                            /\ x.dst # x.src /\ x.at = "remove" => own[x.dst] = x.new
      BY <1>5, <1>11, <2>2 DEF ArchivingFrame, Moves, FirstPlace, Copies, Parses
    <3> QED
      BY <2>1, <2>2, <2>3 DEF ArchivingFrame, Moves
  <2> QED
    BY <2>4, <2>5, <2>6
<1>18. HadKept'
  <2>1. ASSUME NEW k \in had PROVE FrameStays(k)'
    <3>1. FrameStays(k)
      BY <1>1 DEF HadKept
    <3>2. CASE k \in clobbered \cup torn \cup crossed \/ InSome(k)
      BY <1>5, <1>13, <3>2 DEF FrameStays, InSome
    <3>3. CASE \E q \in Authors : At(q, "fill") /\ author[q].new.id = k /\ ~Moves(q)
      <4>1. PICK q \in Authors : At(q, "fill") /\ author[q].new.id = k /\ ~Moves(q)
        BY <3>3
      <4>2. q # p
        BY <1>3, <4>1 DEF At
      <4>3. (At(q, "fill") /\ author[q].new.id = k /\ ~Moves(q))'
        BY <1>11, <4>1, <4>2 DEF At, Moves
      <4> QED
        BY <4>3 DEF FrameStays
    <3> QED
      BY <3>1, <3>2, <3>3 DEF FrameStays
  <2>2. ASSUME NEW q \in Authors, author'[q].at = "mark" PROVE author'[q].new.id \in had
    <3>1. q # p
      BY <1>8, <1>9, <2>2 DEF Begun
    <3> QED
      BY <1>1, <1>11, <2>2, <3>1 DEF HadKept, At
  <2> QED
    BY <1>1, <1>5, <2>1, <2>2 DEF HadKept, At
<1>19. OutOfUse'
  <2>1. ASSUME NEW k \in out', NEW q \in Authors PROVE ~AuthorBusy(q, k)'
    <3>1. k \in out /\ k # id
      BY <1>5
    <3>2. CASE q = p
      BY <1>2, <1>8, <1>9, <3>1, <3>2 DEF AuthorBusy
    <3>3. CASE q # p
      BY <1>1, <1>11, <3>1, <3>3 DEF OutOfUse, AuthorBusy
    <3> QED
      BY <3>2, <3>3
  <2> QED
    BY <1>1, <1>5, <1>15, <2>1 DEF OutOfUse
<1> QED
  BY <1>12, <1>14, <1>16, <1>17, <1>18, <1>19 DEF FrameInv

\* A file of a frame is a place that the frame has.
LEMMA StubIs ==
    ASSUME FrameShape, NEW l \in FramePlaces, own[l].life \in Lives
    PROVE  own[l].id \in Ids /\ own[l] \in [id : Ids, life : Lives \cup {"cut"}]
BY OwnFilesAre DEF FrameShape, OwnFiles, NoOwn, OwnFile, Lives

LEMMA NewIncidentKeeps ==
    ASSUME FrameInv, NEW p \in Authors, NEW s \in Slugs, NewIncident(p, s) PROVE FrameInv'
<1>1. FrameShape
  BY DEF FrameInv
<1>2. PICK w : w = [IdleAuthor EXCEPT !.op = "new", !.draft = <<today, s>>, !.at = "draft"]
  OBVIOUS
<1>3. PICK d : d = <<today, s>>
  OBVIOUS
<1>4. d \in (1 .. MaxDays) \X Slugs
  BY <1>1, <1>3 DEF FrameShape
<1>5. /\ w.op = "new" /\ w.draft = d /\ w.at = "draft" /\ w.src = Gone /\ w.dst = Gone
      /\ w.new = NoOwn /\ w.alone = TRUE /\ w.lost = FALSE
      /\ w \in Works
  BY <1>2, <1>3, <1>4 DEF IdleAuthor, Works
<1>6. AuthorCourse(w)
  BY <1>4, <1>5 DEF AuthorCourse
<1>7. Begun(w)
  BY <1>5, <1>6 DEF Begun
<1>8. Start(p, w)
  BY <1>2 DEF NewIncident
<1> QED
  BY <1>7, <1>8, StartKeeps

LEMMA PromoteKeeps ==
    ASSUME FrameInv, NEW p \in Authors, NEW s \in Slugs, NEW id \in Ids, Promote(p, s, id)
    PROVE  FrameInv'
<1>1. FrameShape
  BY DEF FrameInv
<1>2. PICK i \in Named(s) :
        Start(p, [IdleAuthor EXCEPT !.op = "promote", !.draft = i, !.src = id, !.dst = id,
                                    !.new = OwnFile(id, "stub"), !.at = "open"])
  BY DEF Promote
<1>3. PICK w : w = [IdleAuthor EXCEPT !.op = "promote", !.draft = i, !.src = id, !.dst = id,
                                      !.new = OwnFile(id, "stub"), !.at = "open"]
  OBVIOUS
<1>4. i \in (1 .. MaxDays) \X Slugs
  BY <1>1 DEF Named, FrameShape
<1>5. /\ w.op = "promote" /\ w.draft = i /\ w.at = "open" /\ w.src = id /\ w.dst = id
      /\ w.new = OwnFile(id, "stub") /\ w.alone = TRUE /\ w.lost = FALSE
      /\ w \in Works
  BY <1>3, <1>4, PlacesAre DEF IdleAuthor, Works, OwnFile, Lives
<1>6. AuthorCourse(w)
  BY <1>4, <1>5, PlacesAre DEF AuthorCourse, OwnFile, Lives
<1>7. Begun(w)
  BY <1>5, <1>6 DEF Begun
<1> QED
  BY <1>2, <1>3, <1>7, StartKeeps

\* Where a frame is loaded from is one of the places it has.
LEMMA LoadedIs ==
    ASSUME NEW id \in Ids, Copies(id) # {}
    PROVE  Loaded(id) \in Copies(id) /\ Loaded(id) \in FramePlaces
BY FirstIs DEF Loaded, FirstPlace, Copies

LEMMA TurnKeeps ==
    ASSUME FrameInv, NEW p \in Authors, NEW id \in Ids, NEW op, NEW life, NEW dst \in FramePlaces,
           Copies(id) # {}, <<op, life>> \in {<<"archive", "archived">>, <<"revive", "active">>},
           Start(p, [IdleAuthor EXCEPT !.op = op, !.src = Loaded(id), !.dst = dst,
                                       !.new = OwnFile(id, life), !.at = "open"])
    PROVE  FrameInv'
<1>0. (op = "archive" /\ life = "archived") \/ (op = "revive" /\ life = "active")
  OBVIOUS
<1>1. PICK src : src = Loaded(id)
  OBVIOUS
<1>2. src \in Copies(id) /\ src \in FramePlaces
  BY <1>1, LoadedIs
<1>3. PICK w : w = [IdleAuthor EXCEPT !.op = op, !.src = src, !.dst = dst,
                                      !.new = OwnFile(id, life), !.at = "open"]
  OBVIOUS
<1>4. <<1, "none">> \in (1 .. MaxDays) \X (Slugs \cup {"none"})
  OBVIOUS
<1>5. /\ w.op = op /\ w.at = "open" /\ w.src = src /\ w.dst = dst
      /\ w.new = OwnFile(id, life) /\ w.alone = TRUE /\ w.lost = FALSE
      /\ w \in Works
  BY <1>0, <1>2, <1>3, <1>4, PlacesAre DEF IdleAuthor, Works, OwnFile, Lives
<1>6. AuthorCourse(w)
  BY <1>0, <1>2, <1>5, PlacesAre DEF AuthorCourse, OwnFile, Lives
<1>7. Begun(w)
  BY <1>1, <1>2, <1>5, <1>6 DEF Begun, OwnFile
<1> QED
  BY <1>1, <1>3, <1>7, StartKeeps

LEMMA ArchiveKeeps ==
    ASSUME FrameInv, NEW p \in Authors, NEW id \in Ids, NEW move \in BOOLEAN, Archive(p, id, move)
    PROVE  FrameInv'
<1>1. Copies(id) # {}
  BY DEF Archive
<1>2. PICK dst : dst = IF move THEN <<"history", Loaded(id)[2]>> ELSE Loaded(id)
  OBVIOUS
<1>3. dst \in FramePlaces
  BY <1>1, <1>2, LoadedIs, PlacesAre
<1>4. Start(p, [IdleAuthor EXCEPT !.op = "archive", !.src = Loaded(id), !.dst = dst,
                                  !.new = OwnFile(id, "archived"), !.at = "open"])
  BY <1>2 DEF Archive
<1> QED
  BY <1>1, <1>3, <1>4, TurnKeeps

LEMMA ReviveKeeps ==
    ASSUME FrameInv, NEW p \in Authors, NEW id \in Ids, NEW move \in BOOLEAN, Revive(p, id, move)
    PROVE  FrameInv'
<1>1. Copies(id) # {}
  BY DEF Revive
<1>2. PICK dst : dst = IF move /\ Loaded(id)[1] = "history" THEN <<"frames", Loaded(id)[2]>>
                       ELSE Loaded(id)
  OBVIOUS
<1>3. dst \in FramePlaces
  BY <1>1, <1>2, LoadedIs, PlacesAre
<1>4. Start(p, [IdleAuthor EXCEPT !.op = "revive", !.src = Loaded(id), !.dst = dst,
                                  !.new = OwnFile(id, "active"), !.at = "open"])
  BY <1>2 DEF Revive
<1> QED
  BY <1>1, <1>3, <1>4, TurnKeeps

-----------------------------------------------------------------------------
(* The commands' writes, the user and the clock.                           *)

LEMMA OpenFrameKeeps == ASSUME FrameInv, NEW p \in Authors, OpenFrame(p) PROVE FrameInv'
<1>1. FrameShape /\ Opened(p) /\ Moving(p) /\ ArchivingFrame(p) /\ OutOfUse
  BY DEF FrameInv
<1>2. PICK w, id, l, f : w = author[p] /\ id = w.new.id /\ l = w.dst /\ f = OwnFile(id, "cut")
  OBVIOUS
<1>3. w \in Works /\ AuthorCourse(w) /\ w.at = "open" /\ FrameCommand(w)
  BY <1>1, <1>2, AtWork DEF OpenFrame, At
<1>4. /\ w.src \in FramePlaces /\ l \in FramePlaces /\ id \in Ids /\ w.new.life \in Lives
      /\ ~w.lost
  <2>1. w.src \in FramePlaces /\ l \in FramePlaces /\ id \in Ids /\ w.new.life \in Lives
    BY <1>1, <1>2, <1>3, AtWork
  <2> QED
    BY <1>3, <2>1, Zenon DEF AuthorCourse
<1>5. f \in OwnFiles /\ f.id = id /\ f.life = "cut" /\ f # NoOwn
  BY <1>2, <1>4, OwnFilesAre
<1>6. /\ own' = [own EXCEPT ![l] = f]
      /\ clobbered' = clobbered \cup Victims(p, l)
      /\ author' = [author EXCEPT ![p] = [author[p] EXCEPT !.at = "fill"]]
      /\ UNCHANGED <<drafts, today, had, torn, crossed, out, aside>>
  BY <1>2 DEF OpenFrame, GoTo
<1>7. AuthorWrites(p, l, f)
  BY <1>2, <1>3, <1>4, <1>5, <1>6 DEF AuthorWrites
<1>8. own'[l] = f /\ \A m \in FramePlaces \ {l} : own'[m] = own[m]
  BY <1>1, <1>4, <1>6 DEF FrameShape
<1>9. PICK u : u = author'[p]
  OBVIOUS
<1>10. /\ u \in Works /\ u.op = w.op /\ u.src = w.src /\ u.dst = l /\ u.new = w.new
       /\ u.at = "fill" /\ u.alone = w.alone /\ u.draft = w.draft /\ u.lost = w.lost
  <2>1. u = [w EXCEPT !.at = "fill"]
    BY <1>1, <1>2, <1>6, <1>9 DEF FrameShape
  <2>2. /\ u \in Works /\ u.op = w.op /\ u.src = w.src /\ u.dst = w.dst /\ u.new = w.new
        /\ u.at = "fill" /\ u.alone = w.alone /\ u.draft = w.draft /\ u.lost = w.lost
    BY <1>3, <2>1, AtIs
  <2> QED
    BY <1>2, <2>2
<1>11. AuthorCourse(u)
  <2>1. w.op \in {"promote", "archive", "revive"}
    BY <1>3 DEF FrameCommand
  <2> QED
    BY <1>2, <1>3, <1>4, <1>10, <2>1, Zenon DEF AuthorCourse
<1>12. \A q \in Authors \ {p} : Bystander(q, l, f)
  BY <1>1, <1>5, <1>6 DEF Bystander, FrameShape
<1>13. Opened(p)'
  BY <1>2, <1>4, <1>5, <1>8, <1>9, <1>10 DEF Opened
<1>14. Moving(p)'
  <2>1. id \notin clobbered \cup crossed /\ w.src # l => own[w.src].id = id /\ own[w.src].life \in Lives
    BY <1>1, <1>2, <1>3 DEF Moving, Moves
  <2> QED
    BY <1>2, <1>4, <1>6, <1>8, <1>9, <1>10, <2>1 DEF Moving, Moves
<1>15. ArchivingFrame(p)'
  <2> SUFFICES ASSUME w.op = "archive", w.alone, id \notin clobbered, l = w.src
               PROVE  w.src = FirstPlace(Copies(id)' \cup {w.src})
    BY <1>2, <1>6, <1>9, <1>10 DEF ArchivingFrame, Moves, FirstPlace, Copies, Parses
  <2>1. w.src = FirstPlace(Copies(id) \cup {w.src})
    BY <1>1, <1>2, <1>3 DEF ArchivingFrame, Moves
  <2>2. Copies(id)' \cup {w.src} = Copies(id) \cup {w.src}
    BY <1>4, <1>8 DEF Copies, Parses
  <2> QED
    BY <2>1, <2>2
<1>16. id \in had' => FrameStays(id)'
  <2>1. CASE u.dst = u.src
    BY <1>2, <1>9, <1>10, <2>1 DEF FrameStays, At, Moves
  <2>2. CASE u.dst # u.src
    <3>1. CASE id \in clobbered \cup crossed
      BY <1>6, <3>1 DEF FrameStays
    <3>2. CASE id \notin clobbered \cup crossed
      <4>1. own[w.src].id = id /\ own[w.src].life \in Lives
        BY <1>1, <1>2, <1>3, <1>10, <2>2, <3>2 DEF Moving, Moves
      <4> QED
        BY <1>4, <1>8, <1>10, <2>2, <4>1 DEF FrameStays, InSome
    <3> QED
      BY <3>1, <3>2
  <2> QED
    BY <2>1, <2>2
<1>17. id \notin out'
  BY <1>1, <1>2, <1>4, <1>6 DEF OutOfUse, AuthorBusy
<1>18. author' = [q \in Authors |-> author'[q]]
  BY <1>1, <1>6 DEF FrameShape
<1> QED
  BY <1>2, <1>6, <1>7, <1>9, <1>10, <1>11, <1>12, <1>13, <1>14, <1>15, <1>16, <1>17, <1>18, StepKeeps

LEMMA RemoveSourceKeeps == ASSUME FrameInv, NEW p \in Authors, RemoveSource(p) PROVE FrameInv'
<1>1. FrameShape /\ Opened(p) /\ Moving(p) /\ ArchivingFrame(p) /\ OutOfUse
  BY DEF FrameInv
<1>2. PICK w, id, l : w = author[p] /\ id = w.new.id /\ l = w.src
  OBVIOUS
<1>3. w \in Works /\ AuthorCourse(w) /\ w.at = "remove" /\ FrameCommand(w)
  BY <1>1, <1>2, AtWork DEF RemoveSource, At
<1>4. l \in FramePlaces /\ w.dst \in FramePlaces /\ id \in Ids /\ w.dst # l /\ w.new.life \in Lives
  BY <1>1, <1>2, <1>3, AtWork DEF AuthorCourse
<1>5. /\ own' = [own EXCEPT ![l] = NoOwn]
      /\ clobbered' = clobbered \cup Victims(p, l)
      /\ UNCHANGED <<drafts, today, had, torn, crossed>>
  BY <1>2 DEF RemoveSource
<1>6. AuthorWrites(p, l, NoOwn)
  BY <1>2, <1>3, <1>4, <1>5, OwnFilesAre DEF AuthorWrites
<1>7. own'[l] = NoOwn /\ \A m \in FramePlaces \ {l} : own'[m] = own[m]
  BY <1>1, <1>4, <1>5 DEF FrameShape
<1>8. author'[p] = IdleAuthor /\ author' = [q \in Authors |-> author'[q]]
  BY DEF RemoveSource
<1>9. \A q \in Authors \ {p} : Bystander(q, l, NoOwn)
  BY <1>2 DEF RemoveSource, Bystander
<1>10. Opened(p)' /\ Moving(p)' /\ ArchivingFrame(p)'
  BY <1>8, IdleWork DEF Opened, Moving, ArchivingFrame
<1>11. id \notin clobbered \cup crossed => own[w.dst].id = id /\ own[w.dst].life \in Lives
  BY <1>1, <1>2, <1>3, <1>4 DEF Moving, Moves
<1>12. id \in had' => FrameStays(id)'
  BY <1>4, <1>5, <1>7, <1>11 DEF FrameStays, InSome
<1>13. id \notin out
  BY <1>1, <1>2, <1>4 DEF OutOfUse, AuthorBusy
<1>14. out' \in {out, out \cup {id}} /\ aside' \in {aside, aside \cup {id}}
  BY <1>2 DEF RemoveSource, Retire
<1>15. ASSUME id \in out', id \notin aside' \cup clobbered'
       PROVE  AtCheck(id)' # "project"
  <2>1. w.op = "archive" /\ w.alone /\ Copies(id) \ {l, w.dst} = {}
    BY <1>2, <1>4, <1>13, <1>15 DEF RemoveSource, Retire, Moves
  <2>2. own[w.dst] = w.new /\ w.new.life = "archived"
    BY <1>1, <1>2, <1>3, <1>4, <1>5, <1>15, <2>1 DEF ArchivingFrame, Moves, AuthorCourse
  <2>3. own'[w.dst].id = id /\ own'[w.dst].life = "archived"
    BY <1>2, <1>4, <1>7, <2>2
  <2>4. Copies(id)' \subseteq {w.dst}
    BY <1>4, <1>7, <2>1, OwnFilesAre DEF Copies, Parses
  <2>5. Loaded(id)' = w.dst
    <3>1. Copies(id)' = {w.dst}
      BY <1>4, <2>3, <2>4 DEF Copies, Parses
    <3>2. PICK S : S = Copies(id)'
      OBVIOUS
    <3>3. FirstPlace(S) \in S
      BY <1>4, <3>1, <3>2, FirstIs
    <3>4. Loaded(id)' = FirstPlace(S)
      BY <3>2 DEF Loaded, FirstPlace, Rank
    <3> QED
      BY <3>1, <3>2, <3>3, <3>4
  <2> QED
    BY <2>3, <2>5 DEF AtCheck
<1>16. id \in out' => author[p].alone
  BY <1>2, <1>13 DEF RemoveSource, Retire
<1> QED
  BY <1>2, <1>5, <1>6, <1>8, <1>9, <1>10, <1>12, <1>13, <1>14, <1>15, <1>16, IdleWork, StepKeeps

LEMMA CompleteKeeps == ASSUME FrameInv, NEW l \in FramePlaces, Complete(l) PROVE FrameInv'
<1>1. FrameShape /\ Aware /\ HadKept /\ OutOfUse
  BY DEF FrameInv
<1>2. PICK id : id = own[l].id
  OBVIOUS
<1>3. own[l].life = "stub" /\ id \in Ids /\ own[l] \in [id : Ids, life : Lives \cup {"cut"}]
  BY <1>1, <1>2, StubIs DEF Complete, Lives
<1>4. PICK f : f = [own[l] EXCEPT !.life = "active"]
  OBVIOUS
<1>5. f \in OwnFiles /\ f.id = id /\ f.life = "active"
  BY <1>2, <1>3, <1>4 DEF OwnFiles, Lives
<1>6. own'[l] = f /\ (\A m \in FramePlaces \ {l} : own'[m] = own[m]) /\ own' \in [FramePlaces -> OwnFiles]
  BY <1>1, <1>4, <1>5 DEF FrameShape, Complete
<1>7. /\ \A m \in FramePlaces : own'[m].id = own[m].id /\ (own[m].life \in Lives => own'[m].life \in Lives)
      /\ \A m \in FramePlaces : own[m].id # id => own'[m] = own[m]
  BY <1>2, <1>5, <1>6 DEF Lives
<1>8. UNCHANGED <<drafts, today, had, clobbered, torn, crossed, aside>> /\ out' = out \ {id}
  BY <1>2 DEF Complete
<1>9. \A q \in Authors : author'[q] = IF AuthorBusy(q, id) THEN [author[q] EXCEPT !.alone = FALSE] ELSE author[q]
  <2>1. author' = [q \in Authors |-> IF q \in BusyWith(id)
                                     THEN [author[q] EXCEPT !.alone = FALSE] ELSE author[q]]
    BY <1>2 DEF Complete
  <2> QED
    BY <2>1 DEF BusyWith, AuthorBusy
<1>10. ASSUME NEW q \in Authors
       PROVE  /\ author'[q] \in Works /\ AuthorCourse(author'[q])
              /\ author'[q].op = author[q].op /\ author'[q].src = author[q].src
              /\ author'[q].dst = author[q].dst /\ author'[q].new = author[q].new
              /\ author'[q].at = author[q].at /\ author'[q].lost = author[q].lost
              /\ author'[q].alone => author[q].alone /\ ~AuthorBusy(q, id)
  <2>1. author[q] \in Works /\ AuthorCourse(author[q])
    BY <1>1, AtWork
  <2>2. CASE AuthorBusy(q, id)
    <3>1. PICK v : v = author'[q]
      OBVIOUS
    <3>2. /\ v \in Works /\ v.op = author[q].op /\ v.src = author[q].src
          /\ v.dst = author[q].dst /\ v.new = author[q].new /\ v.at = author[q].at
          /\ v.draft = author[q].draft /\ v.lost = author[q].lost /\ v.alone = FALSE
      <4>1. v = [author[q] EXCEPT !.alone = FALSE]
        BY <1>9, <2>2, <3>1
      <4> QED
        BY <2>1, <4>1, AloneIs
    <3>3. AuthorCourse(v)
      BY <2>1, <3>2, Zenon DEF AuthorCourse
    <3> QED
      BY <3>1, <3>2, <3>3
  <2>3. CASE ~AuthorBusy(q, id)
    BY <1>9, <2>1, <2>3
  <2> QED
    BY <2>2, <2>3
<1>11. FrameShape'
  <2>1. author' \in [Authors -> Works] /\ \A q \in Authors : AuthorCourse(author'[q])
    BY <1>10 DEF Complete
  <2> QED
    BY <1>1, <1>6, <1>8, <2>1 DEF FrameShape
<1>12. Aware'
  BY <1>1, <1>8, <1>10 DEF Aware, AuthorBusy
<1>13. \A k \in Ids \ {id} : Copies(k)' = Copies(k) /\ AtCheck(k)' = AtCheck(k)
  <2> TAKE k \in Ids \ {id}
  <2>1. Copies(k)' = Copies(k)
    BY <1>2, <1>7 DEF Copies, Parses
  <2>2. Loaded(k)' = Loaded(k)
    BY <2>1 DEF Loaded
  <2>3. Copies(k) # {} => own'[Loaded(k)] = own[Loaded(k)]
    <3>1. Copies(k) # {} => Loaded(k) \in Copies(k)
      BY LoadedIs
    <3> QED
      BY <1>7, <3>1 DEF Copies
  <2> QED
    BY <2>1, <2>2, <2>3 DEF AtCheck
<1>14. ASSUME NEW q \in Authors PROVE Opened(q)' /\ Moving(q)' /\ ArchivingFrame(q)'
  <2>1. Opened(q) /\ Moving(q) /\ ArchivingFrame(q)
    BY DEF FrameInv
  <2>2. PICK w, k : w = author[q] /\ k = w.new.id
    OBVIOUS
  <2>3. /\ w \in Works /\ AuthorCourse(w)
        /\ w.at \in {"open", "fill", "remove", "mark"} => FrameCommand(w)
        /\ FrameCommand(w) => w.src \in FramePlaces /\ w.dst \in FramePlaces /\ k \in Ids
    BY <1>1, <2>2, AtWork
  <2>4. Opened(q)'
    BY <1>7, <1>8, <1>10, <2>1, <2>2, <2>3 DEF Opened
  <2>5. Moving(q)'
    BY <1>7, <1>8, <1>10, <2>1, <2>2, <2>3 DEF Moving, Moves
  <2>6. ArchivingFrame(q)'
    <3> SUFFICES ASSUME w.op = "archive", author'[q].alone, k \notin clobbered
                 PROVE  /\ w.dst = w.src /\ w.at \in {"open", "fill"} =>
                              w.src = FirstPlace(Copies(k)' \cup {w.src})
                        /\ w.dst = w.src /\ w.at = "open" => own'[w.src].id = k
                        /\ w.dst # w.src /\ w.at = "remove" => own'[w.dst] = w.new
      BY <1>8, <1>10, <2>2 DEF ArchivingFrame, Moves, FirstPlace, Copies, Parses
    <3>1. FrameCommand(w) /\ w.src \in FramePlaces /\ w.dst \in FramePlaces /\ k \in Ids
      BY <2>3 DEF FrameCommand
    <3>2. k # id /\ w.alone
      BY <1>3, <1>10, <2>2 DEF AuthorBusy
    <3>3. Copies(k)' = Copies(k)
      BY <1>13, <3>1, <3>2
    <3>4. /\ w.dst = w.src /\ w.at \in {"open", "fill"} => w.src = FirstPlace(Copies(k) \cup {w.src})
          /\ w.dst = w.src /\ w.at = "open" => own[w.src].id = k
          /\ w.dst # w.src /\ w.at = "remove" => own[w.dst] = w.new
      BY <2>1, <2>2, <3>2 DEF ArchivingFrame, Moves
    <3>5. w.dst = w.src /\ w.at \in {"open", "fill"} => w.src = FirstPlace(Copies(k)' \cup {w.src})
      BY <3>3, <3>4
    <3> QED
      BY <1>7, <2>2, <3>1, <3>2, <3>4, <3>5
  <2> QED
    BY <2>4, <2>5, <2>6
<1>15. HadKept'
  <2>1. ASSUME NEW k \in had PROVE FrameStays(k)'
    <3>1. FrameStays(k)
      BY <1>1 DEF HadKept
    <3> QED
      BY <1>7, <1>8, <1>10, <3>1 DEF FrameStays, InSome, At, Moves
  <2> QED
    BY <1>1, <1>8, <1>10, <2>1 DEF HadKept, At
<1>16. OutOfUse'
  <2>1. \A k \in out', q \in Authors : ~AuthorBusy(q, k)'
    BY <1>1, <1>8, <1>10 DEF OutOfUse, AuthorBusy
  <2>2. out' \subseteq Ids \ {id}
    BY <1>1, <1>8 DEF FrameShape
  <2> QED
    BY <1>1, <1>8, <1>13, <2>1, <2>2 DEF OutOfUse
<1> QED
  BY <1>11, <1>12, <1>14, <1>15, <1>16 DEF FrameInv

LEMMA FillFrameKeeps == ASSUME FrameInv, NEW p \in Authors, FillFrame(p) PROVE FrameInv'
<1>1. FrameShape /\ Opened(p) /\ Moving(p) /\ ArchivingFrame(p) /\ OutOfUse
  BY DEF FrameInv
<1>2. PICK w, id, l, f : w = author[p] /\ id = w.new.id /\ l = w.dst /\ f = w.new
  OBVIOUS
<1>3. w \in Works /\ AuthorCourse(w) /\ w.at = "fill" /\ FrameCommand(w)
  BY <1>1, <1>2, AtWork DEF FillFrame, At
<1>4. /\ w.src \in FramePlaces /\ l \in FramePlaces /\ id \in Ids /\ f \in OwnFiles
      /\ f.life \in Lives /\ f # NoOwn /\ f.id = id
      /\ w.op = "archive" => f.life = "archived"
  <2>1. w.op = "archive" => f.life = "archived"
    BY <1>2, <1>3 DEF AuthorCourse
  <2> QED
    BY <1>1, <1>2, <1>3, <2>1, AtWork, OwnFilesAre DEF Lives
<1>5. /\ IF w.lost THEN UNCHANGED <<own, clobbered>>
         ELSE own' = [own EXCEPT ![l] = f] /\ clobbered' = clobbered \cup Victims(p, l)
      /\ had' = had \cup {id}
      /\ UNCHANGED <<drafts, today, torn, crossed>>
  BY <1>2 DEF FillFrame
<1>6. AuthorWrites(p, l, f)
  BY <1>2, <1>3, <1>4, <1>5 DEF AuthorWrites
<1>7. w.lost => id \in clobbered \/ (id \in crossed /\ ~w.alone)
  BY <1>1, <1>2 DEF Opened
<1>8. ~w.lost => own'[l] = f /\ \A m \in FramePlaces \ {l} : own'[m] = own[m]
  BY <1>1, <1>4, <1>5 DEF FrameShape
<1>9. clobbered \subseteq clobbered'
  BY <1>5
<1>10. id \in had' => FrameStays(id)'
  BY <1>4, <1>5, <1>7, <1>8 DEF FrameStays, InSome
<1>11. id \notin out
  BY <1>1, <1>2, <1>4 DEF OutOfUse, AuthorBusy
<1>12. \A q \in Authors \ {p} : \A u : author' = [author EXCEPT ![p] = u] => Bystander(q, l, f)
  BY <1>1, <1>4 DEF Bystander, FrameShape
<1>13. CASE w.dst # w.src \/ w.op = "promote"
  <2>1. PICK at \in {"remove", "mark"} :
          /\ at = IF w.dst # w.src THEN "remove" ELSE "mark"
          /\ author' = [author EXCEPT ![p] = [author[p] EXCEPT !.at = at]]
          /\ UNCHANGED <<out, aside>>
    <3>1. CASE w.dst # w.src
      BY <1>2, <3>1 DEF FillFrame, GoTo, Moves
    <3>2. CASE ~(w.dst # w.src) /\ w.op = "promote"
      BY <1>2, <3>2 DEF FillFrame, GoTo, Moves
    <3> QED
      BY <1>13, <3>1, <3>2
  <2>2. PICK u : u = author'[p]
    OBVIOUS
  <2>3. u = [w EXCEPT !.at = at]
    BY <1>1, <1>2, <2>1, <2>2 DEF FrameShape
  <2>4. /\ u \in Works /\ u.op = w.op /\ u.src = w.src /\ u.dst = w.dst /\ u.new = w.new
        /\ u.at = at /\ u.alone = w.alone /\ u.draft = w.draft /\ u.lost = w.lost
    <3>1. CASE at = "remove"
      <4>1. u = [w EXCEPT !.at = "remove"]
        BY <2>3, <3>1
      <4>2. /\ u \in Works /\ u.op = w.op /\ u.src = w.src /\ u.dst = w.dst /\ u.new = w.new
            /\ u.at = "remove" /\ u.alone = w.alone /\ u.draft = w.draft /\ u.lost = w.lost
        BY <1>3, <4>1, AtIs
      <4> QED
        BY <3>1, <4>2
    <3>2. CASE at = "mark"
      <4>1. u = [w EXCEPT !.at = "mark"]
        BY <2>3, <3>2
      <4>2. /\ u \in Works /\ u.op = w.op /\ u.src = w.src /\ u.dst = w.dst /\ u.new = w.new
            /\ u.at = "mark" /\ u.alone = w.alone /\ u.draft = w.draft /\ u.lost = w.lost
        BY <1>3, <4>1, AtIs
      <4> QED
        BY <3>2, <4>2
    <3> QED
      BY <2>1, <3>1, <3>2
  <2>5. AuthorCourse(u)
    <3>1. w.op \in {"promote", "archive", "revive"}
      BY <1>3 DEF FrameCommand
    <3>2. /\ at \in {"remove", "mark"}
          /\ at = "remove" => w.dst # w.src
          /\ at = "mark" => w.op = "promote"
      BY <1>13, <2>1
    <3>3. at # "end" /\ at # "draft"
      BY <3>2
    <3>4. u.op # "idle" /\ u.op # "new" /\ u.at # "end" /\ u.at # "draft"
      BY <2>4, <3>1, <3>3
    <3>5. u.lost => u.at \in {"fill", "remove", "mark"}
      BY <2>4, <3>2
    <3> QED
      BY <1>2, <1>3, <2>4, <3>1, <3>2, <3>4, <3>5, Zenon DEF AuthorCourse
  <2>6. Opened(p)'
    <3>1. u.at # "fill"
      BY <2>1, <2>4
    <3> QED
      BY <1>2, <1>5, <1>7, <1>9, <2>2, <2>4, <3>1 DEF Opened
  <2>7. Moving(p)'
    <3> SUFFICES ASSUME id \notin clobbered' \cup crossed', u.dst # u.src
                 PROVE  own'[u.dst].id = id /\ own'[u.dst].life \in Lives
      BY <1>2, <2>1, <2>2, <2>4 DEF Moving, Moves
    <3> QED
      BY <1>2, <1>4, <1>5, <1>7, <1>8, <1>9, <2>4
  <2>8. ArchivingFrame(p)'
    <3> SUFFICES ASSUME id \notin clobbered', u.op = "archive", u.alone, u.dst # u.src
                 PROVE  own'[u.dst] = u.new
      BY <1>2, <1>13, <2>1, <2>2, <2>4 DEF ArchivingFrame, Moves
    <3> QED
      BY <1>2, <1>7, <1>8, <1>9, <2>4
  <2>9. author' = [q \in Authors |-> author'[q]] /\ \A q \in Authors \ {p} : Bystander(q, l, f)
    BY <1>1, <1>12, <2>1 DEF FrameShape
  <2>10. author'[p].new = author[p].new /\ author'[p].alone = author[p].alone
    BY <1>2, <2>2, <2>4
  <2>11. id \in had' /\ id \notin out'
    BY <1>5, <1>11, <2>1
  <2> QED
    BY <1>2, <1>5, <1>6, <1>10, <2>1, <2>2, <2>4, <2>5, <2>6, <2>7, <2>8, <2>9, <2>10, <2>11, StepKeeps
<1>14. CASE w.dst = w.src /\ w.op # "promote"
  <2>1. author' = [author EXCEPT ![p] = IdleAuthor] /\ Retire(p)
    BY <1>2, <1>14 DEF FillFrame, GoTo, Moves
  <2>2. author'[p] = IdleAuthor /\ author' = [q \in Authors |-> author'[q]]
    BY <1>1, <2>1 DEF FrameShape
  <2>3. Opened(p)' /\ Moving(p)' /\ ArchivingFrame(p)'
    BY <2>2, IdleWork DEF Opened, Moving, ArchivingFrame
  <2>4. out' \in {out, out \cup {id}} /\ aside' \in {aside, aside \cup {id}}
    BY <1>2, <2>1 DEF Retire
  <2>5. id \in out' => w.op = "archive" /\ w.alone
    BY <1>2, <1>11, <2>1 DEF Retire
  <2>6. ASSUME id \in out', id \notin aside' \cup clobbered'
        PROVE  AtCheck(id)' # "project"
    <3>1. w.op = "archive" /\ w.alone /\ id \notin clobbered /\ ~w.lost
      BY <1>7, <1>9, <2>5, <2>6
    <3>2. w.src = FirstPlace(Copies(id) \cup {w.src})
      BY <1>1, <1>2, <1>3, <1>14, <3>1 DEF ArchivingFrame, Moves
    <3>3. own'[w.src].id = id /\ own'[w.src].life = "archived"
      BY <1>2, <1>4, <1>8, <1>14, <3>1
    <3>4. Copies(id)' = Copies(id) \cup {w.src}
      BY <1>2, <1>4, <1>8, <1>14, <3>1, <3>3 DEF Copies, Parses
    <3>5. PICK S : S = Copies(id)'
      OBVIOUS
    <3>6. w.src = FirstPlace(S)
      BY <3>2, <3>4, <3>5
    <3>7. Loaded(id)' = FirstPlace(S)
      BY <3>5 DEF Loaded, FirstPlace, Rank
    <3> QED
      BY <3>3, <3>6, <3>7 DEF AtCheck
  <2>7. \A q \in Authors \ {p} : Bystander(q, l, f)
    BY <1>12, <2>1
  <2> QED
    BY <1>2, <1>5, <1>6, <1>10, <2>2, <2>3, <2>4, <2>5, <2>6, <2>7, IdleWork, StepKeeps
<1> QED
  BY <1>13, <1>14

LEMMA FramesStay == ASSUME FrameInv, [FrameLifeNext]_frameLifeVars PROVE FrameInv'
<1>1. ASSUME NEW p \in Authors, NEW s \in Slugs, NewIncident(p, s) PROVE FrameInv'
  BY <1>1, NewIncidentKeeps
<1>2. ASSUME NEW p \in Authors, NEW s \in Slugs, NEW id \in Ids, Promote(p, s, id) PROVE FrameInv'
  BY <1>2, PromoteKeeps
<1>3. ASSUME NEW p \in Authors, NEW id \in Ids, NEW move \in BOOLEAN,
             Archive(p, id, move) \/ Revive(p, id, move)
      PROVE  FrameInv'
  BY <1>3, ArchiveKeeps, ReviveKeeps
<1>4. ASSUME NEW p \in Authors,
             \/ WriteDraft(p) \/ OpenFrame(p) \/ FillFrame(p)
             \/ RemoveSource(p) \/ MarkDraft(p) \/ AuthorStops(p)
      PROVE  FrameInv'
  BY <1>4, WriteDraftKeeps, OpenFrameKeeps, FillFrameKeeps, RemoveSourceKeeps, MarkDraftKeeps,
     AuthorStopsKeeps
<1>5. ASSUME NEW l \in FramePlaces, Complete(l) PROVE FrameInv'
  BY <1>5, CompleteKeeps
<1>6. ASSUME NextDay \/ UNCHANGED frameLifeVars PROVE FrameInv'
  <2>1. /\ UNCHANGED <<drafts, own, author, had, clobbered, torn, crossed, out, aside>>
        /\ today' \in 1 .. MaxDays
    BY <1>6 DEF NextDay, frameLifeVars, FrameInv, FrameShape
  <2>2. FrameShape'
    BY <2>1 DEF FrameInv, FrameShape
  <2>3. Aware'
    BY <2>1 DEF FrameInv, Aware, AuthorBusy
  <2>4. HadKept'
    BY <2>1 DEF FrameInv, HadKept, FrameStays, InSome, At, Moves
  <2>5. OutOfUse'
    <3>1. \A id \in out : AtCheck(id)' = AtCheck(id)
      BY <2>1 DEF AtCheck, Loaded, Copies, Parses
    <3>2. \A id \in out, p \in Authors : ~AuthorBusy(p, id)'
      BY <2>1 DEF FrameInv, OutOfUse, AuthorBusy
    <3> QED
      BY <2>1, <3>1, <3>2 DEF FrameInv, OutOfUse
  <2>6. ASSUME NEW p \in Authors PROVE Opened(p)' /\ Moving(p)' /\ ArchivingFrame(p)'
    BY <2>1 DEF FrameInv, Opened, Moving, Moves, ArchivingFrame, FirstPlace, Copies, Parses
  <2> QED
    BY <2>2, <2>3, <2>4, <2>5, <2>6 DEF FrameInv
<1> QED
  BY <1>1, <1>2, <1>3, <1>4, <1>5, <1>6 DEF FrameLifeNext

LEMMA FrameInvHolds == FrameLifeSpec => []FrameInv
<1>1. FrameInv /\ [FrameLifeNext]_frameLifeVars => FrameInv'
  BY FramesStay
<1> QED
  BY <1>1, FirstFrames, PTL DEF FrameLifeSpec

\* A frame the project had is in some file still, whatever promotions, archives, revivals,
\* completions and deaths there were in between, in any number of processes (incident.go,
\* frame.go): except for what FramesKept names.
THEOREM FramesKeptCorrect == FrameLifeSpec => []FramesKept
<1>1. FrameInv => FramesKept
  <2> SUFFICES ASSUME FrameInv, NEW id \in had \cup {drafts[i].to :
                        i \in {j \in DOMAIN drafts : drafts[j].status = "promoted"}}
               PROVE  \/ \E l \in FramePlaces : own[l].id = id
                                              /\ own[l].life \in {"stub", "active", "archived"}
                      \/ id \in clobbered \cup torn \cup crossed
                      \/ \E p \in Authors : At(p, "fill") /\ author[p].new.id = id /\ ~Moves(p)
    BY DEF FramesKept
  <2>1. id \in had
    BY DEF FrameInv, HadKept
  <2> QED
    BY <2>1 DEF FrameInv, HadKept, FrameStays, InSome, Lives
<1> QED
  BY <1>1, FrameInvHolds, PTL

\* Once `frame archive` says it is done, `check` does not use the project's version of that
\* frame until another command or the user touches it (check.go, loader.go).
THEOREM ArchivedStaysOutCorrect == FrameLifeSpec => []ArchivedStaysOut
<1>1. FrameInv => ArchivedStaysOut
  BY DEF FrameInv, OutOfUse, ArchivedStaysOut
<1> QED
  BY <1>1, FrameInvHolds, PTL

\* The drafts and the frames of a project have their types.
THEOREM FrameLifeTypeCorrect == FrameLifeSpec => []FrameLifeTypeOK
<1>1. FrameInv => FrameLifeTypeOK
  BY DEF FrameInv, FrameShape, OwnFiles, Lives, FrameLifeTypeOK
<1> QED BY <1>1, FrameInvHolds, PTL
=============================================================================
