----------------------------- MODULE TaskLedger -----------------------------
(***************************************************************************)
(* The findings ledger of a working copy: which findings are open,         *)
(* deferred or resolved.  `nimblegate check` reconciles it with a scan of  *)
(* the whole tree, `nimblegate tasks` changes it, `git push` reads it at   *)
(* the production boundary, `nimblegate fix` to verify, `slice done` to    *)
(* tell what a slice introduced.  The commands are processes; each reads   *)
(* the file, works on its copy and renames over it a temporary file whose  *)
(* name all share.  A push that is forced runs no check and reads nothing. *)
(* The findings are those of frames: linters run in a check, not at a push.*)
(***************************************************************************)
EXTENDS Naturals, FiniteSets

CONSTANTS Findings,        \* what can be found: frame, file and label
          Grave,           \* of severity BLOCK
          Commands,        \* processes at one time
          Scopes,          \* of a pause: the machine and the project
          DeferDates,      \* the dates of `--until`; 0 is none
          MaxCommands,     \* bound: commands in one behaviour
          MaxTreeEdits,    \* bound: edits of the tree
          MaxMoments,      \* bound: the clock
          MaxLedgerFaults  \* bound: failing writes and deaths

ASSUME TaskLedgerAssumption ==
    /\ Grave \subseteq Findings
    /\ DeferDates \subseteq 0 .. MaxMoments
    /\ MaxMoments > 0 /\ {MaxCommands, MaxTreeEdits, MaxMoments, MaxLedgerFaults} \subseteq Nat

VARIABLES tree,       \* what a check of the whole tree finds
          paused,     \* the scopes in which nimblegate is paused
          ledger,     \* the ledger's file
          ledgerTmp,  \* its temporary name
          command,    \* the processes
          slice,      \* when the open slice started, or 0
          moment,     \* the clock
          lastFound, born, waived, everDeferred, overlapped,  \* history, see Properties
          commands, treeEdits, ledgerFaults

ledgerVars == <<tree, paused, ledger, ledgerTmp, command, slice, moment, lastFound, born, waived,
                everDeferred, overlapped, commands, treeEdits, ledgerFaults>>

Task == [status : {"none", "open", "deferred", "resolved"}, until : 0 .. MaxMoments,
         first : 0 .. MaxMoments]
Untracked == [status |-> "none", until |-> 0, first |-> 0]
OpenTask(now) == [status |-> "open", until |-> 0, first |-> now]
NoTasks == [f \in Findings |-> Untracked]

\* A file: absent, whole, or cut short (then the parser refuses it).
LedgerFiles == [kind : {"absent", "torn", "whole"}, tasks : [Findings -> Task]]
NoLedger == [kind |-> "absent", tasks |-> NoTasks]
CutLedger == [kind |-> "torn", tasks |-> NoTasks]
LedgerOf(tasks) == [kind |-> "whole", tasks |-> tasks]

Reconciling == {"check", "fix"}
Mutations == {"defer", "undefer", "link"}

NoCommand == [at |-> "idle", op |-> "check", on |-> {}, until |-> 0, found |-> {}, when |-> 0,
              mine |-> NoTasks, fd |-> "none"]

\* The ledger does not exist yet, or one check was run, at the first moment.
TaskLedgerInit ==
    /\ tree \in SUBSET Findings /\ lastFound \in SUBSET Findings
    /\ moment = (IF lastFound = {} THEN 0 ELSE 1)
    /\ born = [f \in Findings |-> IF f \in lastFound THEN 1 ELSE 0]
    /\ ledger = (IF lastFound = {} THEN NoLedger
                 ELSE LedgerOf([f \in Findings |->
                           IF f \in lastFound THEN OpenTask(1) ELSE Untracked]))
    /\ ledgerTmp = NoLedger
    /\ command = [p \in Commands |-> NoCommand]
    /\ slice = 0 /\ paused = {}
    /\ waived = {} /\ everDeferred = {} /\ overlapped = FALSE
    /\ commands = 0 /\ treeEdits = 0 /\ ledgerFaults = 0

-----------------------------------------------------------------------------
(* The developer, the agent, pause and resume.                             *)

EditTree(found) ==
    /\ treeEdits < MaxTreeEdits
    /\ treeEdits' = treeEdits + 1
    /\ tree' = found
    /\ UNCHANGED <<paused, ledger, ledgerTmp, command, slice, moment, lastFound, born, waived,
                   everDeferred, overlapped, commands, ledgerFaults>>

\* Time shows when a command that writes it down reads the clock.
ClockTicks == moment < MaxMoments /\ moment' = moment + 1

CommandRuns == commands < MaxCommands /\ commands' = commands + 1

Pause(scope) ==
    /\ CommandRuns
    /\ paused' = paused \cup {scope}
    /\ UNCHANGED <<tree, ledger, ledgerTmp, command, slice, moment, lastFound, born, waived,
                   everDeferred, overlapped, treeEdits, ledgerFaults>>

\* One scope, both, or, unless one is named, the project's before the global one.
Resume(scopes) ==
    /\ scopes # {} /\ scopes \subseteq paused
    /\ paused' = paused \ scopes
    /\ UNCHANGED <<tree, ledger, ledgerTmp, command, slice, moment, lastFound, born, waived,
                   everDeferred, overlapped, commands, treeEdits, ledgerFaults>>

-----------------------------------------------------------------------------
(* Reconcile.                                                              *)

\* A finding of this run: new, back again, or still there.
Sighted(t, now) ==
    CASE t.status = "none" -> OpenTask(now)
      [] t.status = "resolved" -> [t EXCEPT !.status = "open"]
      [] t.status = "deferred" /\ t.until \in 1 .. now -> [t EXCEPT !.status = "open", !.until = 0]
      [] OTHER -> t

\* A finding this run did not have is fixed, deferred or not.
Missed(t) == IF t.status \in {"open", "deferred"} THEN [t EXCEPT !.status = "resolved", !.until = 0]
             ELSE t

Reconcile(tasks, found, now) ==
    [f \in Findings |-> IF f \in found THEN Sighted(tasks[f], now) ELSE Missed(tasks[f])]

-----------------------------------------------------------------------------
(* The commands start.                                                     *)

BeginCommand(p, op, at, on, until) ==
    /\ command[p].at = "idle"
    /\ CommandRuns
    /\ command' = [command EXCEPT ![p] = [NoCommand EXCEPT !.at = at, !.op = op, !.on = on,
                                                           !.until = until]]
    /\ UNCHANGED <<tree, paused, ledger, ledgerTmp, slice, moment, lastFound, born, waived,
                   everDeferred, overlapped, treeEdits, ledgerFaults>>

\* Paused, a check does nothing, and git runs unchecked.
BeginCheck(p) == paused = {} /\ BeginCommand(p, "check", "scan", {}, 0)
BeginPush(p) == paused = {} /\ BeginCommand(p, "push", "scan", {}, 0)
BeginDefer(p, f, until) == BeginCommand(p, "defer", "load", {f}, until)
BeginOther(p, op, f) == BeginCommand(p, op, "load", {f}, 0)

\* The target may have any status; the prompt goes to the agent.
BeginFix(p, f) ==
    /\ ledger.kind = "whole" /\ ledger.tasks[f].status # "none"
    /\ BeginCommand(p, "fix", "agent", {f}, 0)

StepTo(p, new) ==
    /\ command' = [command EXCEPT ![p] = new]
    /\ UNCHANGED <<tree, paused, ledger, ledgerTmp, slice, lastFound, born, waived, commands,
                   treeEdits, ledgerFaults>>

\* The agent has edited what it would; `nimblegate check` is run as a child.
AgentEnds(p) ==
    /\ command[p].at = "agent"
    /\ StepTo(p, [command[p] EXCEPT !.at = IF paused = {} THEN "scan" ELSE "verify"])
    /\ UNCHANGED <<moment, everDeferred, overlapped>>

\* Nothing of the ledger is written: an unreadable file, an operation that does not apply.
QuitCommand(p) == IF command[p].op = "fix"
                  THEN [NoCommand EXCEPT !.at = "verify", !.op = "fix", !.on = command[p].on]
                  ELSE NoCommand

\* The frames run over the whole tree, and the whitelist is applied.
ScanTree(p) ==
    /\ command[p].at = "scan"
    /\ StepTo(p, [command[p] EXCEPT !.at = IF command[p].op = "push" THEN "gate" ELSE "load",
                                     !.found = tree])
    /\ UNCHANGED <<moment, everDeferred, overlapped>>

\* A whitelist that does not load ends a check and refuses a push; a push is refused also
\* for what the frames that guard the command itself find.
ScanRefuses(p) ==
    /\ command[p].at = "scan"
    /\ StepTo(p, IF command[p].op = "push" THEN [NoCommand EXCEPT !.at = "blocked"]
                 ELSE QuitCommand(p))
    /\ UNCHANGED <<moment, everDeferred, overlapped>>

\* The processes between their read of the ledger and their rename.
Saving == {p \in Commands : command[p].at \in {"save", "fill", "rename"}}

LoadFails(p) ==
    /\ command[p].at = "load" /\ ledger.kind = "torn"
    /\ StepTo(p, QuitCommand(p))
    /\ UNCHANGED <<moment, everDeferred, overlapped>>

\* `nimblegate check`: the ledger is read and reconciled.
LoadAndReconcile(p) ==
    /\ command[p].at = "load" /\ command[p].op \in Reconciling /\ ledger.kind # "torn"
    /\ ClockTicks
    /\ StepTo(p, [command[p] EXCEPT !.at = "save", !.when = moment',
                      !.mine = Reconcile(ledger.tasks, command[p].found, moment')])
    /\ overlapped' = (overlapped \/ Saving # {})
    /\ UNCHANGED everDeferred

Applies(op, t) ==
    CASE op = "defer" -> t.status \in {"open", "deferred"}
      [] op = "undefer" -> t.status = "deferred"
      [] op = "link" -> t.status # "none"

\* A link or its removal changes no status, and rewrites the file all the same.
Mutated(op, t, until) ==
    CASE op = "defer" -> [t EXCEPT !.status = "deferred", !.until = until]
      [] op = "undefer" -> [t EXCEPT !.status = "open", !.until = 0]
      [] op = "link" -> t

\* `nimblegate tasks`.
LoadAndMutate(p) ==
    /\ command[p].at = "load" /\ command[p].op \in Mutations /\ ledger.kind # "torn"
    /\ LET e == command[p]
           refused == \E f \in e.on : ~Applies(e.op, ledger.tasks[f])
       IN IF refused
          THEN /\ StepTo(p, QuitCommand(p))
               /\ UNCHANGED <<everDeferred, overlapped>>
          ELSE /\ StepTo(p, [e EXCEPT !.at = "save", !.mine = [f \in Findings |->
                        IF f \in e.on THEN Mutated(e.op, ledger.tasks[f], e.until)
                        ELSE ledger.tasks[f]]])
               /\ everDeferred' = IF e.op = "defer" THEN everDeferred \cup e.on ELSE everDeferred
               /\ overlapped' = (overlapped \/ Saving # {})
    /\ UNCHANGED moment

-----------------------------------------------------------------------------
(* Save.                                                                   *)

OpenLedgerTmp(p) ==
    /\ command[p].at = "save"
    /\ ledgerTmp' = CutLedger
    /\ command' = [command EXCEPT ![p] = [command[p] EXCEPT !.at = "fill", !.fd = "tmp"]]
    /\ UNCHANGED <<tree, paused, ledger, slice, moment, lastFound, born, waived, everDeferred,
                   overlapped, commands, treeEdits, ledgerFaults>>

\* What was longer, and written there before, shows behind what is written now.
LedgerWritten(file, tasks) ==
    {LedgerOf(tasks)} \cup (IF file.kind = "whole" THEN {CutLedger} ELSE {})

FillLedgerTmp(p) ==
    /\ command[p].at = "fill"
    /\ LET e == command[p]
       IN /\ IF e.fd = "tmp" THEN ledgerTmp' \in LedgerWritten(ledgerTmp, e.mine)
             ELSE UNCHANGED ledgerTmp
          /\ IF e.fd = "live" THEN ledger' \in LedgerWritten(ledger, e.mine) ELSE UNCHANGED ledger
          /\ command' = [command EXCEPT ![p] = [e EXCEPT !.at = "rename", !.mine = NoTasks]]
    /\ UNCHANGED <<tree, paused, slice, moment, lastFound, born, waived, everDeferred, overlapped,
                   commands, treeEdits, ledgerFaults>>

LedgerFault == ledgerFaults < MaxLedgerFaults /\ ledgerFaults' = ledgerFaults + 1

\* A write that fails leaves the temporary file; `check` does not mind.
SaveFails(p) ==
    /\ command[p].at = "fill"
    /\ LedgerFault
    /\ command' = [command EXCEPT ![p] = QuitCommand(p)]
    /\ UNCHANGED <<tree, paused, ledger, ledgerTmp, slice, moment, lastFound, born, waived,
                   everDeferred, overlapped, commands, treeEdits>>

FdFollows(fd) == CASE fd = "tmp" -> "live" [] fd = "live" -> "gone" [] OTHER -> fd

\* The deferrals that stand once e is saved: a check ends those of findings it missed and
\* those whose date has come.
Standing(e) ==
    CASE e.op \in Reconciling ->
            {w \in waived : w[1] \in e.found /\ (w[2] = 0 \/ w[2] > e.when)}
      [] e.op = "defer" -> {w \in waived : w[1] \notin e.on} \cup (e.on \X {e.until})
      [] e.op = "undefer" -> {w \in waived : w[1] \notin e.on}
      [] OTHER -> waived

RenameLedgerTmp(p) ==
    /\ command[p].at = "rename"
    /\ LET e == command[p]
       IN IF ledgerTmp.kind = "absent"
          THEN /\ command' = [command EXCEPT ![p] = QuitCommand(p)]
               /\ UNCHANGED <<ledger, ledgerTmp, lastFound, born, waived>>
          ELSE /\ ledger' = ledgerTmp /\ ledgerTmp' = NoLedger
               /\ command' = [q \in Commands |->
                     IF q = p THEN QuitCommand(p)
                     ELSE [command[q] EXCEPT !.fd = FdFollows(@)]]
               /\ waived' = Standing(e)
               /\ lastFound' = IF e.op \in Reconciling THEN e.found ELSE lastFound
               /\ born' = [f \in Findings |->
                     IF e.op \in Reconciling /\ f \in e.found /\ born[f] = 0 THEN e.when
                     ELSE born[f]]
    /\ UNCHANGED <<tree, paused, slice, moment, everDeferred, overlapped, commands, treeEdits,
                   ledgerFaults>>

CommandDies(p) ==
    /\ command[p].at \notin {"idle", "passed", "blocked", "cleared", "firing"}
    /\ LedgerFault
    /\ command' = [command EXCEPT ![p] = NoCommand]
    /\ UNCHANGED <<tree, paused, ledger, ledgerTmp, slice, moment, lastFound, born, waived,
                   everDeferred, overlapped, commands, treeEdits>>

-----------------------------------------------------------------------------
(* The readers.                                                            *)

\* A ledger that cannot be read is an empty one.
KnownTasks == ledger.tasks

\* Variant: only what a check has recorded as open holds a push.
BlockingOpen(found) == {f \in found \cap Grave : KnownTasks[f].status = "open"}

\* filterBlocking: what the gate holds a push for.
Blocking(found) == {f \in found \cap Grave : KnownTasks[f].status # "deferred"}

\* prodBoundaryGate: the ledger is read for the deferrals, and git runs or does not.
GateReads(p) ==
    /\ command[p].at = "gate"
    /\ StepTo(p, [NoCommand EXCEPT
                      !.at = IF Blocking(command[p].found) = {} THEN "passed" ELSE "blocked"])
    /\ UNCHANGED <<moment, everDeferred, overlapped>>

\* A target without a task, or with a resolved one, is reported as resolved.
Cleared(f) == KnownTasks[f].status \in {"none", "resolved"}

\* verifyFixes.
Verify(p) ==
    /\ command[p].at = "verify"
    /\ StepTo(p, [NoCommand EXCEPT
                      !.at = IF \A f \in command[p].on : Cleared(f) THEN "cleared" ELSE "firing"])
    /\ UNCHANGED <<moment, everDeferred, overlapped>>

CommandEnds(p) ==
    /\ command[p].at \in {"passed", "blocked", "cleared", "firing"}
    /\ StepTo(p, NoCommand)
    /\ UNCHANGED <<moment, everDeferred, overlapped>>

\* What `slice done` holds against the slice.
Introduced == {f \in Grave : KnownTasks[f].status = "open" /\ KnownTasks[f].first >= slice}

SliceStart ==
    /\ CommandRuns
    /\ slice = 0
    /\ ClockTicks
    /\ slice' = moment'
    /\ UNCHANGED <<tree, paused, ledger, ledgerTmp, command, lastFound, born, waived,
                   everDeferred, overlapped, treeEdits, ledgerFaults>>

SliceDone ==
    /\ slice # 0
    /\ slice' = 0
    /\ UNCHANGED <<tree, paused, ledger, ledgerTmp, command, moment, lastFound, born, waived,
                   everDeferred, overlapped, commands, treeEdits, ledgerFaults>>

TaskLedgerNext ==
    \/ \E found \in SUBSET Findings : EditTree(found)
    \/ \E scope \in Scopes : Pause(scope)
    \/ \E scopes \in SUBSET Scopes : Resume(scopes)
    \/ SliceStart \/ SliceDone
    \/ \E p \in Commands :
          \/ BeginCheck(p) \/ BeginPush(p)
          \/ \E f \in Findings : BeginFix(p, f)
          \/ \E f \in Findings, until \in DeferDates : BeginDefer(p, f, until)
          \/ \E op \in {"undefer", "link"}, f \in Findings : BeginOther(p, op, f)
          \/ AgentEnds(p) \/ ScanTree(p) \/ ScanRefuses(p) \/ LoadFails(p)
          \/ LoadAndReconcile(p) \/ LoadAndMutate(p) \/ OpenLedgerTmp(p) \/ FillLedgerTmp(p)
          \/ SaveFails(p) \/ RenameLedgerTmp(p) \/ CommandDies(p) \/ GateReads(p) \/ Verify(p) \/ CommandEnds(p)

TaskLedgerSpec == TaskLedgerInit /\ [][TaskLedgerNext]_ledgerVars

-----------------------------------------------------------------------------
(* Properties.  lastFound is what the last check to be saved had found,    *)
(* born when a check first saved a finding, waived the deferrals, with     *)
(* their dates, that no later command ended, everDeferred what was ever    *)
(* deferred; overlapped says that two commands held copies of the ledger   *)
(* at once.                                                                *)

CommandStates ==
    [at : {"idle", "agent", "scan", "load", "save", "fill", "rename", "gate", "verify",
           "passed", "blocked", "cleared", "firing"},
     op : Reconciling \cup Mutations \cup {"push"}, on : SUBSET Findings,
     until : 0 .. MaxMoments, found : SUBSET Findings, when : 0 .. MaxMoments,
     mine : [Findings -> Task], fd : {"none", "tmp", "live", "gone"}]

\* The ledger, the processes and the history have values the commands give them.
TaskLedgerTypeOK ==
    /\ {tree, lastFound, everDeferred} \subseteq SUBSET Findings
    /\ paused \subseteq Scopes
    /\ ledger \in LedgerFiles /\ ledgerTmp \in LedgerFiles
    /\ command \in [Commands -> CommandStates]
    /\ slice \in 0 .. MaxMoments /\ moment \in 0 .. MaxMoments
    /\ born \in [Findings -> 0 .. MaxMoments]
    /\ waived \subseteq Findings \X (0 .. MaxMoments)
    /\ overlapped \in BOOLEAN
    /\ commands \in 0 .. MaxCommands /\ treeEdits \in 0 .. MaxTreeEdits
    /\ ledgerFaults \in 0 .. MaxLedgerFaults

\* A push that the gate lets through carries a BLOCK finding only on a deferral that still
\* stands: no check has missed the finding since, nor found it after the date.  Commands that
\* overlapped can bring an older deferral back, but none that was never given, whatever is
\* left of the file.
PushConsented ==
    [][\A p \in Commands :
          command[p].at = "gate" /\ command'[p].at = "passed" =>
             \A f \in command[p].found \cap Grave :
                IF overlapped THEN f \in everDeferred ELSE \E w \in waived : w[1] = f]_ledgerVars

\* `nimblegate fix` reports a target as resolved only if the last check that was recorded
\* did not find it, whatever the agent, a pause or a failing check did, unless commands
\* overlapped.
FixVerified ==
    [][\A p \in Commands :
          command[p].at = "verify" /\ command'[p].at = "cleared" =>
             overlapped \/ command[p].on \cap lastFound = {}]_ledgerVars

\* At any time, `slice done` would name exactly the BLOCK findings of the last check that no
\* check had ever recorded before the slice and that are not deferred, unless commands
\* overlapped.
SliceBlames ==
    slice # 0 /\ ~overlapped =>
        Introduced = {f \in lastFound \cap Grave :
                         born[f] >= slice /\ \A w \in waived : w[1] # f}
=============================================================================
