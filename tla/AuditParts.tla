----------------------------- MODULE AuditParts -----------------------------
(***************************************************************************)
(* The audit log of one checkout.  Every invocation of the program writes  *)
(* a part file of its own, which it rotates; CompactAudit, which `status`  *)
(* and `audit` run, appends the parts nobody wrote to for a while to       *)
(* audit.log, which it rotates, and removes them, under a lock file.       *)
(* Readers take audit.log, the parts, and what both were rotated to.       *)
(***************************************************************************)
EXTENDS Naturals, Sequences, FiniteSets

CONSTANTS Invocations,    \* the processes that write
          Compactors,     \* the processes that compact
          MaxEntries,     \* bound: the entries of each invocation
          MaxFiles,       \* rotated files kept, of a part and of audit.log
          PartLimit,      \* entries in a part before it is rotated
          LogLimit,       \* entries in audit.log before it is rotated
          MaxCompactions, \* bound: compactions started
          MaxAuditFaults  \* bound: calls that fail, writes cut short, compactors that die

ASSUME AuditPartsAssumption ==
    /\ MaxEntries \in [Invocations -> Nat]
    /\ MaxCompactions \in Nat /\ MaxAuditFaults \in Nat
    /\ MaxFiles \in Nat \ {0} /\ PartLimit \in Nat \ {0} /\ LogLimit \in Nat \ {0}

VARIABLES part,      \* the files of each invocation: 0 its part, i what was rotated to .i
          writer,    \* the invocation: its file open, that still linked, entries written to it
          written,   \* entries it wrote so far
          auditLog,  \* 0 audit.log, i what was rotated to .i: the writes appended, in order
          locked,    \* .compact.lock exists
          compactor,
          outlived,  \* invocations that changed a file a compactor had read, or lost their part
          discarded, \* entries in a file dropped by rotation, or joined to half a line
          cut,       \* invocations of whom a compactor appended a part it did not remove
          auditCount, auditFaults

auditVars == <<part, writer, written, auditLog, locked, compactor, outlived, discarded, cut,
               auditCount, auditFaults>>

Slots == 0 .. MaxFiles

\* A part holds the entries in the order of their numbers; torn says that it ends in half a
\* line, fresh that it was written to within the quiescence window.
NoPart == [there |-> FALSE, fresh |-> FALSE, torn |-> FALSE, lines |-> {}]
NewPart == [NoPart EXCEPT !.there = TRUE, !.fresh = TRUE]
NoLog == [batches |-> <<>>, torn |-> FALSE]
IdleCompactor == [at |-> "idle", list |-> {}, file |-> <<>>, inHand |-> NoPart]

\* The files fs when those from number k on have moved up, the last of them dropped, and k
\* is empty: 0 for a whole rotation, more for one that stopped at a rename.
Shifted(fs, k, empty) ==
    [i \in Slots |-> IF i < k THEN fs[i] ELSE IF i = k THEN empty ELSE fs[i - 1]]

\* What readers find of the lines S behind a file's end: half a line takes the first with it.
Readable(torn, S) == {n \in S : torn => \E m \in S : m < n}

AuditPartsInit ==
    /\ part = [p \in Invocations |-> [i \in Slots |-> IF i = 0 THEN NewPart ELSE NoPart]]
    /\ writer = [p \in Invocations |-> [up |-> TRUE, linked |-> TRUE, size |-> 0]]
    /\ written = [p \in Invocations |-> 0]
    /\ auditLog = [i \in Slots |-> NoLog]
    /\ locked = FALSE
    /\ compactor = [c \in Compactors |-> IdleCompactor]
    /\ outlived = {}
    /\ discarded = {}
    /\ cut = {}
    /\ auditCount = 0
    /\ auditFaults = 0

-----------------------------------------------------------------------------
(* The invocations.                                                        *)

\* A step of p changes the file a compactor has read and not yet removed.
Overtaken(p) ==
    \E c \in Compactors, i \in Slots :
        /\ compactor[c].at \in {"append", "remove"}
        /\ compactor[c].file = <<p, i>>
        /\ part'[p][i] # part[p][i]

FullPart(p) == writer[p].size >= PartLimit

\* The files a line of p goes to, and what its rotation dropped.
Ready(p) == IF FullPart(p) THEN Shifted(part[p], 0, NewPart) ELSE part[p]
RotatedOut(p, k) == {p} \X (IF k <= MaxFiles THEN part[p][MaxFiles].lines ELSE {})

\* Write rotates a part that is full, and appends.
WriteEntry(p) ==
    LET e == written[p] + 1
        fs == Ready(p)
        found == Readable(fs[0].torn, {e})
    IN /\ writer[p].up /\ writer[p].linked
       /\ e <= MaxEntries[p]
       /\ written' = [written EXCEPT ![p] = e]
       /\ writer' = [writer EXCEPT ![p].size = IF FullPart(p) THEN 1 ELSE @ + 1]
       /\ part' = [part EXCEPT ![p] = [fs EXCEPT ![0] =
             [there |-> TRUE, fresh |-> TRUE, torn |-> FALSE, lines |-> @.lines \cup found]]]
       /\ discarded' = discarded \cup ({p} \X ({e} \ found))
                          \cup (IF FullPart(p) THEN RotatedOut(p, 0) ELSE {})
       /\ outlived' = IF Overtaken(p) THEN outlived \cup {p} ELSE outlived
       /\ UNCHANGED <<auditLog, locked, compactor, cut, auditCount, auditFaults>>

\* The disk takes half of the line, or none: Write fails, and its entry counts for nothing.
WriteShort(p) ==
    /\ writer[p].up /\ writer[p].linked
    /\ written[p] < MaxEntries[p]
    /\ auditFaults < MaxAuditFaults
    /\ auditFaults' = auditFaults + 1
    /\ writer' = [writer EXCEPT ![p].size = IF FullPart(p) THEN 0 ELSE @]
    /\ \/ part' = [part EXCEPT ![p] = [Ready(p) EXCEPT ![0] =
             [there |-> TRUE, fresh |-> TRUE, torn |-> TRUE, lines |-> @.lines]]]
       \/ FullPart(p) /\ part' = [part EXCEPT ![p] = Ready(p)]
    /\ discarded' = discarded \cup (IF FullPart(p) THEN RotatedOut(p, 0) ELSE {})
    /\ outlived' = IF Overtaken(p) THEN outlived \cup {p} ELSE outlived
    /\ UNCHANGED <<written, auditLog, locked, compactor, cut, auditCount>>

\* The part was removed under the open writer: the entry goes into no file.
WriteLost(p) ==
    /\ writer[p].up /\ ~writer[p].linked /\ ~FullPart(p)
    /\ written[p] < MaxEntries[p]
    /\ written' = [written EXCEPT ![p] = @ + 1]
    /\ writer' = [writer EXCEPT ![p].size = @ + 1]
    /\ outlived' = outlived \cup {p}
    /\ UNCHANGED <<part, auditLog, locked, compactor, discarded, cut, auditCount, auditFaults>>

\* The close, a rename or the reopening fails, as the rename of a part that was removed
\* does.  The writer has no open file, and every Write fails from here on.
RotationFails(p) ==
    /\ writer[p].up /\ FullPart(p)
    /\ written[p] < MaxEntries[p]
    /\ \E k \in 0 .. MaxFiles + 1 :
          /\ writer[p].linked \/ k > 0
          /\ part' = [part EXCEPT ![p] = Shifted(@, k, NoPart)]
          /\ discarded' = discarded \cup RotatedOut(p, k)
          /\ \/ ~writer[p].linked /\ k = 1 /\ UNCHANGED auditFaults
             \/ auditFaults < MaxAuditFaults /\ auditFaults' = auditFaults + 1
    /\ writer' = [writer EXCEPT ![p].up = FALSE]
    /\ outlived' = IF Overtaken(p) THEN outlived \cup {p} ELSE outlived
    /\ UNCHANGED <<written, auditLog, locked, compactor, cut, auditCount>>

\* The quiescence window passes since the last write to a file, and to those before it; a
\* rename keeps that time.  (An invocation that ends only writes no more.)
GoQuiet(p) ==
    /\ \E i \in Slots :
          /\ part[p][i].fresh
          /\ part' = [part EXCEPT ![p] =
                [j \in Slots |-> IF j < i THEN @[j] ELSE [@[j] EXCEPT !.fresh = FALSE]]]
    /\ UNCHANGED <<writer, written, auditLog, locked, compactor, outlived, discarded, cut,
                   auditCount, auditFaults>>

-----------------------------------------------------------------------------
(* The compactors.                                                         *)

\* Each file by its own time, whoever writes to another of the same invocation.
Eligible == {f \in Invocations \X Slots : part[f[1]][f[2]].there /\ ~part[f[1]][f[2]].fresh}

\* Variant: the lock file is made without O_EXCL.
StartUnlocked(c) ==
    /\ compactor[c].at = "idle"
    /\ auditCount < MaxCompactions
    /\ locked' = TRUE
    /\ compactor' = [compactor EXCEPT ![c] = [IdleCompactor EXCEPT !.at = "read", !.list = Eligible]]
    /\ auditCount' = auditCount + 1
    /\ UNCHANGED <<part, writer, written, auditLog, outlived, discarded, cut, auditFaults>>

\* The lock file is created exclusively; who finds it skips.  Then the files are listed.  A
\* compaction that cannot list them gives the lock back, and has changed nothing.
StartCompaction(c) ==
    /\ compactor[c].at = "idle"
    /\ ~locked
    /\ auditCount < MaxCompactions
    /\ locked' = TRUE
    /\ compactor' = [compactor EXCEPT ![c] = [IdleCompactor EXCEPT !.at = "read", !.list = Eligible]]
    /\ auditCount' = auditCount + 1
    /\ UNCHANGED <<part, writer, written, auditLog, outlived, discarded, cut, auditFaults>>

\* The files in the order of their names: a part before its rotated ones.
FirstListed(c, f) ==
    /\ compactor[c].at = "read"
    /\ f \in compactor[c].list
    /\ \A i \in Slots : i < f[2] => <<f[1], i>> \notin compactor[c].list

\* Variant: a part is removed as soon as it was read.
ReadAndRemove(c) ==
    /\ \E f \in compactor[c].list :
          /\ FirstListed(c, f)
          /\ compactor' = [compactor EXCEPT ![c].list = @ \ {f}, ![c].file = f,
                               ![c].inHand = part[f[1]][f[2]], ![c].at = "append"]
          /\ part' = [part EXCEPT ![f[1]][f[2]] = NoPart]
    /\ UNCHANGED <<writer, written, auditLog, locked, outlived, discarded, cut, auditCount,
                   auditFaults>>

\* An empty file is removed at once.
ReadPart(c) ==
    /\ \E f \in compactor[c].list :
          LET file == part[f[1]][f[2]]
          IN /\ FirstListed(c, f)
             /\ file.there
             /\ compactor' = [compactor EXCEPT ![c] =
                   [compactor[c] EXCEPT
                       !.list = @ \ {f}, !.file = f, !.inHand = file,
                       !.at = IF file.lines = {} /\ ~file.torn THEN "remove" ELSE "append"]]
    /\ UNCHANGED <<part, writer, written, auditLog, locked, outlived, discarded, cut, auditCount,
                   auditFaults>>

\* A file that was renamed since it was listed, or that cannot be read, is skipped.
SkipPart(c) ==
    /\ \E f \in compactor[c].list :
          /\ FirstListed(c, f)
          /\ compactor' = [compactor EXCEPT ![c].list = @ \ {f}]
          /\ \/ ~part[f[1]][f[2]].there /\ UNCHANGED auditFaults
             \/ auditFaults < MaxAuditFaults /\ auditFaults' = auditFaults + 1
    /\ UNCHANGED <<part, writer, written, auditLog, locked, outlived, discarded, cut, auditCount>>

\* audit.log, when the lines S of p are appended and then perhaps half a line.
LogWith(log, p, S, half) ==
    IF S = {} /\ ~half THEN log
    ELSE [batches |-> Append(log.batches, {p} \X Readable(log.torn, S)), torn |-> half]

EntriesOf(log) == UNION {log.batches[k] : k \in DOMAIN log.batches}
SizeOf(log) == Cardinality(UNION {{k} \X log.batches[k] : k \in DOMAIN log.batches})

\* audit.log would grow past its limit.
LogFull(c) == SizeOf(auditLog[0]) + Cardinality(compactor[c].inHand.lines) > LogLimit

\* rotateConsolidated, as far as the rename of number k - 1; past the last, nothing moved.
Rotation(k) == Shifted(auditLog, k, NoLog)
DroppedLog(k) == IF k <= MaxFiles THEN EntriesOf(auditLog[MaxFiles]) ELSE {}

AppendPart(c) ==
    LET e == compactor[c]
        p == e.file[1]
        k == IF LogFull(c) THEN 0 ELSE MaxFiles + 1
        logs == Rotation(k)
    IN /\ e.at = "append"
       /\ auditLog' = [logs EXCEPT ![0] = LogWith(@, p, e.inHand.lines, e.inHand.torn)]
       /\ discarded' = discarded \cup DroppedLog(k)
                          \cup ({p} \X (e.inHand.lines \ Readable(logs[0].torn, e.inHand.lines)))
       /\ compactor' = [compactor EXCEPT ![c].at = "remove"]
       /\ UNCHANGED <<part, writer, written, locked, outlived, cut, auditCount, auditFaults>>

\* Some of what the compactor holds is in audit.log, while the part stays.
CutOff(c, S) == IF S = {} THEN cut ELSE cut \cup {compactor[c].file[1]}

\* The rotation stops at a rename, or the write after some lines, perhaps within one.
AppendStops(c) ==
    LET e == compactor[c]
        p == e.file[1]
    IN \E k \in 0 .. MaxFiles + 1, m \in {0} \cup e.inHand.lines, half \in BOOLEAN :
          LET logs == Rotation(k)
              S == {n \in e.inHand.lines : n <= m}
          IN /\ k <= MaxFiles => LogFull(c)
             /\ k = 0 \/ ~LogFull(c) \/ (S = {} /\ ~half)
             /\ half => S # e.inHand.lines \/ e.inHand.torn
             /\ auditLog' = [logs EXCEPT ![0] = LogWith(@, p, S, half)]
             /\ discarded' = discarded \cup DroppedLog(k)
             /\ cut' = CutOff(c, S)

\* CompactAudit returns the error, and gives the lock back.
AppendFails(c) ==
    /\ compactor[c].at = "append"
    /\ auditFaults < MaxAuditFaults
    /\ AppendStops(c)
    /\ locked' = FALSE
    /\ compactor' = [compactor EXCEPT ![c] = IdleCompactor]
    /\ auditFaults' = auditFaults + 1
    /\ UNCHANGED <<part, writer, written, outlived, auditCount>>

\* The file is removed by its name, whatever it holds by now; an invocation that has the
\* part open writes into nothing from here on.
RemovePart(c) ==
    LET f == compactor[c].file
    IN /\ compactor[c].at = "remove"
       /\ part' = [part EXCEPT ![f[1]][f[2]] = NoPart]
       /\ writer' = IF f[2] = 0 THEN [writer EXCEPT ![f[1]].linked = FALSE] ELSE writer
       /\ compactor' = [compactor EXCEPT ![c].at = "read"]
       /\ UNCHANGED <<written, auditLog, locked, outlived, discarded, cut, auditCount,
                      auditFaults>>

\* "Appended but cannot remove": it goes on with the next.
RemoveFails(c) ==
    /\ compactor[c].at = "remove"
    /\ auditFaults < MaxAuditFaults
    /\ cut' = CutOff(c, compactor[c].inHand.lines)
    /\ compactor' = [compactor EXCEPT ![c].at = "read"]
    /\ auditFaults' = auditFaults + 1
    /\ UNCHANGED <<part, writer, written, auditLog, locked, outlived, discarded, auditCount>>

EndCompaction(c) ==
    /\ compactor[c].at = "read"
    /\ compactor[c].list = {}
    /\ locked' = FALSE
    /\ compactor' = [compactor EXCEPT ![c] = IdleCompactor]
    /\ UNCHANGED <<part, writer, written, auditLog, outlived, discarded, cut, auditCount,
                   auditFaults>>

\* A compactor dies, or cannot remove its lock file: that stays, and nobody removes it.
CompactorDies(c) ==
    /\ compactor[c].at # "idle"
    /\ auditFaults < MaxAuditFaults
    /\ \/ compactor[c].at = "append" /\ AppendStops(c)
       \/ compactor[c].at = "remove" /\ cut' = CutOff(c, compactor[c].inHand.lines)
             /\ UNCHANGED <<auditLog, discarded>>
       \/ compactor[c].at = "read" /\ UNCHANGED <<auditLog, discarded, cut>>
    /\ compactor' = [compactor EXCEPT ![c] = IdleCompactor]
    /\ auditFaults' = auditFaults + 1
    /\ UNCHANGED <<part, writer, written, locked, outlived, auditCount>>

AuditPartsNext ==
    \/ \E p \in Invocations :
          \/ WriteEntry(p)
          \/ WriteShort(p)
          \/ WriteLost(p)
          \/ RotationFails(p)
          \/ GoQuiet(p)
    \/ \E c \in Compactors :
          \/ StartCompaction(c)
          \/ ReadPart(c)
          \/ SkipPart(c)
          \/ AppendPart(c)
          \/ AppendFails(c)
          \/ RemovePart(c)
          \/ RemoveFails(c)
          \/ EndCompaction(c)
          \/ CompactorDies(c)

AuditPartsSpec == AuditPartsInit /\ [][AuditPartsNext]_auditVars

-----------------------------------------------------------------------------
(* Properties.                                                             *)

EntriesWritten == UNION {{p} \X (1 .. written[p]) : p \in Invocations}

AuditPartsTypeOK ==
    /\ \A p \in Invocations :
          /\ written[p] \in 0 .. MaxEntries[p]
          /\ writer[p] \in [up : BOOLEAN, linked : BOOLEAN, size : 0 .. written[p]]
          /\ \A i \in Slots :
                /\ part[p][i] \in [there : BOOLEAN, fresh : BOOLEAN, torn : BOOLEAN,
                                   lines : SUBSET (1 .. written[p])]
                /\ part[p][i].there \/ part[p][i] = NoPart
    /\ \A i \in Slots : EntriesOf(auditLog[i]) \subseteq EntriesWritten
    /\ locked \in BOOLEAN
    /\ \A c \in Compactors : compactor[c].at \in {"idle", "read", "append", "remove"}
    /\ outlived \cup cut \subseteq Invocations
    /\ discarded \subseteq EntriesWritten
    /\ auditCount \in 0 .. MaxCompactions
    /\ auditFaults \in 0 .. MaxAuditFaults

InParts(p, n) == \E i \in Slots : n \in part[p][i].lines

\* The places an entry has in audit.log and what it was rotated to.
FoundAt(p, n) ==
    UNION {{i} \X {k \in DOMAIN auditLog[i].batches : <<p, n>> \in auditLog[i].batches[k]} :
              i \in Slots}

\* Readers find every entry in audit.log, in a part, or in what these were rotated to,
\* whatever compactions run, fail and die beside writers that are alive, unless a rotation
\* dropped the file it was in, or it was joined to half a line.  Of a writer that changed a
\* file between a compactor's read and removal, or went on after the removal, nothing is said.
EntriesKept ==
    \A p \in Invocations \ outlived : \A n \in 1 .. written[p] :
        <<p, n>> \notin discarded => InParts(p, n) \/ FoundAt(p, n) # {}

\* And they find it once, but between a compactor's append and its removal of the part, and
\* after one appended a part and did not remove it: then the next compaction appends it again.
EntriesOnce ==
    \A p \in Invocations \ (outlived \cup cut) : \A n \in 1 .. written[p] :
        /\ \A a, b \in FoundAt(p, n) : a = b
        /\ FoundAt(p, n) # {} /\ InParts(p, n)
              => \E c \in Compactors : compactor[c].at = "remove" /\ compactor[c].file[1] = p
=============================================================================
