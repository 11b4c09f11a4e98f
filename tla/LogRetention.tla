---------------------------- MODULE LogRetention ----------------------------
(***************************************************************************)
(* One JSONL log of the gateway: a repository's audit.log, its dead        *)
(* letters, or the gateway-wide event log.  Short-lived processes append a *)
(* line each; the maintenance loop rewrites the file without what is too   *)
(* old and renames the rewritten file into place; readers of the analytics *)
(* database index an audit.log incrementally, from a remembered offset.    *)
(* Nothing locks the file.  An offset counts lines, whatever their length. *)
(***************************************************************************)
EXTENDS Naturals, Sequences, FiniteSets, SequencesExt

CONSTANTS Hooks,        \* the processes that append
          Ingesters,    \* the readers that refresh the database
          MaxLogEntries, \* bound: entries written
          MaxPrunes,    \* bound: rewrites
          MaxIngests,   \* bound: refreshes of the database
          MaxLogFaults  \* bound: short writes, failed rewrites, rebuilt databases

ASSUME LogRetentionAssumption ==
    {MaxLogEntries, MaxPrunes, MaxIngests, MaxLogFaults} \subseteq Nat

VARIABLES which,     \* the log: "audit", "deadletter" or "events"
          layout,    \* its directory is a real one, or a symbolic link into the library
          log,       \* its lines: the entries glued into one, the kind, ended by a newline
          kinds,     \* the kinds of the entries written so far
          aged,      \* entries up to this one are older than their retention
          epoch,     \* how often the file has been replaced
          hook,      \* the file each hook has open: none, this one, or a replaced one
          pruner,    \* the rewrite in progress, and what it keeps
          raced,     \* entries written after a rewrite had read the file
          glued,     \* entries that share a line with another, or were cut
          ingester,  \* the refreshes in progress
          index,     \* the database: entries it holds, its offset, the file it is about
          blind,     \* a refresh went on at its offset in a file that had been replaced
          pruneCount, ingestCount, logFaults

logVars == <<which, layout, log, kinds, aged, epoch, hook, pruner, raced, glued,
             ingester, index, blind, pruneCount, ingestCount, logFaults>>

fileVars == <<log, kinds, epoch, raced, glued>>
readVars == <<ingester, index, blind, ingestCount>>
rigidVars == <<which, layout>>

IdleIngest == [at |-> "idle", offset |-> 0, epoch |-> 0, batch |-> {}, seen |-> 0]
EmptyIndex == [rows |-> {}, offset |-> 0, epoch |-> 0]

LogRetentionInit ==
    /\ which \in {"audit", "deadletter", "events"}
    /\ layout \in {"dir", "link"}
    /\ log = <<>>
    /\ kinds = <<>>
    /\ aged = 0
    /\ epoch = 0
    /\ hook = [h \in Hooks |-> "none"]
    /\ pruner = [at |-> "idle", kept |-> <<>>]
    /\ raced = {}
    /\ glued = {}
    /\ ingester = [i \in Ingesters |-> IdleIngest]
    /\ index = EmptyIndex
    /\ blind = FALSE
    /\ pruneCount = 0
    /\ ingestCount = 0
    /\ logFaults = 0

Ended == {n \in DOMAIN log : log[n].ended}
EntriesIn(some) == UNION {some[n].nos : n \in DOMAIN some}

-----------------------------------------------------------------------------
(* The writers.                                                            *)

OpenLog(h) ==
    /\ hook[h] = "none"
    /\ hook' = [hook EXCEPT ![h] = "live"]
    /\ UNCHANGED <<rigidVars, fileVars, aged, pruner, readVars, pruneCount, logFaults>>

\* The line after one that lacks its newline continues it, and neither parses.
Appended(line) ==
    IF log # <<>> /\ ~Last(log).ended
    THEN [log EXCEPT ![Len(log)] = [nos |-> @.nos \union line.nos, kind |-> "garbled",
                                     ended |-> line.ended]]
    ELSE Append(log, line)

\* One O_APPEND write of the line, into whatever file the hook has open.  It may be short.
WriteLine(h, kind, short) ==
    LET n == Len(kinds) + 1
        line == [nos |-> {n}, kind |-> IF short THEN "garbled" ELSE kind, ended |-> ~short]
    IN /\ hook[h] # "none"
       /\ Len(kinds) < MaxLogEntries
       /\ short => logFaults < MaxLogFaults
       /\ kinds' = Append(kinds, kind)
       /\ log' = IF hook[h] = "live" THEN Appended(line) ELSE log
       /\ raced' = IF hook[h] = "live" /\ pruner.at = "idle" THEN raced ELSE raced \union {n}
       /\ glued' = IF log' # log /\ Last(log').kind = "garbled"
                   THEN glued \union Last(log').nos ELSE glued
       /\ hook' = [hook EXCEPT ![h] = "none"]
       /\ logFaults' = logFaults + (IF short THEN 1 ELSE 0)
       /\ UNCHANGED <<rigidVars, aged, epoch, pruner, readVars, pruneCount>>

Age ==
    /\ aged < Len(kinds)
    /\ aged' = aged + 1
    /\ UNCHANGED <<rigidVars, fileVars, hook, pruner, readVars, pruneCount, logFaults>>

-----------------------------------------------------------------------------
(* The maintenance loop.                                                   *)

\* Variant: one cut-off for every decision.
ExpendableByAge(line) ==
    \/ line.kind # "garbled" /\ \A n \in line.nos : n <= aged
    \/ line.kind = "garbled" /\ which = "deadletter"

\* What each rewrite drops.  Rejections are kept for ever (the default retention, 0), and
\* a line that does not parse is evidence, except among the dead letters.
Expendable(line) ==
    \/ line.kind = "accept" /\ \A n \in line.nos : n <= aged
    \/ line.kind = "reject" /\ which # "audit" /\ \A n \in line.nos : n <= aged
    \/ line.kind = "garbled" /\ which = "deadletter"

KeptOf(lines) ==
    FlattenSeq([n \in DOMAIN lines |-> IF Expendable(lines[n]) THEN <<>>
                                       ELSE << [lines[n] EXCEPT !.ended = TRUE] >>])

\* The sweep looks for directories, and takes no symbolic link for one.  It skips an
\* empty file, and reads the others to the end.
ScanLog ==
    /\ which = "events" \/ layout = "dir"
    /\ pruner.at = "idle"
    /\ log # <<>>
    /\ pruneCount < MaxPrunes
    /\ pruner' = [at |-> "rename", kept |-> KeptOf(log)]
    /\ pruneCount' = pruneCount + 1
    /\ UNCHANGED <<rigidVars, fileVars, aged, hook, readVars, logFaults>>

RenameLog ==
    /\ pruner.at = "rename"
    /\ log' = pruner.kept
    /\ epoch' = epoch + 1
    /\ hook' = [h \in Hooks |-> IF hook[h] = "live" THEN "gone" ELSE hook[h]]
    /\ pruner' = [at |-> "idle", kept |-> <<>>]
    /\ UNCHANGED <<rigidVars, kinds, aged, raced, glued, readVars, pruneCount, logFaults>>

\* An error or a crash leaves the log as it was.
PruneFails ==
    /\ pruner.at = "rename"
    /\ logFaults < MaxLogFaults
    /\ pruner' = [at |-> "idle", kept |-> <<>>]
    /\ logFaults' = logFaults + 1
    /\ UNCHANGED <<rigidVars, fileVars, aged, hook, readVars, pruneCount>>

-----------------------------------------------------------------------------
(* The analytics database.                                                 *)

LoadOffset(i) ==
    /\ which = "audit"
    /\ ingester[i].at = "idle"
    /\ ingestCount < MaxIngests
    /\ ingester' = [ingester EXCEPT ![i] = [IdleIngest EXCEPT !.at = "stat",
                       !.offset = index.offset, !.epoch = index.epoch]]
    /\ ingestCount' = ingestCount + 1
    /\ UNCHANGED <<rigidVars, fileVars, aged, hook, pruner, index, blind, pruneCount, logFaults>>

\* Variant: no look at the size.
StartAtOffset(offset) == offset

\* A file shorter than the offset was rewritten: start again.  A file rewritten and grown
\* past the offset, or rewritten only after this look, is not noticed.
StartAt(offset) == IF Cardinality(Ended) < offset THEN 0 ELSE offset

StatLog(i) ==
    LET e == ingester[i]
    IN /\ e.at = "stat"
       /\ ingester' = [ingester EXCEPT ![i] = [e EXCEPT !.at = "read", !.offset = StartAt(e.offset),
                                                        !.seen = epoch]]
       /\ blind' = (blind \/ (0 < e.offset /\ e.offset <= Cardinality(Ended) /\ e.epoch # epoch))
       /\ UNCHANGED <<rigidVars, fileVars, aged, hook, pruner, index, ingestCount, pruneCount,
                      logFaults>>

\* Reads to the end of the file, but for a last line without a newline, and inserts what
\* parses.  From the first insertion to the commit nobody else writes to the database.
ReadLog(i) ==
    LET e == ingester[i]
        new == {n \in Ended : n > e.offset}
    IN /\ e.at = "read"
       /\ \A j \in Ingesters : ingester[j].at = "commit" => ingester[j].batch = {}
       /\ ingester' = [ingester EXCEPT ![i] =
             [at |-> "commit",
              offset |-> IF new = {} THEN e.offset ELSE Cardinality(Ended),
              epoch |-> epoch,
              batch |-> UNION {log[n].nos : n \in {m \in new : log[m].kind # "garbled"}},
              seen |-> 0]]
       /\ blind' = (blind \/ (0 < e.offset /\ e.seen # epoch))
       /\ UNCHANGED <<rigidVars, fileVars, aged, hook, pruner, index, ingestCount, pruneCount,
                      logFaults>>

CommitIndex(i) ==
    LET e == ingester[i]
    IN /\ e.at = "commit"
       /\ \A j \in Ingesters \ {i} : ingester[j].at = "commit" => ingester[j].batch = {}
       /\ index' = [rows |-> index.rows \union e.batch, offset |-> e.offset, epoch |-> e.epoch]
       /\ ingester' = [ingester EXCEPT ![i] = IdleIngest]
       /\ UNCHANGED <<rigidVars, fileVars, aged, hook, pruner, blind, ingestCount, pruneCount,
                      logFaults>>

\* An error, a busy database or a crash rolls the transaction back.
IngestFails(i) ==
    /\ ingester[i].at # "idle"
    /\ logFaults < MaxLogFaults
    /\ ingester' = [ingester EXCEPT ![i] = IdleIngest]
    /\ logFaults' = logFaults + 1
    /\ UNCHANGED <<rigidVars, fileVars, aged, hook, pruner, index, blind, ingestCount, pruneCount>>

\* Open deletes a database of another version; those who have it open write to nothing.
RebuildIndex ==
    /\ which = "audit"
    /\ logFaults < MaxLogFaults
    /\ index' = EmptyIndex
    /\ ingester' = [i \in Ingesters |-> IdleIngest]
    /\ logFaults' = logFaults + 1
    /\ UNCHANGED <<rigidVars, fileVars, aged, hook, pruner, blind, ingestCount, pruneCount>>

LogRetentionNext ==
    \/ \E h \in Hooks :
          \/ OpenLog(h)
          \/ \E kind \in {"accept", "reject"}, short \in BOOLEAN : WriteLine(h, kind, short)
    \/ Age
    \/ ScanLog
    \/ RenameLog
    \/ PruneFails
    \/ \E i \in Ingesters :
          LoadOffset(i) \/ StatLog(i) \/ ReadLog(i) \/ CommitIndex(i) \/ IngestFails(i)
    \/ RebuildIndex

LogRetentionSpec == LogRetentionInit /\ [][LogRetentionNext]_logVars

-----------------------------------------------------------------------------
(* Properties.                                                             *)

Lines == [nos : SUBSET (1 .. MaxLogEntries), kind : {"accept", "reject", "garbled"}, ended : BOOLEAN]

LogRetentionTypeOK ==
    /\ Range(log) \union Range(pruner.kept) \subseteq Lines
    /\ Range(kinds) \subseteq {"accept", "reject"}
    /\ aged \in 0 .. Len(kinds)
    /\ epoch \in 0 .. MaxPrunes
    /\ hook \in [Hooks -> {"none", "live", "gone"}]
    /\ raced \union glued \union index.rows \subseteq 1 .. Len(kinds)
    /\ index.offset \in 0 .. MaxLogEntries
    /\ blind \in BOOLEAN
    /\ \A i \in Ingesters : ingester[i].at \in {"idle", "stat", "read", "commit"}

\* No rewrite loses evidence: an entry younger than its retention, or a rejection of the
\* audit log however old, is in the log, on a line of its own or glued to others.  The
\* exceptions are an entry written while a rewrite was going on, and a dead letter on a
\* line that does not parse.
EvidenceKept ==
    \A n \in 1 .. Len(kinds) :
       /\ n > aged \/ (which = "audit" /\ kinds[n] = "reject")
       /\ n \notin raced
       /\ which = "deadletter" => n \notin glued
       => n \in EntriesIn(log)

\* The database holds every decision that parses up to its offset, whatever was rewritten,
\* rolled back, rebuilt or refreshed by two readers at once, as long as no refresh went on
\* at its offset in a file that had been replaced.
IndexComplete ==
    ~blind /\ index.epoch = epoch =>
       \A n \in 1 .. Len(log) :
          n <= index.offset /\ log[n].kind # "garbled" => log[n].nos \subseteq index.rows
=============================================================================
