----------------------------- MODULE QueueFile -----------------------------
(***************************************************************************)
(* The file of the notification queue, below the steps of NotifRail.       *)
(* Hooks open it and append a line; the daemon, the purge of a clean push  *)
(* and "Retry now" read it, write a temporary file that all of them call   *)
(* by the same name, and rename it over the queue.  Nothing is locked.  An *)
(* append may be cut short, and a process may die between two steps.       *)
(***************************************************************************)
EXTENDS Naturals, FiniteSets, Sequences, SequencesExt

CONSTANTS QueueRecords,   \* each is appended once, by a hook of its own
          Rewriters,
          MaxRewrites,    \* bound: rewrites in one behaviour
          MaxQueueFaults  \* bound: short writes, failing writes and deaths

ASSUME QueueFileAssumption ==
    /\ {"part", "noise"} \cap QueueRecords = {}
    /\ MaxRewrites \in Nat /\ MaxQueueFaults \in Nat

VARIABLES file,      \* what the queue's name leads to
          temp,      \* what the temporary name leads to
          hasTemp,   \* does the temporary name exist?
          append,    \* the append of each record, and where its descriptor leads
          rewrite,   \* the rewriters
          buried, settled,         \* records in the deadletter, records done with
          overtaken, joined, tangled,   \* history: see QueueKeeps
          rewrites, queueFaults

queueFileVars == <<file, temp, hasTemp, append, rewrite, buried, settled, overtaken, joined,
                   tangled, rewrites, queueFaults>>

\* A fragment without its newline is "part", a line that no record ever was "noise".
Cells == QueueRecords \cup {"part", "noise"}

\* ReadQueueRecords: a record whose line a fragment precedes is malformed with it.
Parsed(content) ==
    LET good == {i \in DOMAIN content : /\ content[i] \in QueueRecords
                                        /\ i > 1 => content[i - 1] # "part"}
    IN FlattenSeq([i \in DOMAIN content |-> IF i \in good THEN <<content[i]>> ELSE <<>>])

\* The records but one.
Leaving(r, read) == FlattenSeq([i \in DOMAIN read |-> IF read[i] = r THEN <<>> ELSE <<read[i]>>])

NoRewrite == [at |-> "idle", kind |-> "update", record |-> "part", kept |-> <<>>, fd |-> "none"]

QueueFileInit ==
    /\ file = <<>> /\ temp = <<>> /\ hasTemp = FALSE
    /\ append = [r \in QueueRecords |-> [at |-> "idle", fd |-> "none"]]
    /\ rewrite = [w \in Rewriters |-> NoRewrite]
    /\ buried = {} /\ settled = {}
    /\ overtaken = {} /\ joined = {} /\ tangled = FALSE
    /\ rewrites = 0 /\ queueFaults = 0

QueueFault == queueFaults < MaxQueueFaults /\ queueFaults' = queueFaults + 1

-----------------------------------------------------------------------------
(* AppendQueueRecord.                                                      *)

\* A rewriter that has read the queue and not replaced it.
Rewriting == {w \in Rewriters : rewrite[w].at \notin {"idle", "read"}}

OpenQueue(r) ==
    /\ append[r].at = "idle"
    /\ append' = [append EXCEPT ![r] = [at |-> "open", fd |-> "queue"]]
    /\ UNCHANGED <<file, temp, hasTemp, rewrite, buried, settled, overtaken, joined,
                   tangled, rewrites, queueFaults>>

WriteRecord(r) ==
    /\ append[r].at = "open"
    /\ append' = [append EXCEPT ![r] = [at |-> "written", fd |-> "none"]]
    /\ file' = IF append[r].fd = "queue" THEN Append(file, r) ELSE file
    /\ overtaken' = IF append[r].fd = "gone" \/ Rewriting # {} THEN overtaken \cup {r}
                    ELSE overtaken
    /\ joined' = IF file # <<>> /\ Last(file) = "part" THEN joined \cup {r} ELSE joined
    /\ UNCHANGED <<temp, hasTemp, rewrite, buried, settled, tangled, rewrites, queueFaults>>

\* A short write, of which the hook learns.
WriteFragment(r) ==
    /\ append[r].at = "open"
    /\ QueueFault
    /\ append' = [append EXCEPT ![r] = [at |-> "failed", fd |-> "none"]]
    /\ file' = IF append[r].fd = "queue" THEN Append(file, "part") ELSE file
    /\ UNCHANGED <<temp, hasTemp, rewrite, buried, settled, overtaken, joined, tangled,
                   rewrites>>

-----------------------------------------------------------------------------
(* The rewrites: RemoveQueueRecord and RemovePendingRejectsForRef drop a   *)
(* record, MoveToDeadletter buries one, UpdateQueueRecord and              *)
(* ResetQueueBackoff keep them all.                                        *)

StartRewrite(w, kind, r) ==
    /\ rewrite[w].at = "idle"
    /\ rewrites < MaxRewrites
    /\ rewrites' = rewrites + 1
    /\ rewrite' = [rewrite EXCEPT ![w] = [NoRewrite EXCEPT !.at = "read", !.kind = kind,
                                                            !.record = r]]
    /\ UNCHANGED <<file, temp, hasTemp, append, buried, settled, overtaken, joined, tangled,
                   queueFaults>>

\* The file is read; without the record there is nothing to do.
ReadQueue(w) ==
    /\ rewrite[w].at = "read"
    /\ LET e == rewrite[w]
           read == Parsed(file)
       IN rewrite' = [rewrite EXCEPT ![w] =
             IF ~Contains(read, e.record) THEN NoRewrite
             ELSE [e EXCEPT !.at = IF e.kind = "bury" THEN "bury" ELSE "open",
                            !.kept = IF e.kind = "update" THEN read
                                     ELSE Leaving(e.record, read)]]
    /\ UNCHANGED <<file, temp, hasTemp, append, buried, settled, overtaken, joined, tangled,
                   rewrites, queueFaults>>

\* MoveToDeadletter appends to the deadletter first.
BuryRecord(w) ==
    /\ rewrite[w].at = "bury"
    /\ rewrite' = [rewrite EXCEPT ![w].at = "open"]
    /\ buried' = buried \cup {rewrite[w].record}
    /\ UNCHANGED <<file, temp, hasTemp, append, settled, overtaken, joined, tangled,
                   rewrites, queueFaults>>

\* Those between the opening of the temporary file and its rename.
AtTemp == {w \in Rewriters : rewrite[w].at \in {"fill", "rename"}}

\* Variant: the queue itself is truncated.
OpenInPlace(w) ==
    /\ rewrite[w].at = "open"
    /\ file' = <<>>
    /\ rewrite' = [rewrite EXCEPT ![w].at = "fill", ![w].fd = "queue"]
    /\ UNCHANGED <<temp, hasTemp, append, buried, settled, overtaken, joined, tangled,
                   rewrites, queueFaults>>

\* writeQueueAtomic: the shared name is opened and what it leads to truncated ...
OpenTemp(w) ==
    /\ rewrite[w].at = "open"
    /\ temp' = <<>> /\ hasTemp' = TRUE
    /\ tangled' = (tangled \/ AtTemp # {})
    /\ rewrite' = [rewrite EXCEPT ![w].at = "fill", ![w].fd = "temp"]
    /\ UNCHANGED <<file, append, buried, settled, overtaken, joined, rewrites, queueFaults>>

\* ... filled from its start, over what another rewriter wrote there meanwhile ...
LaidOver(mine, over) ==
    {mine} \cup {mine \o <<"noise">> \o SubSeq(over, i, Len(over)) : i \in 2 .. Len(over) + 1}

FillTemp(w) ==
    /\ rewrite[w].at = "fill"
    /\ LET e == rewrite[w]
       IN /\ IF e.fd = "temp" THEN temp' \in LaidOver(e.kept, temp) ELSE UNCHANGED temp
          /\ IF e.fd = "queue" THEN file' \in LaidOver(e.kept, file) ELSE UNCHANGED file
    /\ rewrite' = [rewrite EXCEPT ![w].at = "rename"]
    /\ UNCHANGED <<hasTemp, append, buried, settled, overtaken, joined, tangled, rewrites,
                   queueFaults>>

\* ... and renamed.  Descriptors follow the files, not the names.
RenameTemp(w) ==
    /\ rewrite[w].at = "rename"
    /\ IF hasTemp
       THEN /\ file' = temp /\ hasTemp' = FALSE
            /\ append' = [r \in QueueRecords |->
                             [append[r] EXCEPT !.fd = IF @ = "queue" THEN "gone" ELSE @]]
            /\ rewrite' = [v \in Rewriters |->
                  IF v = w THEN NoRewrite
                  ELSE [rewrite[v] EXCEPT !.fd = CASE @ = "queue" -> "gone"
                                                   [] @ = "temp" -> "queue" [] OTHER -> @]]
            /\ settled' = IF rewrite[w].kind = "remove" THEN settled \cup {rewrite[w].record}
                          ELSE settled
       ELSE /\ rewrite' = [rewrite EXCEPT ![w] = NoRewrite]
            /\ UNCHANGED <<file, hasTemp, append, settled>>
    /\ UNCHANGED <<temp, buried, overtaken, joined, tangled, rewrites, queueFaults>>

\* A write fails: the temporary file is removed by its name.
AbortRewrite(w) ==
    /\ rewrite[w].at = "fill"
    /\ QueueFault
    /\ hasTemp' = FALSE
    /\ rewrite' = [v \in Rewriters |->
          IF v = w THEN NoRewrite
          ELSE [rewrite[v] EXCEPT !.fd = IF @ = "temp" /\ hasTemp THEN "gone" ELSE @]]
    /\ UNCHANGED <<file, temp, append, buried, settled, overtaken, joined, tangled,
                   rewrites>>

RewriterDies(w) ==
    /\ rewrite[w].at # "idle"
    /\ QueueFault
    /\ rewrite' = [rewrite EXCEPT ![w] = NoRewrite]
    /\ UNCHANGED <<file, temp, hasTemp, append, buried, settled, overtaken, joined, tangled,
                   rewrites>>

QueueFileNext ==
    \/ \E r \in QueueRecords : OpenQueue(r) \/ WriteRecord(r) \/ WriteFragment(r)
    \/ \E w \in Rewriters :
          \/ \E kind \in {"remove", "bury", "update"}, r \in QueueRecords : StartRewrite(w, kind, r)
          \/ ReadQueue(w) \/ BuryRecord(w) \/ OpenTemp(w) \/ FillTemp(w) \/ RenameTemp(w)
          \/ AbortRewrite(w) \/ RewriterDies(w)

QueueFileSpec == QueueFileInit /\ [][QueueFileNext]_queueFileVars

-----------------------------------------------------------------------------
(* Properties.                                                             *)

QueueFileTypeOK ==
    /\ file \in Seq(Cells) /\ temp \in Seq(Cells)
    /\ {hasTemp, tangled} \subseteq BOOLEAN
    /\ append \in [QueueRecords -> [at : {"idle", "open", "written", "failed"},
                                    fd : {"none", "queue", "gone"}]]
    /\ \A w \in Rewriters :
          /\ rewrite[w].at \in {"idle", "read", "bury", "open", "fill", "rename"}
          /\ rewrite[w].kept \in Seq(QueueRecords)
          /\ rewrite[w].fd \in {"none", "temp", "queue", "gone"}
    /\ buried \cup settled \cup overtaken \cup joined \subseteq QueueRecords
    /\ rewrites \in 0 .. MaxRewrites /\ queueFaults \in 0 .. MaxQueueFaults

\* What a hook appended without an error can be read back, is in the deadletter or was
\* settled, whoever dies and whichever write is cut short - as long as no two rewriters held
\* the temporary file at once, and except for a record appended behind a fragment or while a
\* rewriter was between its read and its rename.
QueueKeeps ==
    ~tangled => \A r \in QueueRecords :
        append[r].at = "written" =>
            \/ Contains(Parsed(file), r)
            \/ r \in buried \cup settled \cup overtaken \cup joined
=============================================================================
