------------------------------ MODULE NotifRail ------------------------------
(***************************************************************************)
(* The notification rail of one repository, for one gated ref and its pull *)
(* request: pre-receive hooks queue a record per rejected push and, for a  *)
(* clean push that ends a fix-loop, a resolution; the dashboard's daemon   *)
(* drains the queue to the upstream's pull request and to a webhook; the   *)
(* operator retries failed deliveries and resets loops.                    *)
(*                                                                         *)
(* The queue and the deadletter are files.  Appending is one write; every  *)
(* other change reads the whole file and later replaces it, in two steps   *)
(* that no lock joins.  With Overlap = FALSE no process touches the files  *)
(* between the two steps of another, which is what the code is written for.*)
(***************************************************************************)
EXTENDS Naturals, Sequences

CONSTANTS Rejects, Cleans,  \* pushes the gate rejects, and pushes it accepts
          Webhook,          \* is a webhook configured?
          MaxTries,         \* DeliveryMaxAttempts
          Overlap,          \* may file operations overlap?
          LookupsFail,      \* may the search for the sticky comment fail?
          MaxFaults,        \* bound: failing operations in one behaviour
          MaxClicks         \* bound: operator actions in one behaviour

Pushes == Rejects \cup Cleans

ASSUME RailAssumption ==
    /\ Rejects \cap Cleans = {}
    /\ MaxTries \in Nat \ {0}
    /\ {Webhook, Overlap, LookupsFail} \subseteq BOOLEAN
    /\ MaxFaults \in Nat /\ MaxClicks \in Nat

VARIABLES audit,     \* audit.log: the pushes in the order of their verdicts
          queue,     \* pr-comment-queue.jsonl
          dead,      \* pr-comment-deadletter.jsonl
          waiting,   \* pushes whose NextRetryAt is still ahead
          loop,      \* pr-comment-state: attempts counted, sticky comment (0: none)
          hook,      \* push -> its pre-receive hook
          daemon,    \* the drain loop
          retry,     \* the "Retry now" handler
          prOpen,    \* does the ref have an open pull request?
          comments,  \* the gate's comments on it: the push each of them shows
          fate,      \* push -> what became of its record (history)
          faults, clicks  \* what is left of the bounds

vars == <<audit, queue, dead, waiting, loop, hook, daemon, retry, prOpen, comments,
          fate, faults, clicks>>
files == <<queue, dead>>
pull == <<prOpen, comments>>

NoLoop == [n |-> 0, sticky |-> 0]
Fresh(p) == [push |-> p, sticky |-> 0, tries |-> 0]
NoRecord == [sticky |-> 0, tries |-> 0]
Resting == [pc |-> "idle", todo |-> <<>>, rec |-> NoRecord, prev |-> NoLoop,
            target |-> 0, file |-> <<>>]
Pending == [pc |-> "idle", file |-> <<>>]

Fault == faults > 0 /\ faults' = faults - 1
NoFault == UNCHANGED faults

Init ==
    /\ audit = <<>> /\ queue = <<>> /\ dead = <<>>
    /\ waiting = {}
    /\ loop = NoLoop
    /\ hook = [p \in Pushes |-> [pc |-> "idle", loop |-> NoLoop, file |-> <<>>]]
    /\ daemon = Resting
    /\ retry = Pending
    /\ prOpen \in BOOLEAN /\ comments = <<>>
    /\ fate = [p \in Pushes |-> "none"]
    /\ faults = MaxFaults /\ clicks = MaxClicks

-----------------------------------------------------------------------------
(* Operations on a queue file.                                             *)

Holds(file, p) == \E i \in DOMAIN file : file[i].push = p

\* MoveToDeadletter takes the last record with the identifier.
Find(file, p) == file[CHOOSE i \in DOMAIN file :
                        file[i].push = p /\ \A j \in DOMAIN file : j > i => file[j].push # p]

\* The records of a file whose push is among those kept, one line after the other.
Keeping(file, kept) ==
    LET upTo[i \in 0 .. Len(file)] ==
          IF i = 0 THEN <<>>
          ELSE IF file[i].push \in kept THEN Append(upTo[i - 1], file[i]) ELSE upTo[i - 1]
    IN  upTo[Len(file)]

\* RemoveQueueRecord
Without(file, p) == Keeping(file, Pushes \ {p})

\* RemovePendingRejectsForRef: every record here targets the one ref.
WithoutRejects(file) == Keeping(file, Pushes \ Rejects)

\* UpdateQueueRecord: the first record with the identifier.
Updated(file, rec) ==
    [i \in DOMAIN file |-> IF /\ file[i].push = rec.push
                              /\ \A j \in 1 .. i - 1 : file[j].push # rec.push
                           THEN rec ELSE file[i]]

\* Variant: the reset takes one try back.
ResetTriesBack(file) == [i \in DOMAIN file |-> [file[i] EXCEPT !.tries = @ - 1]]

\* ResetQueueBackoff; tries = 0 stands for a zero NextRetryAt as well.
ResetTries(file) == [i \in DOMAIN file |-> [file[i] EXCEPT !.tries = 0]]

Rewriting == \/ \E p \in Pushes : hook[p].pc = "rewrite"
             \/ daemon.pc \in {"bury", "rewrite"}
             \/ retry.pc \in {"requeue", "empty", "rewrite"}
MayTouch == Overlap \/ ~Rewriting

-----------------------------------------------------------------------------
(* The pre-receive hook, after the verdict.                                *)

\* buildResolutions and AppendAudit: the record of the verdict names the
\* notification before it is queued.  A loop that cannot be read is skipped.
Verdict(p) ==
    /\ hook[p].pc = "idle"
    /\ audit' = Append(audit, p)
    /\ \E seen \in {loop, NoLoop} :
          /\ IF seen = loop THEN NoFault ELSE Fault
          /\ hook' = [hook EXCEPT
               ![p].pc = IF p \in Cleans /\ seen = NoLoop THEN "done" ELSE "queue",
               ![p].loop = seen]
    /\ UNCHANGED <<files, waiting, loop, daemon, retry, pull, fate, clicks>>

\* Variant: a failed append of a resolution closes the loop all the same.
EnqueueClosing(p) ==
    /\ hook[p].pc = "queue"
    /\ MayTouch
    /\ \/ /\ NoFault
          /\ queue' = Append(queue, [Fresh(p) EXCEPT
                        !.sticky = IF p \in Cleans THEN hook[p].loop.sticky ELSE 0])
          /\ fate' = [fate EXCEPT ![p] = "queued"]
          /\ hook' = [hook EXCEPT ![p].pc = IF p \in Cleans THEN "close" ELSE "done"]
       \/ /\ Fault
          /\ hook' = [hook EXCEPT ![p].pc = IF p \in Cleans THEN "close" ELSE "done"]
          /\ UNCHANGED <<queue, fate>>
    /\ UNCHANGED <<audit, dead, waiting, loop, daemon, retry, pull, clicks>>

\* AppendQueueRecord; a failure is only logged.
Enqueue(p) ==
    /\ hook[p].pc = "queue"
    /\ MayTouch
    /\ \/ /\ NoFault
          /\ queue' = Append(queue, [Fresh(p) EXCEPT
                        !.sticky = IF p \in Cleans THEN hook[p].loop.sticky ELSE 0])
          /\ fate' = [fate EXCEPT ![p] = "queued"]
          /\ hook' = [hook EXCEPT ![p].pc = IF p \in Cleans THEN "close" ELSE "done"]
       \/ /\ Fault
          /\ hook' = [hook EXCEPT ![p].pc = "done"]
          /\ UNCHANGED <<queue, fate>>
    /\ UNCHANGED <<audit, dead, waiting, loop, daemon, retry, pull, clicks>>

\* The resolution is queued: DeletePRState, whose error is dropped.
CloseLoop(p) ==
    /\ hook[p].pc = "close"
    /\ \/ NoFault /\ loop' = NoLoop
       \/ Fault /\ UNCHANGED loop
    /\ hook' = [hook EXCEPT ![p].pc = "purge"]
    /\ UNCHANGED <<audit, files, waiting, daemon, retry, pull, fate, clicks>>

ReadRejects(p) ==
    /\ hook[p].pc = "purge"
    /\ MayTouch
    /\ hook' = [hook EXCEPT ![p].pc = IF WithoutRejects(queue) = queue THEN "done" ELSE "rewrite",
                            ![p].file = queue]
    /\ UNCHANGED <<audit, files, waiting, loop, daemon, retry, pull, fate, faults, clicks>>

DropRejects(p) ==
    /\ hook[p].pc = "rewrite"
    /\ \/ /\ NoFault
          /\ queue' = WithoutRejects(hook[p].file)
          /\ fate' = [q \in Pushes |-> IF q \in Rejects /\ Holds(hook[p].file, q) /\ fate[q] = "queued"
                                       THEN "moot" ELSE fate[q]]
       \/ Fault /\ UNCHANGED <<queue, fate>>
    /\ hook' = [hook EXCEPT ![p].pc = "done", ![p].file = <<>>]
    /\ UNCHANGED <<audit, dead, waiting, loop, daemon, retry, pull, clicks>>

\* The hook's process is gone between two of its steps.
HookDies(p) ==
    /\ hook[p].pc \notin {"idle", "done"}
    /\ Fault
    /\ hook' = [hook EXCEPT ![p].pc = "done", ![p].file = <<>>]
    /\ UNCHANGED <<audit, files, waiting, loop, daemon, retry, pull, fate, clicks>>

-----------------------------------------------------------------------------
(* The daemon: drainQueue, with DeliverOne for each record.                *)

Step(pc) == daemon' = [daemon EXCEPT !.pc = pc]
Quiet == UNCHANGED <<audit, hook, retry, clicks>>

\* A tick: the queue as it is now is what this pass works on.
Poll ==
    /\ daemon.pc = "idle" /\ queue # <<>>
    /\ daemon' = [Resting EXCEPT !.pc = "next", !.todo = queue]
    /\ Quiet /\ UNCHANGED <<files, waiting, loop, pull, fate, faults>>

TakeNext ==
    /\ daemon.pc = "next"
    /\ IF daemon.todo = <<>> THEN daemon' = Resting
       ELSE LET rec == Head(daemon.todo)
                skip == rec.tries > 0 /\ rec.push \in waiting
            IN  daemon' = [Resting EXCEPT !.pc = IF skip THEN "next" ELSE "find",
                                          !.todo = Tail(daemon.todo), !.rec = rec]
    /\ Quiet /\ UNCHANGED <<files, waiting, loop, pull, fate, faults>>

\* FindPRForRef and ReadPRPeople; for a reject, ReadPRState, whose error counts as
\* "no loop yet".
FindPR ==
    /\ daemon.pc = "find"
    /\ \/ Fault /\ Step("failed")
       \/ NoFault /\ ~prOpen /\ Step("webhook")
       \/ NoFault /\ prOpen /\ daemon' = [daemon EXCEPT !.pc = "lookup", !.prev = loop]
       \/ Fault /\ prOpen /\ Step("lookup")
    /\ Quiet /\ UNCHANGED <<files, waiting, loop, pull, fate>>

StickyOf(rec, prev) == IF rec.push \in Cleans THEN rec.sticky ELSE prev.sticky

\* Variant: no fallback to the marker scan.
LookupById ==
    /\ daemon.pc = "lookup"
    /\ NoFault
    /\ daemon' = [daemon EXCEPT !.pc = "post", !.target = StickyOf(daemon.rec, daemon.prev)]
    /\ Quiet /\ UNCHANGED <<files, waiting, loop, pull, fate>>

\* FindStickyComment, then ScanForMarker, newest first.  Their errors are not
\* told from "there is none".
Lookup ==
    /\ daemon.pc = "lookup"
    /\ LET id == StickyOf(daemon.rec, daemon.prev)
           Found(c) == daemon' = [daemon EXCEPT !.pc = "post", !.target = c]
       IN  \/ NoFault /\ Found(IF id # 0 THEN id ELSE Len(comments))
           \/ LookupsFail /\ Fault /\ Found(Len(comments))
           \/ LookupsFail /\ Fault /\ Found(0)
    /\ Quiet /\ UNCHANGED <<files, waiting, loop, pull, fate>>

\* UpdateComment, or CreateComment when a reject found none.  The answer can be lost.
Post ==
    /\ daemon.pc = "post"
    /\ LET p == daemon.rec.push
           shown == IF daemon.target # 0 THEN [comments EXCEPT ![daemon.target] = p]
                    ELSE IF p \in Rejects THEN Append(comments, p)
                    ELSE comments
       IN  \/ /\ NoFault
              /\ comments' = shown
              /\ daemon' = [daemon EXCEPT
                   !.pc = IF p \in Rejects THEN "save" ELSE "webhook",
                   !.prev.sticky = IF p \in Rejects /\ daemon.target = 0 THEN Len(shown) ELSE @]
           \/ Fault /\ comments' \in {comments, shown} /\ Step("failed")
    /\ Quiet /\ UNCHANGED <<files, waiting, loop, prOpen, fate>>

\* Transition's attempt count and WritePRState, whose error is dropped.
SaveLoop ==
    /\ daemon.pc = "save"
    /\ \/ NoFault /\ loop' = [n |-> daemon.prev.n + 1, sticky |-> daemon.prev.sticky]
       \/ Fault /\ UNCHANGED loop
    /\ Step("webhook")
    /\ Quiet /\ UNCHANGED <<files, waiting, pull, fate>>

\* deliverWebhook ends DeliverOne.
Deliver ==
    /\ daemon.pc = "webhook"
    /\ \/ Webhook /\ Fault /\ Step("failed") /\ UNCHANGED fate
       \/ /\ NoFault
          /\ Step("settle")
          /\ fate' = [fate EXCEPT ![daemon.rec.push] = "settled"]
    /\ Quiet /\ UNCHANGED <<files, waiting, loop, pull>>

\* Variant: the rewrite keeps the delivered record.
ReadSettledKeeping ==
    /\ daemon.pc = "settle"
    /\ MayTouch
    /\ Step("next")
    /\ Quiet /\ UNCHANGED <<files, waiting, loop, pull, fate, faults>>

\* RemoveQueueRecord reads the queue.
ReadSettled ==
    /\ daemon.pc = "settle"
    /\ MayTouch
    /\ IF Holds(queue, daemon.rec.push)
       THEN daemon' = [daemon EXCEPT !.pc = "rewrite",
                                     !.file = Without(queue, daemon.rec.push)]
       ELSE Step("next")
    /\ Quiet /\ UNCHANGED <<files, waiting, loop, pull, fate, faults>>

\* The delivery failed: MoveToDeadletter or UpdateQueueRecord reads the queue.
ReadFailed ==
    /\ daemon.pc = "failed"
    /\ MayTouch
    /\ LET p == daemon.rec.push
           rec == [daemon.rec EXCEPT !.tries = @ + 1]
       IN  /\ waiting' = waiting \cup {p}
           /\ \/ ~Holds(queue, p) /\ Step("next")
              \/ /\ Holds(queue, p) /\ rec.tries >= MaxTries
                 /\ daemon' = [daemon EXCEPT !.pc = "bury", !.rec = Find(queue, p),
                                             !.file = Without(queue, p)]
              \/ /\ Holds(queue, p) /\ rec.tries < MaxTries
                 /\ daemon' = [daemon EXCEPT !.pc = "rewrite", !.file = Updated(queue, rec)]
    /\ Quiet /\ UNCHANGED <<files, loop, pull, fate, faults>>

\* Variant: the record leaves the queue before it is in the deadletter.
BuryLate ==
    /\ daemon.pc = "bury"
    /\ \/ /\ NoFault
          /\ queue' = daemon.file
          /\ daemon' = [daemon EXCEPT !.pc = "next"]
          /\ dead' = Append(dead, daemon.rec)
       \/ Fault /\ queue' = daemon.file /\ UNCHANGED dead /\ Step("next")
    /\ Quiet /\ UNCHANGED <<waiting, loop, pull, fate>>

\* The deadletter gets the record first.
Bury ==
    /\ daemon.pc = "bury"
    /\ \/ NoFault /\ dead' = Append(dead, daemon.rec) /\ Step("rewrite")
       \/ Fault /\ UNCHANGED dead /\ Step("next")
    /\ Quiet /\ UNCHANGED <<queue, waiting, loop, pull, fate>>

\* writeQueueAtomic
Rewrite ==
    /\ daemon.pc = "rewrite"
    /\ \/ NoFault /\ queue' = daemon.file
       \/ Fault /\ UNCHANGED queue
    /\ Step("next")
    /\ Quiet /\ UNCHANGED <<dead, waiting, loop, pull, fate>>

\* The dashboard process stops, its request handlers with it, and is restarted.
Crash ==
    /\ daemon # Resting \/ retry # Pending
    /\ Fault
    /\ daemon' = Resting /\ retry' = Pending
    /\ UNCHANGED <<audit, files, waiting, loop, hook, pull, fate, clicks>>

BackoffEnds(p) ==
    /\ p \in waiting
    /\ waiting' = waiting \ {p}
    /\ UNCHANGED <<audit, files, loop, hook, daemon, retry, pull, fate, faults, clicks>>

-----------------------------------------------------------------------------
(* The operator and the pull request.                                      *)

Click == clicks > 0 /\ clicks' = clicks - 1
Still == UNCHANGED <<audit, waiting, hook, daemon, pull, fate>>

\* RequeueDeadletter reads the deadletter.
RetryNow ==
    /\ retry.pc = "idle"
    /\ Click
    /\ MayTouch
    /\ retry' = [pc |-> IF dead = <<>> THEN "reset" ELSE "requeue", file |-> dead]
    /\ Still /\ UNCHANGED <<files, loop, faults>>

\* It appends each record to the queue; a failed append ends it.
Requeue ==
    /\ retry.pc = "requeue"
    /\ \/ /\ NoFault
          /\ queue' = Append(queue, [Head(retry.file) EXCEPT !.tries = 0])
          /\ retry' = [pc |-> IF Len(retry.file) = 1 THEN "empty" ELSE "requeue",
                       file |-> Tail(retry.file)]
       \/ Fault /\ UNCHANGED queue /\ retry' = [pc |-> "reset", file |-> <<>>]
    /\ Still /\ UNCHANGED <<dead, loop, clicks>>

EmptyDeadletter ==
    /\ retry.pc = "empty"
    /\ \/ NoFault /\ dead' = <<>>
       \/ Fault /\ UNCHANGED dead
    /\ retry' = [retry EXCEPT !.pc = "reset"]
    /\ Still /\ UNCHANGED <<queue, loop, clicks>>

\* ResetQueueBackoff reads the queue, and replaces it.
ReadBackoff ==
    /\ retry.pc = "reset"
    /\ MayTouch
    /\ retry' = IF queue = <<>> THEN Pending
                ELSE [pc |-> "rewrite", file |-> ResetTries(queue)]
    /\ Still /\ UNCHANGED <<files, loop, faults, clicks>>

ResetBackoff ==
    /\ retry.pc = "rewrite"
    /\ \/ NoFault /\ queue' = retry.file
       \/ Fault /\ UNCHANGED queue
    /\ retry' = Pending
    /\ Still /\ UNCHANGED <<dead, loop, clicks>>

\* "Reset loop" in the feed.
ResetLoop ==
    /\ loop # NoLoop
    /\ Click
    /\ loop' = NoLoop
    /\ Still /\ UNCHANGED <<files, retry, faults>>

\* The agent opens its pull request (external).
OpenPR ==
    /\ ~prOpen
    /\ prOpen' = TRUE
    /\ UNCHANGED <<audit, files, waiting, loop, hook, daemon, retry, comments, fate, faults, clicks>>

-----------------------------------------------------------------------------
HookStep(p) == Enqueue(p) \/ CloseLoop(p) \/ ReadRejects(p) \/ DropRejects(p)

DaemonStep == \/ Poll \/ TakeNext \/ FindPR \/ Lookup \/ Post \/ SaveLoop \/ Deliver
              \/ ReadSettled \/ ReadFailed \/ Bury \/ Rewrite

RetryStep == Requeue \/ EmptyDeadletter \/ ReadBackoff \/ ResetBackoff

Next ==
    \/ \E p \in Pushes : Verdict(p) \/ HookStep(p) \/ HookDies(p) \/ BackoffEnds(p)
    \/ DaemonStep \/ Crash
    \/ RetryNow \/ RetryStep \/ ResetLoop \/ OpenPR

Spec == Init /\ [][Next]_vars

\* Started hooks and handlers run on, the ticker fires and backoffs end; nobody has
\* to push, to click or to open a pull request.
Fairness ==
    /\ \A p \in Pushes : WF_vars(HookStep(p)) /\ WF_vars(BackoffEnds(p))
    /\ WF_vars(DaemonStep) /\ WF_vars(RetryStep)

FairSpec == Spec /\ Fairness

-----------------------------------------------------------------------------
Record == [push : Pushes, sticky : Nat, tries : Nat]

\* The type invariant.
TypeOK ==
    /\ audit \in Seq(Pushes)
    /\ queue \in Seq(Record) /\ dead \in Seq(Record)
    /\ waiting \subseteq Pushes
    /\ loop \in [n : Nat, sticky : 0 .. Len(comments)]
    /\ \A p \in Pushes :
          /\ hook[p].pc \in {"idle", "queue", "close", "purge", "rewrite", "done"}
          /\ hook[p].file \in Seq(Record)
    /\ daemon.pc \in {"idle", "next", "find", "lookup", "post", "save", "webhook", "settle",
                      "failed", "bury", "rewrite"}
    /\ daemon.todo \in Seq(Record) /\ daemon.file \in Seq(Record)
    /\ daemon.rec \in Record \cup {NoRecord}
    /\ daemon.target \in 0 .. Len(comments) /\ daemon.prev.sticky \in 0 .. Len(comments)
    /\ retry.pc \in {"idle", "requeue", "empty", "reset", "rewrite"}
    /\ retry.file \in Seq(Record)
    /\ comments \in Seq(Pushes)
    /\ fate \in [Pushes -> {"none", "queued", "moot", "settled"}]
    /\ faults \in 0 .. MaxFaults /\ clicks \in 0 .. MaxClicks

\* Durability (queue.go: "the record outlives any single inline attempt"): a queued
\* record is in one of the two files until it is delivered or made moot.
Durable ==
    \A p \in Pushes : fate[p] = "queued" => Holds(queue, p) \/ Holds(dead, p)

\* enqueueResolutions ("if an enqueue fails, that PR's loop state is left in place so a
\* later push retries"): only a queued resolution, or the operator, ends a loop.
LoopEndsResolved ==
    [][loop # NoLoop /\ loop' = NoLoop =>
          clicks' < clicks \/ \E c \in Cleans : hook[c].pc = "close" /\ fate[c] # "none"]_loop

\* One sticky comment per pull request, across crashes and lost answers.
OneComment == Len(comments) <= 1

Newest == audit[Len(audit)]
Quiescent == /\ audit # <<>> /\ queue = <<>> /\ dead = <<>> /\ daemon = Resting
             /\ \A p \in Pushes : hook[p].pc \in {"idle", "done"}

\* state.go: the loop's state is "deleted when the PR is accepted": no loop is left
\* open on a ref whose newest push was clean, once the rail has drained.
AcceptedClosesLoop == Quiescent /\ Newest \in Cleans => loop = NoLoop

\* The rail drains: records are delivered or deadlettered once failures stop.
Drains == <>[](queue = <<>>)
=============================================================================
