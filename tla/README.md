# A TLA+ model of the nimblegate gateway

nimblegate is a git gateway: agents push to a bare repository on the gateway
host, a pre-receive hook checks the push, accepted pushes are relayed to the real
upstream, and rejected ones are reported on the upstream's pull request. The same
program checks a single checkout from the command line. This directory models the
parts whose correctness depends on the order in which several processes act (hooks,
the relay service, the dashboard's daemon and handlers, the operator, the commands of
one checkout) and on the files they share, model-checks them with TLC on small
instances, and proves the central results with TLAPS for every instance.

Paths below are relative to `src/`; `gateway/` stands for `internal/gateway/`.

## 1. The system

| Component | State | Operations | Talks to |
|---|---|---|---|
| Push gate: `gateway/prereceive.go`, `decision.go`, `refmatch.go` | none of its own; reads `gateway.toml`, appends `audit.log` | one process per push: load the policy, stage and scan each gated ref, one verdict for the batch, record it, queue notifications | git receive-pack (stdin, exit code), audit log, notification queue |
| Post-receive hook: `gateway/postreceive.go` | appends `events.log` | send a job over the socket, wait, record `relay-ok` or `relay-failed` | relay service |
| Relay service: `gateway/relaysvc.go`, `relay.go` | nothing on disk | accept a job, resolve the repository, guard each ref, one `git push` | upstream |
| Reconcile backstop: `gateway/reconcile.go`, `relaystatus.go` | `relay-status.json` | list local heads, list upstream heads, relay the drift, record the outcome | the same `Relay`, upstream, dashboard |
| Notification queue: `gateway/notification/queue.go` | `pr-comment-queue.jsonl`, `pr-comment-deadletter.jsonl` | append; remove, update, move, purge, reset, requeue (all of them read, then rename a new file) | hooks, daemon, dashboard handlers, all without a lock |
| Daemon and orchestrator: `notification/daemon.go`, `orchestrator.go`, `state.go` | `pr-comment-state/<pr>.json` | drain the queue; find the pull request, find or create the sticky comment, save the loop, call the webhook | upstream, webhook |
| Fix-loop transitions: `notification/transitions.go` | part of the loop state | attempt count, bot rotation, exhaustion | orchestrator |
| Repository lifecycle: `gateway/admin.go`, `skeleton.go`, `seed.go` | directories, activation symbolic links | register, archive, restore, delete, migrate, credential, repair, seed | dashboard, command line |
| Policy store: `gateway/policy.go`, `framepolicy.go`, `linterpolicy.go`, `commands/gatewaytuning.go` | `gateway.toml`, `appframes.toml` | read, change, rewrite; repair at start | hooks read while handlers write |
| Access: `commands/gatewaysshkeys.go`, `gateway/access.go`, `gitshell.go` | `authorized_keys`, `access.json` | add, remove, grant, revoke, migrate; sshd and the shell read | dashboard, command line, sshd |
| Logs and maintenance: `gateway/audit.go`, `eventlog.go`, `gateway/maintenance/` | `audit.log`, `events.log`, the deadletter | append; retention rewrites and renames | hooks append meanwhile |
| Analytics: `gateway/analytics/` | SQLite, offsets into audit logs | incremental ingest, rebuild | audit log, retention |
| Accounts: `internal/auth/`, `commands/gatewayauth.go` | users, one-time setup token, sessions, tokens of the agent API | issue a token, first-run setup, login with its limit, requests, logout, revocation, sweep | dashboard, agent API |
| Staged trees: `gateway/scantmp.go`, `maintenance/tmporphans.go` | directories under the scan directory | stage, remove, sweep what a dead process left | hooks, dashboard, `gateway.toml` of the host |
| Answers from the decision log: `internal/agentapi`, `gateway/analytics/query.go`, `internal/benchmark` | when the index was last refreshed | a few SQL statements each, over an index that grows meanwhile | agents, dashboard, benchmark scorer |
| Doctor and health: `commands/gatewaydoctor*.go`, `gatewayhealth.go` | none | one report, put together read by read | operator |
| Adapters and the sticky comment: `notification/adapter/`, `registry.go`, `orchestrator.go` | none of their own | find the pull request, find, rewrite or create the comment | forges (Gitea, GitHub), webhook |
| Scan of a push: `gateway/prereceive.go`, `internal/engine`, `whitelist`, `config` | none; reads a staged tree with the operator's files | stage, remove the push's own settings, copy the operator's, run checks, apply the whitelist, decide | whitelist and settings handlers |
| Check engine's own log: `internal/audit`, `engine/compact.go` | parts of one invocation each, `audit.log` | write, rotate, compact under a lock file | every invocation of the program |
| Findings ledger: `internal/tasks`, `commands/check.go`, `prodgate.go`, `fix.go`, `slice.go` | `tasks.json`, the open slice, the pause files | reconcile, defer, undefer, link; gate of a push; verify a fix; slice | commands of one checkout |
| Checks, frames, linters | none that evolves | pure functions over a tree | push scan, command line |
| Incidents and a project's own frames: `commands/incident.go`, `commands/frame.go`, `internal/incident` | drafts, `.appframes/<category>/<name>.md` | new, promote, archive, revive | `check`, which loads the frames |
| Installation on a developer's machine: `commands/setup.go`, `purge.go`, `shell.go`, `internal/gitwrap`, `install.sh` | shims, blocks in the rc file of the shell | install, uninstall, purge | editors and other installers of the same file |
| Rest of the command line: `triggers`, `state`, reports | files of one user | run by hand or from git hooks | - |

What is hard, and what makes each part correct:

* **Push path.** A push is a chain of processes; a revision reaches the upstream
  through a relay job or a backstop pass that runs much later, possibly after the
  service died and restarted, possibly twice and out of order. Correct: nothing
  reaches the upstream past the gate, the upstream never goes backwards, only a push
  deletes a ref, a recorded success is a delivery, and once failures stop the
  upstream catches up.
* **Notification rail.** Hooks append to files that the daemon and the dashboard read
  and replace; every network call can fail with its effect lost or kept; a reject and
  the clean push that supersedes it travel separately. Correct: a queued record is
  never lost, one comment per pull request, the attempt count and the comment say
  what happened last, a loop is closed by a resolution only, and the queue drains.
* **Files replaced by several processes** (policy, logs, deadletter, repositories, keys,
  ledger). Almost none is locked. Correct: a change keeps the rest of the file, no reader
  acts on half a file in the dangerous direction, a crash leaves something that can be
  repaired, evidence and queued records survive, a removed key stays out. Much of this
  fails when two writers overlap: the properties say what holds when none did, and what
  still holds when some did.
* **A scan against moving settings.** The operator changes checks and whitelist while a
  push is staged. Correct: a refused finding was never excused during the scan, an
  accepted one was at some time. What a dead scan leaves is swept, what a living one uses
  is not.
* **The way in.** A login looks at the limit, compares and records in three steps; a request
  is looked up after it was sent; rows outlive the sessions. Correct: nobody is let in by a
  session that is over, and guesses are bounded.
* **Reports about things that move** (doctor, statistics, comments at a forge). Each is put
  together from several reads. Correct: a report without a complaint describes a moment of
  its own making, the numbers of one answer agree, a record removed as delivered was shown
  where it belongs.

`PROJECT.json` lists every component with its status, and every hazard at its line.

## 2. Modules

| Module | Models | Extends / instantiates |
|---|---|---|
| `UpstreamMirror` | what the gateway promises about the upstream (abstract) | - |
| `GateRelay` | push gate, post-receive, relay service, backstop | `INSTANCE UpstreamMirror` |
| `GateRelayProofs` | proofs about `GateRelay` | `GateRelay`, `TLAPS` |
| `MCGateRelay` | instances of `GateRelay` | `GateRelay` |
| `NotifRail` | hook's notification part, queue files, daemon, Retry now, Reset loop | - |
| `NotifRailProofs` | proofs about `NotifRail` | `NotifRail`, `SequenceTheorems`, `WellFoundedInduction`, `TLAPS` |
| `MCNotifRail` | instances of `NotifRail` | `NotifRail` |
| `FixLoop` | `Transition` and the loop file of one pull request | - |
| `FixLoopProofs` | proofs about `FixLoop` | `FixLoop`, `FiniteSetTheorems`, `SequenceTheorems`, `TLAPS` |
| `MCFixLoop` | instances of `FixLoop` | `FixLoop` |
| `GatePolicy` | `gateway.toml`: its writers, the hooks that read it | - |
| `MCGatePolicy` | an instance of `GatePolicy` | `GatePolicy` |
| `FramesFile` | `appframes.toml`: three families of writers, the repair at start | - |
| `RepoFiles` | directories and links of one repository name | - |
| `RepositoryProofs` | proofs about `GatePolicy`, `FramesFile`, `RepoFiles`, `StickyComment` | the four, `FiniteSetTheorems`, `SequenceTheorems`, `WellFoundedInduction`, `TLAPS` |
| `KeyAccess` | `authorized_keys`, `access.json`, sshd and the shell | - |
| `AuditParts` | the engine's audit log: parts and compaction | - |
| `LogRetention` | a gateway log: appends, retention, analytics ingest | - |
| `Accounts` | setup token and first user | - |
| `Sessions` | logins, sessions, requests, API tokens | - |
| `Doctor` | the report of `gateway doctor` and `/health` | - |
| `PushScan` | staging, settings, whitelist and verdict of one push | - |
| `ScanStaging` | staged trees and the sweep of those left behind | - |
| `AccessProofs` | proofs about `KeyAccess`, `Accounts`, `Sessions`, `Doctor`, `PushScan`, `ScanStaging` | the six, `FiniteSetTheorems`, `TLAPS` |
| `QueueFile` | the queue file below NotifRail: descriptors, temporary name, short writes | - |
| `TaskLedger` | the findings ledger of a checkout and its commands | - |
| `FrameLife` | incidents' drafts and a project's own frames | - |
| `CheckoutProofs` | proofs about `TaskLedger`, `AuditParts`, `FrameLife` | the three, `FiniteSetTheorems`, `SequenceTheorems`, `WellFoundedInduction`, `TLAPS` |
| `UserInstall` | shims and the rc file of a developer's shell | - |
| `GateStats` | answers of the agent API, `/stats` and the benchmark | - |
| `LogProofs` | proofs about `LogRetention`, `QueueFile`, `GateStats`, `UserInstall` | the four, `FiniteSetTheorems`, `SequenceTheorems`, `WellFoundedInduction`, `TLAPS` |
| `StickyComment` | adapters, pull requests and comments at the forge | - |
| `MCHostFiles` | one instance of each of these seventeen components | `GatePolicy` ... `StickyComment` |
| `HostProofs` | proofs about the components of the host together | `MCHostFiles`, the four proof modules of its components |

Operators whose comment begins with "Variant" are not part of the system. They are
plausible bugs (a dropped guard, a swapped order) that show each property fails when
the code is wrong in that way; `PROJECT.json` lists which variant breaks which property.

### UpstreamMirror
The outside view: a set of accepted ref updates that grows, and a mirror that moves
only to accepted values, without rewinding a branch or moving a tag. How and when
values travel is left open.

### GateRelay
One repository, any number of pushes at once. A revision is an element of `Revs`,
`Ancestry` is its history, `Bad` the revisions the checks block.

| State | Code |
|---|---|
| `mode` | `Policy.Enabled`, `Policy.Observe` in `gateway.toml` |
| `bare`, `upstream` | refs of the two repositories |
| `push[p]` | one `git push` and its hook processes: batch, policy read, scan result |
| `relay[w]` | one call of `Relay` (a job per push, one for the backstop) and the refs still to be guarded |
| `svc`, `recon`, `status` | the service process, its reconcile pass, `relay-status.json` |
| `lastPush` | what `LastPushRelays` reads from `events.log`, with what the push carried |

Actions follow the code: `LoadPolicy`, `PreReceive` (the scan of every gated ref, any
of which can fail, and `Decide` for the whole batch), `GitUpdate` (git's own step),
`PostReceive`, `HookReturns`, `Accept`, `CheckRef` (one `rev-parse`, one ref at a
time), `GitPush` (partial, failed, or done with a lost answer), `ReadLocal`,
`ReadRemote`, `Relayed`, `WriteStatus`, `Serve`, `SvcCrash`, `SvcStart`.

Time stamps are compared in one place only, `Recovered`: the flag `fresh` says whether
`LastSuccess` is later than the last push event, both on disk and in a running pass.

### NotifRail
One repository, one gated ref and its pull request. A push is rejected or clean from
the start (`Rejects`, `Cleans`): the gate's verdict is GateRelay's subject. Reading
a file and replacing it are two steps in `ReadRejects`/`DropRejects`,
`ReadSettled`/`Rewrite`, `ReadFailed`/`Bury`/`Rewrite`, `RetryNow`/`Requeue`/
`EmptyDeadletter`, `ReadBackoff`/`ResetBackoff`; an append is one. `DeliverOne` is one
action per call that has an effect or an answer: `FindPR`, `Lookup`, `Post`,
`SaveLoop`, `Deliver`. Any of them can fail; `Post` can also succeed with its answer
lost. `fate` is a history variable: what became of each record.

Production never gives the hook an `Orchestrator` (`commands/gatewaynotifdaemon.go`:
"no inline delivery exists to race"), so the inline attempt of `enqueueNotification`
does not run and has no action.

Two constants describe the environment. `Overlap` says whether one process may touch
the queue between another's read and rewrite. Nothing in the code prevents it, so what
holds with `Overlap = TRUE` holds outright, and `Durable` does not; `Overlap = FALSE`
asks whether failures and crashes alone can lose a record. `LookupsFail` says whether
the search for the sticky comment can fail while the rest of the upstream answers.

### FixLoop
One pull request, open throughout. The first half is `Transition` as operators, one per
branch of the code: `Fresh` (the first reject), `Rotation` (which trigger, if any),
`Rotate` with `Seat` and `HandOver` (who is next), `Limit` (the attempt limit, applied
after the rotation whatever it did), `Moved` and `Advance` (a subsequent reject). The
second half is what happens to `pr-comment-state/<pr>.json` around it: `Reject` queues a
record with the configuration of that moment, `Begin` reads the loop and computes the next
one, `Save` writes it and settles the record, `Abandon` is a delivery that fails before,
and `EditPolicy`, `Accepted` and `ResetLoop` come in between. Queued records are delivered
in any order (backoff and Retry now reorder them).

| State | Code |
|---|---|
| `policy` | `NotificationConfig.LoopCfg`, read from `gateway.toml` by each hook |
| `queue` | the rejects not settled, with `QueueRecord.LoopConfig` |
| `loop` | `PRState`, with `n` for `attempt_count` and `count` for `per_bot_attempts` |
| `daemon` | the local variables `rec` and `loopState` of `DeliverOne` |

An entry of the history also carries its configuration, a history variable: it lets a
property speak of loops whose configuration did not change (`Steady`). The reference
definition (`Mentioned`, `PastLast`, `AtLimit`) says in closed form whom attempt `n`
mentions; `FollowsCount` compares `Transition` with it.

NotifRail and FixLoop share the delivery and look at it from two sides: NotifRail has
the files and the processes with the loop as an attempt count and the pushes it showed,
FixLoop has the loop's contents with the queue as a set.

### The files of the host
The other components are each one file, or a few, that several processes read, change and
write back, nearly always without a lock. Their modules have one scheme. A request is a
record of what it does, where it stands and what it has read; every `open`, `read`,
`write` and `rename` is a step of its own, so that other requests come between them. A
descriptor follows its file through a rename: who has the replaced file open writes into
nothing, who has the temporary file open writes into the live one after another's rename.
A write may leave a file that does not parse when another request wrote there. A request
may stop between any two steps. History variables say whether requests overlapped or
stopped in a write (`spoilt`, `overlapped`, `mixed`, `met`, `together`, `tangled`): the
properties tell what the code keeps from what it keeps only without overlap.

**GatePolicy** (`toml`, the requests `saver`, the pushes `gate`). `LoadPolicy`,
`Truncate`, `WritePolicy` are `Save` in place; `RenamePolicy` is the notification form.
`GatePush` is what pre-receive decides from one reading, `RelayPush` the second reading by
the relay. A truncated file is valid TOML and decodes to a gate that is off. `asked` is
each setting as the last completed request wanted it.

**FramesFile** (`live`, the shared temporary file `shared`, `startup`, the requests
`editor`). `Edits` are the forms of the dashboard by what they change. Text edits replace
one array; policy saves and whole-file saves render the sections they know and drop the
others, as their code does (`Rendered`, `RenderedFull`). `StartRepair` replaces names of
kits by their frames before the dashboard serves.

**RepoFiles** (`disk`, the requests `admin`). A request is the list of file operations its
code performs, with the list it performs when one fails (`Undo`). `Admitted` is the
handler's check, `Possible` and `Result` what the file system does. The two layouts are
the initial states: nothing, or a repository of plain directories that can be migrated.

**KeyAccess** (`lines`, `access`, the requests `clerk`, the last shell `session`). The
dashboard's additions and removals hold its lock; grants, revocations and the migration do
not. `CutAccess`/`FillAccess` are a truncating write, `RenameLines` the replacement of the
key file, `Connect` an ssh login. `wanted` is what completed grants and revocations say.

**AuditParts** (`part`, `writer`, `auditLog`, `locked`, `compactor`). Each invocation writes
a part of its own, which it rotates when it is full (`WriteEntry`, `WriteShort`,
`RotationFails`). A compactor takes the lock and lists every file that is older than the
window by its own time, a rotated one of a writer that is alive included (`Eligible`). It
reads one, rotates `audit.log` if the file would not fit, appends and removes it, and takes
the next; rotation renames file by file (`Shifted`) and drops the oldest. Each call may
fail: a file is skipped (`SkipPart`), the compaction returns and gives the lock back, with
part of the rotation or of the lines done (`AppendFails`), or what was appended cannot be
removed (`RemoveFails`). Or it dies at any of these places and the lock stays
(`CompactorDies`). `outlived`, `discarded`, `cut` name what the code makes no promise of.

**LogRetention** (`log`, `pruner`, `ingester`, `index`). Hooks open and append, short
writes included; `ScanLog`/`RenameLog` are a retention pass; `LoadOffset`, `StatLog`,
`ReadLog`, `CommitIndex` one refresh of the database; `RebuildIndex` starts it again. The
log is an audit log, a deadletter or the event log, in the flat or the linked layout
(`which`, `layout`): each has its own rule of what is kept.

**Accounts** (`token`, `users`, `setup`). `ServerStarts` issues a token or takes up the
pending one; `CountUsers`, `CompareToken`, `RemoveToken`, `CreateUser` are one request to
`/setup`.

**PushScan** (`selection`, `exempt`, `exemptTmp`, `scan`). `PushArrives` to `RunChecks`
are the scan in the order of the hook: the push's settings go, `appframes.toml` is copied,
then the directory is listed and its files copied one by one, so that a whitelist that is
being saved can be listed as a temporary file and be gone when it is copied. The other
actions are the operator's forms. A tree is the pairs of check and file with a finding;
`selections` and `exempts` are what was in force since the scan began.

**QueueFile** (`file`, `temp`, `append`, `rewrite`). NotifRail's append and rewrite, down
to descriptors: `OpenQueue`, `WriteRecord`, `WriteFragment`; `ReadQueue`, `BuryRecord`,
`OpenTemp`, `FillTemp`, `RenameTemp`. A fragment without its newline swallows the line
that follows (`Parsed`).

**TaskLedger** (`ledger`, `ledgerTmp`, `command`, `tree`, `slice`, `paused`). A command is
a process: `check` scans, loads, reconciles and saves; `tasks defer` and the others load,
mutate and save; a push reads at the production boundary (`GateReads`); `fix` runs an
agent, then a check, then reads (`Verify`). The developer edits the tree meanwhile, the
clock passes, `SliceStart`/`SliceDone` mark a slice.

**UserInstall** (`rc`, `shims`, `binary`, `installer`). `Setup`, `Shell`, `Purge` and
`RunInstallSh` queue the tasks their code performs, each in its own way: `ReadRc`/`RenameRc`
replace the rc file by a rename, `AppendSnippet` appends with one write, `AppendBinLine` line
by line, `EmptyRc`/`FillRc` rewrite in place. `OwnEdit` is the user's editor or another
installer, `InstallerStops` a death, which may leave a shim or a block cut short.

**FrameLife** (`drafts`, `own`, `author`). `NewIncident` and `WriteDraft` write a draft;
`Promote`, `Archive`, `Revive` look where the frame is, then `OpenFrame`/`FillFrame` write the
file in place, `RemoveSource` removes the one it was moved from, `MarkDraft` notes the
promotion. `Complete` is the user who finishes a stub. `AtCheck` is what `check` loads for an
identifier when several files, and the library, have it.

**ScanStaging** (`conf`, `usable`, `staged`, `sweeper`). `GateStages` and `OtherStages` resolve
the directory from the configuration as it is then, `SweeperStarts` as it is when the dashboard
starts. `Sweep` removes what is a tick old; `StagerDies` leaves a tree behind; `EditGatewayConfig`
and `ChangeRights` are the operator.

**Sessions** (`front`, `rows`, `jar`, `apiToken`, `attempt`, `request`, `hitsAt`). `BeginLogin`
looks at the limit, `LoginFails`/`LoginSucceeds` come later; `Send`, then `Admit` or `Refuse`,
then `Handle` are a request; `Logout`, `RevokeToken`, `SweepSessions` and `Restart` come between.

**GateStats** (`logged`, `decided`, `lastIngest`, `reader`). `Ask` decides whether this question
refreshes the index, `IngestLog` takes one repository's log, `RunStatement` runs one statement
over the index as it is then, `CloseAnswer` ends it. The statements are operators over the rows
seen (`Totals`, `PerRepo`, `TopRules`, `Recurring`, `TimeSaved`, `Receipts`, `WhatChanged`,
`ScoreRun`), each with the grouping, the order and the limit of its SQL.

**Doctor** (`host`, `report`, `repair`). `BeginReport` ... `LoadRelayLine` are the reads in the
order of the code, each filling its lines; `EditHost` changes one fact meanwhile; `FollowFixes`
is the operator who types the printed commands. Beside the lines stand the same facts as the
gate, git and the relay take them (`Kept`).

**StickyComment** (`upstreamOf`, `pulls`, `remarks`, `stickyOf`, `notices`, `pending`,
`courier`). `NotifyReject`/`NotifyResolved` queue records; `BeginPass` makes the adapters and
reads the queue; `TakeRecord`, `FindPull`, `LookUp`, `UpdateComment` or `CreateComment`,
`FireWebhook` are one delivery with its calls; people open, close, answer and delete meanwhile,
and the operator points a repository at another upstream. It has several repositories and
upstreams where NotifRail has one, and leaves NotifRail its files and crashes.

## 3. Runs

Each run finishes in less than five minutes on two workers.

| Run | Shows | Bounds, and why they are enough |
|---|---|---|
| `relay_safety` | `NoBypass`, and that `GateRelay` implements `UpstreamMirror` | two pushes, two branches (one gated and protected), three revisions (a fork, one bad), two modes, one failure. Two pushes are the fewest that race; batches mix a passing and a failing ref; one failure suffices for a crash, a failed scan or a lost answer |
| `relay_tags` | `CleanPassDelivered`, `OkMeansDelivered` | a branch and a tag, forced updates, moved and deleted tags, a gate that may be off, one failure |
| `relay_liveness` | `PushEnds`, `Converges` | one branch that moves, forks and is deleted; one failure |
| `relay_recovered` | violation of `RecoveredIsDelivered` | one push, one failure |
| `rail_races` | `LoopEndsResolved`, `Drains` | a reject and a clean push (the two kinds of hook, each racing the daemon, Retry now and Reset loop), two failures (one to fail a delivery, one to hit the recovery), one click, two attempts, file operations overlapping |
| `rail_durable` | `Durable`, `OneComment` | two rejects and a clean push, two failures, one click, deadletter on the first failure, no webhook (a crash after the comment stands for its failure), no overlap |
| `rail_lost` | violation of `Durable` | two rejects, no failure, file operations overlapping |
| `rail_reopened` | violation of `AcceptedClosesLoop` | a reject, the clean push after it, no failure |
| `fixloop_attempts` | `EveryBotTried`, `CountPaidFor` | four pushes and one failure (five attempts: enough for two bots with two attempts each and the human after them), one edit, reset or clean push, and seven configurations: no rotation; rotation that wraps; rotation that ends with the human before, at and after the limit; a limit of one; a bot that is its own fallback. One fingerprint suffices, as only "repeated or not" is read |
| `fixloop_redelivered` | violation of `SameFindingMeansTwoPushes` | two pushes, one failure |
| `host_files` | what the files of the host keep, see below | two requests or processes at once, one failure, two or three requests in all |
| `policy_unchecked` | violation of `EveryRelayChecked` | one save of the policy, one push, no failure |

The runs of the rail, the fix-loop and the files do not check for deadlock: pushes, clicks
and requests are bounded and come to rest when they are used up. GateRelay's runs do; there
the backstop's ticker never stops.

### `host_files`
The seventeen file components share no variable, so a behaviour that mixes their steps shows
nothing that each alone does not. `MCHostFiles` therefore composes them with a variable
`focus`, which never changes: it names the component that moves, the others stay in their
first state (`OthersStay`). About 590 000 states. The two processes `l1`, `l2` stand for the two
commands, requests or processes of every component; they are symmetric, as no component and no
property tells them apart.

| Component | Property | What it says |
|---|---|---|
| all | `HostTypeOK` | the type invariant of the component in focus |
| `GatePolicy` | `RestPreserved` | the policy holds what the completed requests asked for, each setting |
| `FramesFile` | `SectionsSurvive` | a section is lost only to a request that deletes from it or cannot render it |
| `RepoFiles` | `ServedIsGated` | what git serves has its pre-receive hook |
| | `SomeWayOut` | whatever is left, the name can be added, deleted or migrated |
| `KeyAccess` | `OnlyTheGranted` | the shell allows only what completed grants and revocations say |
| | `RemovedStaysOut` | a removed key comes back only when it is added |
| `AuditParts` | `EntriesKept` | compaction loses no entry; what is lost, a rotation dropped or half a line took |
| | `EntriesOnce` | readers find no entry twice |
| `LogRetention` | `EvidenceKept` | retention removes only what is old enough, never a rejection of the audit log |
| | `IndexComplete` | the database holds every decision up to its offset |
| `Accounts` | `OneAdmin` | the setup token creates one account |
| `Sessions` | `GuessesBounded` | failed logins in a window: the limit, and those that looked together |
| | `AdmittedOnly` | no request is let in by a session, a token or a form that is over |
| `PushScan` | `NothingSlips` | what was accepted was, each finding, excused at some time of the scan |
| `ScanStaging` | `SweptInTime` | a tree in use is not swept before its time, one left behind is gone after it |
| `QueueFile` | `QueueKeeps` | an appended record is readable, buried or settled |
| `TaskLedger` | `PushConsented` | a push with a BLOCK finding stands on a deferral that was given and still stands |
| `UserInstall` | `UserLinesKept` | the user's own lines survive installers and uninstallers |
| `FrameLife` | `FramesKept` | a frame the project had, or was promised, is in some file |
| | `ArchivedStaysOut` | an archived frame is not used, however many files have its name |
| `GateStats` | `NotStale` | an answer without a note has every decision an interval old |
| | `AnswersAgree` | the reports of one window agree with each other |
| `Doctor` | `CleanMeansServed` | what a clean report promises was so while it was put together |
| | `FixGrants` | the printed commands grant the access that was missing |
| `StickyComment` | `RightRepository` | what is said about a push is said in that push's repository |
| | `TakenMeansTold` | a record removed as delivered was shown on the branch's pull request |
| | `WordsKept` | a person's comment is rewritten only when it holds the marker |

Most of these hold with an exception, which the property names by a history variable and the
code does not prevent. The exception is stated as narrowly as the model allows, and a
mutant of each property shows that the rest can fail:

* `spoilt`, `mixed`, `overlapped`, `met`, `together`, `tangled`: two requests overlapped, or
  one stopped in its write. `GatePolicy`, `KeyAccess` and `TaskLedger` raise the flag for
  good, since what was read stale may be written back much later.
* `cutShort`, `halfDone` (`RepoFiles`): a registration stopped, or a removal failed after
  another failure; a step failed that its request does not undo, or a removal.
* `outlived`, `discarded`, `cut` (`AuditParts`): the writer changed a file between a
  compactor's read and removal of it, or wrote on after its part was removed; the entry was
  in a file that a rotation dropped, of the part or of `audit.log`, or was joined to half a
  line; a compactor appended entries of a part and did not remove it.
* `raced`, `glued`, `blind` (`LogRetention`): an entry written during a rewrite, an entry
  behind a short write, a refresh that did not notice that the file had been replaced.
* `overtaken`, `joined` (`QueueFile`): the same two for the queue.
* `spent` (`Accounts`): the token was removed, then the user could not be created.
* `late`, `enclosed`, `mangled` (`UserInstall`): a line written while an installer had its copy
  of the file, one between two markers, and any line when a rewrite in place was interrupted.
* `clobbered`, `torn`, `crossed`, `aside` (`FrameLife`): a frame a namesake was moved over, one
  cut by a death, one that two commands changed at once, one moved out of the way of a second.
* `excused` (`GateStats`): the refresh an answer relies on was still under way or had broken.
* `unseen`, `hopeless` (`Doctor`): what the report does not look at, and accesses that the
  printed command cannot give.
* `excused`, `Strayed` (`StickyComment`): the pull request or the comment was beyond the page
  the forge answers with, a lookup failed, or the upstream's identifiers may be another's.

Bounds. Two requests are the fewest that overlap, and every overlap of more begins with
one of two; three requests in `RepoFiles`, `Accounts`, `FrameLife` and `TaskLedger` let one come
after two that overlapped, or a rerun follow a failure (in `TaskLedger` the third command is a
push, or comes to a torn file: `Recovering`). One failure is a crash between any two steps, a
failed call or a short write. `AuditParts` has
parts and logs of two entries, one rotated file of each, and one invocation of five entries: it
rotates its part twice and drops one, and its files fill `audit.log` past its rotated file. The
compactors take its files at different times, as they would those of several invocations, and
no promise relates two invocations; the proofs hold for any number of them.
`DeferDates` are "none" and a date that comes within the run. `PushScan` has a blocking and a
mild frame, an own and a repository-code linter, two files, and one whitelist entry of each kind
that is told apart (exact, category, stale, unknown). `FrameLife` has a category walked before
the archive and one after it, and the library has a frame of the second.

A few guards of `HostNext` order what the components leave free, and lose no race a property is
about. The linked layout of a log is met with the deadletter only (the other logs differ in
what is kept, not in where they are). The second of two forms alike is posted while the first
is (`InTurn`), and the whitelist rests once a scan is decided. Logins and other requests are
checked apart (`LoginsOver`), as no property relates the two. While an answer is put together only
the index grows (`Reading`, `AnswerOut`, `Alternates`), and the reports that use one statement are
asked alone (`Askable`). The second fact that changes under the doctor is one that several
lines rest on (`Editable`). At the forge there are two events or faults in all (`Calm`), each at
a moment when a step of the delivery can meet it, and pushes wait for the daemon (`Resting`,
`Unsent`): NotifRail has the races of pushes with the daemon.

### Fairness
Safety runs use `Spec`, without fairness. `FairSpec` of `GateRelay` assumes weak
fairness of each hook, of the relay goroutines, of the reconcile pass (a ticker in the
service) and of the restart of the service (`Restart=on-failure` in
`deploy/gateway/nimblegate-relay.service`). No agent has to push, no operator has to
act, and no failure has to happen. Failures are bounded by `MaxFaults` in one behaviour,
which is the "once failures stop" of the liveness properties. `FairSpec` of `NotifRail`
assumes the same of hooks that have queued or are queueing, of the daemon's ticker, of
a Retry handler that has started, and that a backoff ends.

## 4. Proofs

Eight modules; each theorem holds for all values of the constants that satisfy the
assumptions of its components' modules: any number of processes, pushes, requests, failures.

### GateRelayProofs
`RelayAssumption`: branches and tags are disjoint, ancestry is reflexive and transitive,
markers are not revisions.

| Theorem | Statement |
|---|---|
| `TypeCorrect` | `Spec => []TypeOK` |
| `NoBypassCorrect` | `Spec => []NoBypass` |
| `ImplementsMirror` | `Spec => MirrorSpec` |
| `OnlyPushesDeleteCorrect` | `Spec => OnlyPushesDelete` |
| `OkMeansDeliveredCorrect` | `Spec => OkMeansDelivered` |
| `CleanPassDeliveredCorrect` | `Spec => CleanPassDelivered` |

`NoBypass` speaks of the upstream only and is not inductive: a step of `GitPush` says
nothing about where its job came from. `NoBypassInv` adds the chain of custody.
Every push that passed is cleared for each ref it names (`PassedCleared`); a job on
the socket or in the relay carries only updates of its own push, which has passed
(`JobOfPush`); what the bare repository holds beyond its seed was carried by a passed
push (`BareCarried`); so was what a reconcile pass listed (`ListedCarried`) and what it
handed to `Relay` (`BackstopCarried`). The step proof has one case per action, and one
step under it per conjunct the action can disturb. `DecideClears` is the heart: a
verdict of `Decide` clears every ref of the batch. `ImplementsMirror` uses the same
invariant: the actions of the gate map to `Accept`, `GitPush` to `Deliver`, and the
rest to stutters, so that nothing rewinds the upstream; `OnlyPushesDelete` follows from
the same analysis of `GitPush`.

`DeliveryInv` adds what a relay knows of its own work: a job starts with no ref checked
(`JobsStart`), what it counts as delivered has been at the upstream (`JobsDelivered`), and
the drift a pass hands over covers all it listed that the upstream did not have
(`PassCovers`). From it follow `OkMeansDelivered` and `CleanPassDelivered`.

### FixLoopProofs
`FixLoopAssumption`: the limit and the attempts per bot are positive, as `policy.go`
defaults see to; the default mention is a handle. Any number of pushes, edits and failures.

| Theorem | Statement |
|---|---|
| `TypeCorrect` | `Spec => []TypeOK` |
| `EveryBotTriedCorrect` | `Spec => []EveryBotTried` |
| `QuotaKeptCorrect` | `Spec => []QuotaKept` |
| `HumanStaysCorrect` | `Spec => HumanStays` |
| `CountPaidForCorrect` | `Spec => []CountPaidFor` |

First come lemmas on the operators, one each (`SeatFields`, `RotateFields`, ...,
`AdvanceFields`), which say what every branch does to each field. `LoopInv` is what a loop
remembers about its own past: under one configuration the bots up to the rotation index
were tried (or the limit is passed), the human stays because there is no next bot or
because of the limit, and the bot's count is the distance to the last rotation. The last
part makes `QuotaKept` inductive: the history alone does not say when the next rotation is
due. `FreshInv` and `AdvanceInv` prove it of `Transition`; `RailInv` extends it to the loop
in flight, which is computed from the loop on disk unless that was closed meanwhile; this
is what `HumanStays` needs. `CountPaidFor` needs the queue in the balance: `PaidInv` says
that the attempts counted plus those still queued are covered by pushes and failures, for
the loop on disk and for the one in flight once its record is removed.

### NotifRailProofs
`RailAssumption`: a push is not both rejected and clean; the retry limit is positive.

| Theorem | Statement |
|---|---|
| `TypeCorrect` | `Spec => []TypeOK` |
| `LoopEndsResolvedCorrect` | `Spec => LoopEndsResolved` |
| `OneCommentCorrect` | `~LookupsFail /\ Spec => []OneComment` |
| `DurableCorrect` | `~Overlap /\ Spec => []Durable` |

`LoopEndsResolved` and `OneComment` do not need to know what the files hold. `HookInv`: a hook
that is about to close the loop has queued its resolution. `CountInv`: attempt counts are
naturals, so that `SaveLoop` never writes the value that stands for "no loop". `CommentInv`: who
is about to create the comment has found none, and the only one who delivers is the daemon.

The other two are about sequences that a rewrite filters. `Keeping` is a recursive function;
what it returns is found by induction over the prefixes of the file, and induction is had from
the well-founded order of the numbers (`Induction`, `KeepingIs`). The type invariant needs more
than the types: `TypeInv` adds what a hook, the daemon and Retry now hold in memory at each
step. For `Durable`, `DurInv` says that at most one process is between its read and its rewrite
(`OneWriter`), and that what each has read is what the files hold, less what it has settled
(`HookCopy`, `DaemonCopy`, `RetryCopy`). `~Overlap` is the environment of `rail_durable`; with
overlap the property is false, which `rail_lost` shows.

### RepositoryProofs

| Theorem | Statement |
|---|---|
| `PolicyTypeCorrect` | `GatePolicySpec => []GatePolicyTypeOK` |
| `PreservesTheRest` | `GatePolicySpec => []RestPreserved` |
| `OpensForThreeReasons` | `GatePolicySpec => []UncheckedExplained` |
| `ServedIsGatedCorrect` | `RepoFilesSpec => []ServedIsGated` |
| `SomeWayOutCorrect` | `RepoFilesSpec => []SomeWayOut` |
| `FramesTypeCorrect` | `FramesSpec => []FramesTypeOK` |
| `SectionsSurviveCorrect` | `FramesSpec => SectionsSurvive` |
| `RepoTypeCorrect` | `RepoFilesSpec => []RepoFilesTypeOK` |
| `StickyTypeCorrect` | `StickySpec => []StickyTypeOK` |
| `RightRepositoryCorrect` | `StickySpec => []RightRepository` |
| `TakenMeansToldCorrect` | `StickySpec => []TakenMeansTold` |
| `WordsKeptCorrect` | `StickySpec => WordsKept` |

Any number of requests, and at the forge any repositories, upstreams, relations of prefixes and
pull requests at first, where no upstream is a proper prefix of itself and the pages are not empty.

The policy file: without overlap a saver that has read holds the file as it is and knows that it
is what completed requests asked for; a hook's verdict is bound to what it read, and the relay's
second reading can only stop a push.

The directories: a request is a list of operations, and the invariant has to say what is left of
it. `RepoInv`: while no two requests overlapped at most one is under way, and its list is one of
the suffixes of the lists the code performs, each with what then exists of the directories, the
links and the hook; between requests the repository is in one of a few shapes, each of which
admits a request. The step proof goes through the positions of each list, for its success, its
failure (the undo takes over) and its death. The types (`RepoTypes`) need that no list, nor what
undoes one, is longer than that of a registration.

`appframes.toml`: what a request names is of the kind its operation works on
(`FramesFileAssumption`). `FramesInv`: two requests in flight both know that they overlapped
(`Overlaps`), so a request that does not is alone; what it has read is then what the file holds,
and what it has laid in the shared temporary file is what it means to write (`Undisturbed`). That
each of the sixteen operations keeps the sections of the others is a lemma about its renderer.

`StickyInv` follows a delivery from the record to the comment. Identifiers are the difficulty:
the forge answers by identifier alone, and the operator may have pointed the repository elsewhere
since one was saved. `IdsStand` and `NoticesStand` say that, unless it may be another
upstream's (`Strayed`), the identifier in a loop's state or in a record is the gate's own
comment on that loop's pull request. `Road` is what a delivery under way knows at each step: the
adapter is the record's or of a prefix of it (`RoadUrl`), the pull request is the branch's own
(`RoadPull`), the comment is one it may write, on the pull request meant (`RoadTarget`), a
resolution without a comment had none to find (`RoadMiss`), and what is about to count as
delivered was shown (`RoadTold`), each unless excused. Comments, records and pull requests are
added and rewritten by others at any time; `Grows` is what no step takes back, and every part of
the invariant persists along it. That the newest of a set of comments exists is proved by
induction (`NewestIs`), and that GitHub's page holds the comment, by counting (`MarkIsFound`).

### AccessProofs
At least one key and one repository; finitely many browsers; the lifetime, the window and the
limit are positive; a host is a value for each fact, and the report is asked for by root or the
gateway's account, which does not change. Finitely many files; frames and linters are distinct;
categories are given for each check.

| Theorem | Statement |
|---|---|
| `AdmittedOnlyCorrect` | `SessionsSpec => []AdmittedOnly` |
| `GuessesBoundedCorrect` | `SessionsSpec => []GuessesBounded` |
| `OneAdminCorrect` | `AccountsSpec => []OneAdmin` |
| `WayInCorrect` | `AccountsSpec => []WayIn` |
| `OnlyTheGrantedCorrect` | `KeyAccessSpec => []OnlyTheGranted` |
| `RemovedStaysOutCorrect` | `KeyAccessSpec => RemovedStaysOut` |
| `DoctorTypeCorrect` | `DoctorSpec => []DoctorTypeOK` |
| `CleanMeansServedCorrect` | `DoctorSpec => []CleanMeansServed` |
| `FixGrantsCorrect` | `DoctorSpec => []FixGrants` |
| `ScanTypeCorrect` | `PushScanSpec => []PushScanTypeOK` |
| `NothingSlipsCorrect` | `PushScanSpec => []NothingSlips` |
| `CleanAcceptedCorrect` | `PushScanSpec => []CleanAccepted` |
| `SweptInTimeCorrect` | `ScanStagingSpec => []SweptInTime` |
| `SessionsTypeCorrect`, `KeyTypeCorrect`, `StagingTypeCorrect` | `SessionsSpec => []SessionsTypeOK`, and so on |

`KeyInv` is the type invariant, what each request can be at each step (`Courses`), and, as
long as nothing mixed, `InStep`: a request under way is alone, grants on disk agree with
those wanted, and what a request has read agrees with what is on disk.

`DoctorInv`: a promise is a conjunction of facts that lines of the report read one after the
other. While the report is put together, a promise that holds is written down (`Noted`). Of its
facts those already read hold until the host changes; after one change either they still hold
or, if the others do, all held before it (`Foresight`). When the last line is read the promise
was so at some moment. The proof found that the promise "gated" rests on two facts read at
different moments and survives one change, not any number; hosts of the run all start well set
up and could not show it. `FixesFit`: the commands a report offers are for what is denied now, if
nothing changed since it looked; that they grant it goes through the three classes of rights.

`FrontInv` is the types, that a session which ended has no live row (`EndedDead`), and that a
login under way has a number no row or cookie has yet (`FreshLogins`), so that no new session
takes the number of one that is over. `LimitInv`: what was guessed in the window, together with
the logins that looked at the limit and have not answered, stays under the bound; each failure
replaces a login under way by a remembered failure, and cardinalities of finite sets do the rest.

`AccountsInv`: a dashboard that is down has no request (`ServerUp`); unless two requests came
together, there is at most one of: a token that still matches what somebody compared, a
request about to create, a user (`Single`).

`ScanInv`: what the scan has copied was in force at some time of the scan (`Copied`), and
its verdict is `Decide` of those copies (`Verdict`). The settings and the whitelist may have
been copied at different times; this is why the properties quantify over them separately.

`StagingInv` connects the clock with the sweeper: where a tree stands follows from the
configuration its process read (`TreesStand`), where the sweeper looks from the one it started
with, and its next sweep is never further than an interval (`SweeperStands`); what is still left
behind was too young for the last sweep, or that sweep failed (`LeftYoung`).

### LogProofs
A record is not the mark of a fragment; every push is to a repository of the list, and its
findings are a finite list; the limits of an answer and the interval of the refresh are positive,
the default limit at most the cap (10 and 50 in `agentapi`); none of the user's lines is a line of
the installers' blocks.

| Theorem | Statement |
|---|---|
| `LogTypeCorrect` | `LogRetentionSpec => []LogRetentionTypeOK` |
| `EvidenceKeptCorrect` | `LogRetentionSpec => []EvidenceKept` |
| `IndexCompleteCorrect` | `LogRetentionSpec => []IndexComplete` |
| `QueueTypeCorrect` | `QueueFileSpec => []QueueFileTypeOK` |
| `QueueKeepsCorrect` | `QueueFileSpec => []QueueKeeps` |
| `StatTypeCorrect` | `StatSpec => []GateStatsTypeOK` |
| `NotStaleCorrect` | `StatSpec => []NotStale` |
| `AnswersAgreeCorrect` | `StatSpec => []AnswersAgree` |
| `InstallTypeCorrect` | `UserInstallSpec => []UserInstallTypeOK` |
| `UserLinesKeptCorrect` | `UserInstallSpec => []UserLinesKept` |

The three files are read as sequences from which lines are left out. What `FlattenSeq` returns is
found once, by induction over the prefixes (`FlattenHolds`), and then what each reader makes of a
file: `KeptOf`, `Parsed`, `Leaving`, `Unindexed`.

A log: `Faithful` says which entries a line can have; `HasEvidence` that what must not be lost is in
the log and, from its read to its rename, in the hand of the rewrite (`EvidenceInHand`), where an
entry written meanwhile is `raced`. Each replacement gives the file a new number (`Epochs`).
`Covered` ties an offset to the number of the file it was taken from: up to it, all is in the rows.
An ingest carries such a claim from its look at the size to its commit (`IngestSound`), and it is
void once the number has passed, unless the ingest did not notice (`blind`).

The queue: at most one rewriter is between the opening of the temporary file and its rename, and
that file is what it has put there (`OneAtTemp`), until two overlap (`tangled`); what each rewriter
holds has every record but the one it is about (`HeldSafe`), and the file has every record that is
not buried, settled, overtaken or joined to a fragment (`FileSafe`).

The index: logs run in time (`LogTimes`); a request that refreshes has the decisions older than its
question of all logs before the one it is at, and one that reads, all (`ReaderSound`); a refresh that
is done makes the index complete up to the moment it began (`RefreshSound`), since the time of the
last refresh is never later than the question of who does it. It is what lets the next question
rely on a refresh of somebody else.

The reports: each statement of an answer sees at least the rows the one before it saw
(`SawInOrder`), so what is left is arithmetic over any two prefixes of the index. A sum over the
groups of a breakdown is the number of rows grouped (`GroupsAddUp`, by induction over the number
of groups: the library's fold is first unfolded, `SumUnfolds`), and from it follow the totals
(`TotalsHold`), the findings that recur (`FindingsHold`) and the scores (`ScoresHold`). A list of
the newest rows that is not full is complete (`ListComplete`): the newest row it leaves out would
have fewer than the limit before it.

The rc file: `RcInv` says of the file, and of every copy an installer will write back, that each
line of the user's is in it unless it came since, stood inside a block or the file was torn
(`CopyStands`); and of a block about to be removed, that it is in the copy whole (`BlockStands`),
which is why a removal takes nothing else with it.

### CheckoutProofs

| Theorem | Statement |
|---|---|
| `TaskLedgerTypeCorrect` | `TaskLedgerSpec => []TaskLedgerTypeOK` |
| `PushConsentedCorrect` | `TaskLedgerSpec => PushConsented` |
| `FixVerifiedCorrect` | `TaskLedgerSpec => FixVerified` |
| `SliceBlamesCorrect` | `TaskLedgerSpec => []SliceBlames` |
| `AuditTypeCorrect` | `AuditPartsSpec => []AuditPartsTypeOK` |
| `EntriesKeptCorrect` | `AuditPartsSpec => []EntriesKept` |
| `EntriesOnceCorrect` | `AuditPartsSpec => []EntriesOnce` |
| `FramesKeptCorrect` | `FrameLifeSpec => []FramesKept` |
| `ArchivedStaysOutCorrect` | `FrameLifeSpec => []ArchivedStaysOut` |
| `FrameLifeTypeCorrect` | `FrameLifeSpec => []FrameLifeTypeOK` |

`LedgerInv` has two halves. `Given` holds whatever overlaps: every deferral in the ledger,
in its temporary name or in the memory of a command was given once. `Separate` holds until
two commands overlap: the ledger agrees with the last check and the standing deferrals, and
the only command between its load and its rename holds what follows from the ledger.

`AuditInv`: the lock makes one compaction at a time (`OneCompaction`); two files of an
invocation have no entry in common (`FilesSound`), and what was compacted is in no part but
one about to be removed (`NotTwice`); what a compactor read is what its file holds, unless the
writer overtook it (`FaithfulCopy`); only what was written is in a log (`LogWritten`), and none
of it is missing (`NothingLost`). A rotation moves files and an append adds to one: `PartsShift`
and `LogsShift` say what a rotation leaves, whole or stopped at a rename, `LogGrows` and
`LogTaken` what an append adds. The steps of writers and compactors cite them.

`FrameInv` says of each command under way what it knows of the file it writes and of the one it
moves from (`Opened`, `Moving`, `ArchivingFrame`), unless another command or the user touched that
frame, which its `alone` field records (`Aware`); where the frames of `had` are (`HadKept`); and
why a frame that is out of use has no file that `check` would take (`OutOfUse`). `check` takes the
first place in the order of the directories; that a nonempty set of places has a first one is
proved by induction (`FirstIs`).

### HostProofs
The theorems above are about the components' own specifications, the run `host_files` about
`HostSpec`, where one of seventeen components is in focus. This module closes the gap.
`HostAssumption` is what the sets of `MCHostFiles` take for granted of the constants: a file, two
repositories, an upstream, and facts of a host, by name.

| Theorem | Statement |
|---|---|
| `HostRunsComponents` | `HostSpec => GatePolicySpec /\ ... /\ StickySpec` |
| `HostTypeCorrect` | `HostSpec => []HostTypeOK` |
| `HostKeepsCorrect` | `HostSpec => []RestPreserved /\ ... /\ []TakenMeansTold`: every other invariant of the run |
| `HostStepsCorrect` | `HostSpec => SectionsSurvive /\ PushConsented /\ RemovedStaysOut /\ WordsKept` |

A component out of focus does nothing (`OutOfFocus`), and the disjuncts of `HostNext` for the one in
focus are actions of it: one lemma for each (`GatePolicyMoves`, ..., `StickyMoves`). For two
components they are so only in reachable states, as `HostNext` takes an argument from the state:
whether the dashboard restarts with edits, and the upstream of a repository. There the component's
invariant is carried along (`SessionsPart`, `StickyPart`). Each `...Part` then says that a behaviour
of the host is one of that component, and the theorems follow from those of the components.

### Proved, and no run's property
`TypeCorrect` of GateRelay, FixLoop and NotifRail, `OnlyPushesDelete`, `QuotaKept`, `HumanStays`, `UncheckedExplained`, `CleanAccepted`, `WayIn`, `FixVerified` and
`SliceBlames`: each was model-checked before it was proved; the runs are kept for what more
than a proof says about the code.

### Only model-checked
* The liveness properties `PushEnds`, `Converges` and `Drains`: fairness and `ENABLED` are out
  of the prover's reach.
* The violations, which are behaviours and not theorems.

## 5. Not modelled

Left out of what is modelled:

* Push path: the relay inside the hook that older installations use (no socket
  configured); a git child that outlives the crashed service; pushes to the upstream
  by others; jobs on the socket that no hook sent; a reconcile interval of 0; more than
  one repository in a pass; a lost append to `events.log`; the scan of a first push.
  git's ref transaction is taken as one step for all refs of a push.
* Rail: overlap records; the age a record must have before it is drained (time is
  abstracted: any record may be old enough). Descriptors, the temporary file and short
  writes are in `QueueFile`, which has no deliveries; lines beyond the scanner's limit are
  in neither. Several repositories and pull requests are in `StickyComment`, which has one
  branch of each repository, no crash, and neither attempts nor mentions.
* Fix-loop: the cooldown and the pause flag, which nothing applies; the deadletter; a
  delivery that finds no pull request (it settles the record and leaves the loop alone).
* Push scan: the checks themselves (a tree is given with its findings); the whitelist's
  temporary file is written in one step, and its entries' expiry does not pass during a scan.
* Staged trees: their size, and the free space of their directory.
* Frames document: severities, checks and estimates are sets without values; nothing is
  claimed of requests that overlap, but the type of what they leave. The migration of the
  configuration file, of the kits' first format, and `init --force` are not modelled.
* Engine's audit log: sizes are counted in entries, a writer's rotation is one step, all processes
  have the same limits; rotation off (`maxBytes` or `maxFiles` 0), ten rotated files and more, whose
  names sort differently, the order of entries, `audit reset` and `watch`.
* Ledger: linters' findings, the history of slices, the lines a finding is at.
* Project frames: `frame test`, and what the files say.
* Key access: the parsing of keys and the upstream token. Sessions: the API's limit of
  requests per minute, the mode without logins. Maintenance: git's garbage collection.
* Installation: a binary cut short, blank lines, the dry run.
* Statistics: the rate guard, the three top findings of a receipt, hours per hit, and pruned
  logs (`LogRetention` has offsets and the rebuild).
* Doctor: the network checks, the wording, several repositories.
* Sticky comments: a loop state that a clean push removed during the delivery is written again
  without its identifier, where the code writes back the one it had read; the next delivery then
  finds the comment by its marker instead.

Overlap detection is not modelled at all (advisory, with a time budget); neither is the
rendering of payloads and comments, of which `StickyComment` keeps which record a comment shows
and its marker. Most of the other lines of the repository are patterns of single checks, views
of the dashboard, reports and one-shot commands: pure functions that have no order to go wrong
in. `PROJECT.json` gives the reason for each component.

## 6. Disagreements between code and documentation

Each of these five is a run that violates one property; `PROJECT.json` quotes the
lines.

1. `relay_recovered`: a pass that began before a push can clear the alarm of that push.
2. `rail_lost`: a record appended while another process rewrites the queue is lost.
3. `rail_reopened`: a clean push does not close the loop of a reject still in the queue;
   the late delivery opens a loop that nothing closes until the next clean push.
4. `fixloop_redelivered`: a delivery that fails after the loop was saved is repeated with
   the same findings; the attempt is counted twice and the bot is replaced for "the same
   finding", although there was one push.
5. `policy_unchecked`: a push gated while `gateway.toml` is truncated for rewriting reads a
   valid policy with the gate off and is relayed unchecked.

Others met while modelling, without a run of their own. Where a module is named, the model
reaches them, as the exception its properties make.

Push path, rail and fix-loop:

* The guard of `Relay` and its push are not atomic, so a revision that passed the gate
  but is no longer current can be delivered (`relay.go:65`); `NoBypass` holds all the same.
* A failed lookup of the sticky comment counts as "no comment yet" and creates a second
  one (`orchestrator.go:126`, `gitea.go:176`); `rail_durable` therefore has lookups answer.
* With `max-attempts = 1` the first reject does not exhaust the loop
  (`transitions.go:48`), although `transitions_test.go` says "attempt_count==max should
  mark exhausted"; `AtLimit` excludes the first attempt for that reason.
* After the human was called, and with a single bot, a rotation changes nothing but is
  recorded as one, and the comment shows "rotated to a new bot" (`orchestrator.go:203`).
* No caller applies `ComputeCooldown`, although `transitions.go:150` says "the daemon
  skips delivery" during the cooldown.
* A reject whose queue write failed is shown as settled (`auditread.go:38`).
* Retry now brings back a deadlettered reject that a resolution made moot
  (`queue.go:183`, `queue.go:254`).
* All rewriters of a queue share one temporary name; a fragment without its newline swallows
  the next record, against the atomicity per line that the comment of `AppendQueueRecord`
  claims (`QueueFile`).

Repositories and policy (`RepoFiles`, `GatePolicy`, `FramesFile`):

* Restoring what a registration that died left activates a bare repository without hooks
  (`admin.go:341`), and so does restoring what a removal left that failed after another
  failure; neither `Skeleton.Verify` ("Empty list = fully-wired") nor the doctor
  looks at hooks.
* `DeleteRepo` goes on after a link could not be removed (`admin.go:303`) and leaves a
  dangling link that no operation accepts.
* A failed `git init` leaves its directory (`admin.go:80`); the rollback of a registration
  that lost a race removes the winner's directories.
* Archiving A, registering B for the same upstream and restoring A gives two repositories of
  one upstream (`gatewayrepolifecycle.go:110`).
* A whole-file save drops severities, linters and estimates (`gatewaytuning.go:484`), a save
  of the frame policy drops `[ui]`. The groups handler writes names of groups
  (`gatewayrepolifecycle.go:312`) where the engine expects frames, and an empty list means
  that all frames run (`engine.go:175`).
* Two of the three families of writers of `appframes.toml` share one temporary name
  (`gatewaytuning.go:1727`); a half-written file can be renamed live.

Keys and accounts (`KeyAccess`, `Accounts`):

* A torn `access.json` locks the repository out, and every grant and revocation fails from
  then on. Migrating again grants write to all keys again. A removed key keeps its grants,
  and gets them back when it is added again. A migration writes back a key removed meanwhile.
* Two setups that both compared the token create two administrators; a token that was
  removed before the user could not be created is gone until the dashboard restarts.

Logs (`AuditParts`, `LogRetention`):

* A lock file left by a dead compactor stops compaction for good. A compactor that appended a
  part and did not remove it, because it died, the write broke off or the removal failed,
  doubles entries: the next compaction appends them again.
* `audit.log` is rotated too, and the oldest file past `maxFiles` is dropped with its entries
  (`compact.go:192`), whatever their age: what was compacted is not kept for ever. Half a line
  at the end of a part or of `audit.log` makes the next line unreadable.
* A writer that was idle beyond the window has its part removed under it. Parts are chosen by
  the time of each file: the rotated file of a writer that is alive is compacted, and removed by
  its name, though the writer may have renamed its part to that name since it was read.
* Retention and garbage collection skip repositories of the linked layout, since `IsDir` is
  asked of the link (`deadletter.go:42`, `auditprune.go:41`, `loop.go:312`).
* An audit log that was replaced and grew past the old offset again is not noticed
  (`ingest.go:49`).

Scan of a push (`PushScan`):

* Switching off or deleting an own linter that a whitelist entry names makes the whitelist
  unloadable: every push is rejected, and the whitelist tab shows no row to remove.
* An entry with an unknown category or a malformed wildcard is accepted by the form and
  refused by the gate. A whitelist saved during the copy of its directory fails the copy.
* A linter that meets a line above 1 MiB is skipped, and its findings do not count
  (`regexscan.go`); `exclude-paths` does not apply to linters.

Ledger (`TaskLedger`):

* A deferral whose date has passed lets pushes through until the next `nimblegate check`.
* The gate of a push scans the working tree, not the commits pushed, and without the linters
  that `check` runs.
* The comment of `Load` says that parse errors "also return an empty ledger" so that a
  corrupt file never breaks `check`; it returns an error, `check` no longer reconciles, and
  `fix` reports every target as resolved (`fix.go:163`).
* A finding that was resolved and comes back keeps its first date, so `slice done` does not
  name it. Two findings of one frame, file and label share a record, and a deferral of one
  covers the other. A command that overlapped another can revive a deferral that had ended.

Installation and project frames (`UserInstall`, `FrameLife`):

* `setup` takes any file among the shims for an installation (`setup.go:182`), and rewriting the
  rc file in place (`installer.go:168`) loses it to a death, or to who reads it empty.
* "Slugs are unique by construction" (`incident.go:221`) is not so: two incidents of one day and
  title share a file. The frontmatter of a promoted frame is called "fully formed"
  (`commands/incident.go:506`), but lacks the subcategory that `parser.go:108` requires.
* `--move` overwrites a namesake of another category; archiving a project's version lets the
  library's fire again; `promote` does not look at the incident's status.

Staged trees (`ScanStaging`):

* Hooks and the dashboard's sweeper use different directories once the configuration was edited,
  although `scantmp.go:183` speaks of "exactly one directory to clean"; `$TMPDIR` is never swept,
  nor is anything when the dashboard restarts more often than its interval.
* A scan without deadline can lose its tree under it. Errors of the audit and event tasks do not
  reach `/health`.

Sessions (`Sessions`):

* A login whose query failed counts as a wrong password. A refused request with an old cookie
  clears a newer one. A logout whose `DELETE` failed says it worked.
* `LookupSession` says expired rows are "not garbage-collected here" (`store.go:191`) and deletes
  one (`store.go:208`).

Statistics (`GateStats`):

* The dashboard offers 100, 250 and 500 decisions (`gatewayreports.go:49`), the query stops at 50.
  `TopRules` filters by severity after its limit. "Seen" counts findings, not pushes.
* "both report identical numbers" (`roi.go`) is not so while the index grows between the two. The
  time of the last refresh is set before it is done: answers of the next five seconds rely on it.

Doctor and health (`Doctor`):

* The doctor looks neither at the pre-receive hook nor at `enabled`; an `appframes.toml` that does
  not parse reads OK; a whitelist that names a project's frame fails there and loads at the gate;
  it tries one nested branch, and the account it runs as is not the one that carries pushes.
* `relayAccessFix` "names the command that grants the missing access"
  (`doctorrelayaccess.go:218`); `g+ws` does not, where the group may not enter the directory.

Adapters and comments (`StickyComment`):

* The adapter is the first whose URL is a prefix of the record's, in the order of a map
  (`registry.go:51`): with `owner/app` and `owner/app-web` a notification can go to the wrong
  repository.
* The Gitea adapter compares the branch's name, not its owner, and reads one page; the GitHub scan
  reads the 100 oldest comments, where its comment says the most recent. A comment found by the
  scan is not recorded. A person's comment that quotes the marker is overwritten.
* Errors are classified as permanent or transient, and the daemon does not look at the class.


## 7. What is left

All modules planned are written. Worth doing next:

1. An abstract queue that `QueueFile` implements without overlap, and NotifRail over it.
2. Overlap records, and several refs of one push.
