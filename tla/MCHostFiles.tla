---------------------------- MODULE MCHostFiles ----------------------------
(***************************************************************************)
(* The gateway's files, for TLC.  The components have no variable in       *)
(* common: each behaviour is one component's, chosen by focus, while the   *)
(* others stay in their first state.                                       *)
(***************************************************************************)
EXTENDS GatePolicy, FramesFile, RepoFiles, KeyAccess, AuditParts, LogRetention, Accounts,
        PushScan, QueueFile, TaskLedger, UserInstall, FrameLife, ScanStaging, Sessions,
        GateStats, Doctor, StickyComment, TLC

\* Two kits of one frame, of the library and of the operator.
TwoKits == ("kit" :> {"f1"}) @@ ("mine" :> {"f2"})

\* A repository as `gateway add` of an earlier version left it: a kit's name in the list.
OldRegistration ==
    [Blank EXCEPT !.kind = "whole", !.frames = {"kit"}, !.checks = {"c1"}, !.own = {"mine"}]

\* An invocation that goes on long enough to rotate its part twice.
LongRun == "i1" :> 5

AllEdits ==
    {<<"toggle", {"f1"}>>, <<"toggle", {"f2"}>>, <<"apply", {"kit"}>>, <<"clear", {"kit"}>>,
     <<"create", {"mine"}>>, <<"drop", {"mine"}>>, <<"clearOwn", {"mine"}>>,
     <<"category", {"f1"}>>, <<"severity", {"f1"}>>, <<"addCheck", {"c1"}>>,
     <<"deleteCheck", {"c1"}>>, <<"hours", {}>>, <<"groups", {"@g"}>>, <<"scan", {"kit"}>>}

\* Two built-in checks and two linters, one of which would run the pushed code.
ScanNames == ("key" :> "secrets") @@ ("stray" :> "style") @@ ("todo" :> "own") @@ ("vet" :> "own")

\* Every tree brings settings of its own.
Hit(h) == [hits |-> h, whole |-> {}, own |-> TRUE, long |-> FALSE]

PushedTrees ==
    {Hit({<<"key", "p">>, <<"key", "q">>, <<"vet", "p">>}),
     Hit({<<"todo", "p">>, <<"stray", "q">>}),
     [Hit({<<"todo", "p">>}) EXCEPT !.long = TRUE],
     [Hit({<<"todo", "p">>}) EXCEPT !.whole = {"key"}]}

SomeSelections == {{}, {<<"category", "style">>}}

ExemptAt(spec, files) == [spec |-> spec, files |-> files, stale |-> FALSE]

\* An entry for everything that has expired.
Expired == [ExemptAt(<<"any", "any">>, {"p", "q"}) EXCEPT !.stale = TRUE]

SomeExemptions ==
    {Expired, ExemptAt(<<"check", "key">>, {"p"}), ExemptAt(<<"category", "none">>, {"p"}),
     ExemptAt(<<"check", "todo">>, {"p"})}

LintersOn ==
    {[frames |-> {}, linters |-> {"todo", "vet"}, flipped |-> {}, excluded |-> {}]}

SomeLists == {{ExemptAt(<<"check", "todo">>, {"p"})}, {ExemptAt(<<"check", "key">>, {"p"}), Expired}}

\* A check of the library that blocks, one that warns, and a linter.
Flippable == ScanChecks \ {"vet"}

\* The second of two forms alike is posted while the first is.
InTurn(f) == f = "w2" => form["w1"].at # "idle"

\* One wrapped command, and a user who says yes to every step of `setup`.
OneShim == <<"git">>
SetupSteps == {"shims", "path", "snippet"}
ShellOps == {"install", "uninstall", "installStrict", "uninstallStrict"}

\* Two categories, one walked before the archive and one after it; the library has a frame of
\* the second.
FrameDirs == <<"frames", "git", "history", "web">>
LibraryFrames == {<<"web", "x">>}

\* [gateway] is given a directory and no deadline, or spoiled.
NewConfs == {[kind |-> "ok", dir |-> "chosen", deadline |-> FALSE],
             [kind |-> "broken", dir |-> "", deadline |-> TRUE]}

\* Requests wait for the logins to end, and logins for no request: each is checked with others
\* of its kind.  A browser without a session is a client of the API.
LoginsOver == guessed = {} /\ hitsAt = {} /\ logins < MaxLogins /\ \A b \in Browsers : attempt[b] = 0

\* Findings: one counted twice in a push, one that does not block, one let through by observe.
Caught(frame, severity, at) == [frame |-> frame, severity |-> severity, at |-> at]
DecidedPushes ==
    {[repo |-> "a", observe |-> FALSE, tip |-> "t", found |-> <<Caught(1, "BLOCK", 1), Caught(1, "BLOCK", 1)>>],
     [repo |-> "a", observe |-> FALSE, tip |-> "t", found |-> <<Caught(1, "WARN", 1)>>],
     [repo |-> "b", observe |-> TRUE, tip |-> "t", found |-> <<Caught(1, "BLOCK", 2), Caught(2, "WARN", 1)>>]}
Logs == <<"a", "b">>
Ignored == {<<1, 2>>}

\* While an answer is being put together only the index may change: nothing else matters to it.
\* Once it is given, it is closed.  Two answers, with nobody left to ingest, follow one another.
Reading == \E r \in Readers : reader[r].st = "read"
AnswerOut == \E r \in Readers : Answered(r)
Alternates(r) == \A x \in Readers \ {r} : reader[x].saw = <<>>

\* What-changed and the benchmark are asked alone, the others by two at once.
AskedAlone == {"whatChanged", "benchmark"}
Askable ==
    IF questions = 0 THEN {"gateStats"} \cup AskedAlone
    ELSE IF \E r \in Readers : reader[r].report \in AskedAlone THEN {} ELSE {"gateStats", "stats"}

\* A host right after `gateway add`: the hook and the backstop reach what they need to.
Rights(owner, group, user, member, other) ==
    [owner |-> owner, group |-> group, user |-> user, member |-> member, other |-> other]
SharedModes ==
    [dir |-> Rights("git", "relay", {"r", "w", "x"}, {"r", "w", "x"}, {}),
     toml |-> Rights("git", "relay", {"r", "w"}, {"r"}, {}),
     credential |-> Rights("git", "relay", {"r", "w"}, {"r"}, {})]
WellSetUp(shape, socket, upstream, runAs) ==
    [shape |-> shape, runAs |-> runAs, socket |-> socket, keys |-> "managed", active |-> TRUE,
     hook |-> TRUE, fsck |-> TRUE, parses |-> TRUE, enabled |-> TRUE, upstream |-> upstream,
     upstreamThere |-> TRUE, upstreamOwner |-> "git", safe |-> <<"exact">>,
     stored |-> upstream # "local", refs |-> {"refs/heads/*"}, gateAll |-> FALSE, frames |-> {},
     whitelist |-> "none", runsRepoCode |-> FALSE, modes |-> SharedModes,
     push |-> [st |-> "none", heads |-> TRUE, at |-> 0], status |-> [st |-> "none", at |-> 0]]
SomeHosts ==
    {WellSetUp("bare metal", "live", "local", "git"), WellSetUp("bare metal", "none", "https", "root"),
     WellSetUp("container", "none", "https", "git")}
OtherFacts ==
    [socket |-> {"gone"}, keys |-> {"elsewhere", "none"}, active |-> {FALSE}, hook |-> {FALSE},
     fsck |-> {FALSE}, parses |-> {FALSE}, enabled |-> {FALSE},
     upstream |-> {"none", "http", "ssh", "local", "https"}, upstreamThere |-> {FALSE},
     safe |-> {<<"exact", "">>, <<>>}, upstreamOwner |-> {"other"}, stored |-> BOOLEAN,
     refs |-> {{}, {"refs/heads/main"}, {"refs/heads/agent/*"}}, gateAll |-> {TRUE},
     frames |-> {{"unparsed"}, {"kit"}, {"kit", "builtin"}, {"builtin"}},
     whitelist |-> {"builtin", "linter", "unknown", "project"}, runsRepoCode |-> {TRUE},
     modes |-> {[SharedModes EXCEPT !.toml = Rights("root", "relay", {"r", "w"}, {"r"}, {})],
                [SharedModes EXCEPT !.toml.member = {}],
                [SharedModes EXCEPT !.credential.group = "git"],
                [SharedModes EXCEPT !.dir.member = {"r", "x"}],
                [SharedModes EXCEPT !.dir.member = {}],
                [SharedModes EXCEPT !.credential.owner = "relay", !.credential.user = {}]},
     push |-> {[st |-> "failed", heads |-> TRUE, at |-> 1], [st |-> "ok", heads |-> TRUE, at |-> 2],
               [st |-> "failed", heads |-> FALSE, at |-> 2]},
     status |-> {[st |-> "ok", at |-> 1], [st |-> "ok", at |-> 2], [st |-> "failed", at |-> 2],
                 [st |-> "drifted", at |-> 2]}]

\* One change of any fact, then one of those that several lines rest on; none once it is out.
Editable ==
    IF report.pc = "done" THEN {}
    ELSE IF hostEdits = 0 THEN DOMAIN OtherFacts ELSE {"safe", "push", "status", "stored"}

\* Two repositories of one owner at Gitea, one named like the beginning of the other, and a third
\* at GitHub, where the operator may point the first.
TwoUpstreams == [r \in {"app", "web"} |-> IF r = "app" THEN "a" ELSE "aw"]
OnePullEach == [u \in {"a", "aw", "hub"} |-> <<[from |-> "own", open |-> TRUE]>>]
AnOwnersNames == {<<"a", "aw">>}

\* Two events of the forge, the operator and the network; pushes wait for the daemon.
Calm == forgeEvents + forgeFaults < 2
Used == {upstreamOf[r] : r \in Mirrored}
Resting == courier.pc = "idle" /\ courier.todo = {}
Unsent == courier.pc = "idle" /\ pending # {}

\* Two processes of the same program.
SameCommands == Permutations(Commands)

\* What the sets above take for granted of the constants they are given with.
ASSUME HostAssumption ==
    /\ "p" \in TreeFiles
    /\ DOMAIN OtherFacts \subseteq DOMAIN Alternatives
    /\ {"app", "web"} \subseteq Mirrored /\ "hub" \in Urls

VARIABLE focus

hostVars == <<focus, gatePolicyVars, framesVars, repoVars, keyVars, auditVars, logVars,
              accountVars, scanVars, queueFileVars, ledgerVars, installVars, frameLifeVars,
              stagingVars, sessionVars, statVars, doctorVars, stickyVars>>

Plain == {k \in SshKeys : lines[k] = "plain"}

HostInit ==
    /\ focus \in {"policy", "frames", "repo", "keys", "parts", "log", "accounts", "scan",
                 "queue", "ledger", "install", "framelife", "staging", "sessions", "stats", "doctor", "sticky"}
    /\ GatePolicyInit
    /\ FramesInit
    /\ RepoFilesInit /\ (focus # "repo" => disk = {})
    /\ KeyAccessInit /\ (focus # "keys" => Plain = {})
    /\ AuditPartsInit
    /\ LogRetentionInit /\ (layout = "link" => which = "deadletter")
    /\ (focus # "log" => which = "audit")
    /\ AccountsInit
    /\ PushScanInit /\ (focus # "scan" => Expired \in exempt)
    /\ QueueFileInit
    /\ TaskLedgerInit /\ (focus # "ledger" => tree = {} /\ lastFound = {})
    /\ UserInstallInit /\ ~foreign /\ (focus # "install" => rc = <<>>)
    /\ FrameLifeInit /\ (focus # "framelife" => had = {})
    /\ ScanStagingInit /\ (usable = StagingPlaces => conf.dir = "") /\ (focus # "staging" => conf.dir # "")
    /\ SessionsInit /\ (focus # "sessions" => front.edits)
    /\ StatInit
    /\ DoctorInit /\ (focus # "doctor" => host.shape = "container")
    /\ StickyInit

\* The components out of focus keep their first state.
OthersStay ==
    /\ UNCHANGED focus
    /\ IF focus = "policy" THEN TRUE ELSE UNCHANGED gatePolicyVars
    /\ IF focus = "frames" THEN TRUE ELSE UNCHANGED framesVars
    /\ IF focus = "repo" THEN TRUE ELSE UNCHANGED repoVars
    /\ IF focus = "keys" THEN TRUE ELSE UNCHANGED keyVars
    /\ IF focus = "parts" THEN TRUE ELSE UNCHANGED auditVars
    /\ IF focus = "log" THEN TRUE ELSE UNCHANGED logVars
    /\ IF focus = "accounts" THEN TRUE ELSE UNCHANGED accountVars
    /\ IF focus = "scan" THEN TRUE ELSE UNCHANGED scanVars
    /\ IF focus = "queue" THEN TRUE ELSE UNCHANGED queueFileVars
    /\ IF focus = "ledger" THEN TRUE ELSE UNCHANGED ledgerVars
    /\ IF focus = "install" THEN TRUE ELSE UNCHANGED installVars
    /\ IF focus = "framelife" THEN TRUE ELSE UNCHANGED frameLifeVars
    /\ IF focus = "staging" THEN TRUE ELSE UNCHANGED stagingVars
    /\ IF focus = "sessions" THEN TRUE ELSE UNCHANGED sessionVars
    /\ IF focus = "stats" THEN TRUE ELSE UNCHANGED statVars
    /\ IF focus = "doctor" THEN TRUE ELSE UNCHANGED doctorVars
    /\ IF focus = "sticky" THEN TRUE ELSE UNCHANGED stickyVars

\* The ledger: a third command is a push, or comes to a file that was cut short.
Recovering == commands < 2 \/ ledger.kind = "torn"

HostNext ==
    \/ /\ focus = "policy"
       /\ (\E s \in Savers, f \in Forms, v \in BOOLEAN : LoadPolicy(s, f, v))
       /\ OthersStay
    \/ focus = "policy" /\ (\E s \in Savers : Truncate(s)) /\ OthersStay
    \/ focus = "policy" /\ (\E s \in Savers : WritePolicy(s)) /\ OthersStay
    \/ focus = "policy" /\ (\E s \in Savers : RenamePolicy(s)) /\ OthersStay
    \/ focus = "policy" /\ (\E s \in Savers : SaverStops(s)) /\ OthersStay
    \/ /\ focus = "policy"
       /\ (\E p \in GatePushes, dirty \in BOOLEAN : GatePush(p, dirty))
       /\ OthersStay
    \/ focus = "policy" /\ (\E p \in GatePushes : RelayPush(p)) /\ OthersStay
    \/ focus = "frames" /\ Serve /\ OthersStay
    \/ focus = "frames" /\ (\E r \in Editors, e \in Edits : StartEdit(r, e)) /\ OthersStay
    \/ focus = "frames" /\ (\E r \in Editors : StartRepair(r)) /\ OthersStay
    \/ focus = "frames" /\ (\E r \in Editors : ReadDocument(r)) /\ OthersStay
    \/ focus = "frames" /\ (\E r \in Editors : RereadDocument(r)) /\ OthersStay
    \/ focus = "frames" /\ (\E r \in Editors : SavePolicy(r)) /\ OthersStay
    \/ focus = "frames" /\ (\E r \in Editors : OpenShared(r)) /\ OthersStay
    \/ focus = "frames" /\ (\E r \in Editors : FillShared(r)) /\ OthersStay
    \/ focus = "frames" /\ (\E r \in Editors : RenameShared(r)) /\ OthersStay
    \/ focus = "frames" /\ (\E r \in Editors : StopEdit(r)) /\ OthersStay
    \/ /\ focus = "repo"
       /\ (\E a \in Admins, op \in Requests : StartAdmin(a, op))
       /\ OthersStay
    \/ focus = "repo" /\ (\E a \in Admins : AdminStep(a)) /\ OthersStay
    \/ focus = "repo" /\ (\E a \in Admins : AdminStepFails(a)) /\ OthersStay
    \/ focus = "repo" /\ (\E a \in Admins : AdminStops(a)) /\ OthersStay
    \/ /\ focus = "keys"
       /\ (\E c \in Clerks, k \in SshKeys, op \in KeyOps :
                 StartClerk(c, op, k, IdleClerk.repo, "none"))
       /\ OthersStay
    \/ /\ focus = "keys"
       /\ (\E c \in Clerks, k \in SshKeys, r \in ScopedRepos, level \in {"read", "write"} :
                 StartClerk(c, "grant", k, r, level))
       /\ OthersStay
    \/ /\ focus = "keys"
       /\ (\E c \in Clerks, k \in SshKeys, r \in ScopedRepos :
                 StartClerk(c, "revoke", k, r, "none"))
       /\ OthersStay
    \/ /\ focus = "keys"
       /\ (\E c \in Clerks : StartClerk(c, "migrate", IdleClerk.key, IdleClerk.repo, "write"))
       /\ OthersStay
    \/ focus = "keys" /\ (\E c \in Clerks : LoadAccess(c)) /\ OthersStay
    \/ focus = "keys" /\ (\E c \in Clerks : NextGrant(c)) /\ OthersStay
    \/ focus = "keys" /\ (\E c \in Clerks : CutAccess(c)) /\ OthersStay
    \/ focus = "keys" /\ (\E c \in Clerks : FillAccess(c)) /\ OthersStay
    \/ focus = "keys" /\ (\E c \in Clerks : ReadLines(c)) /\ OthersStay
    \/ focus = "keys" /\ (\E c \in Clerks : AppendLine(c)) /\ OthersStay
    \/ focus = "keys" /\ (\E c \in Clerks : RenameLines(c)) /\ OthersStay
    \/ focus = "keys" /\ (\E c \in Clerks : ClerkStops(c)) /\ OthersStay
    \/ focus = "keys" /\ DashboardStops /\ OthersStay
    \/ focus = "keys" /\ (\E mode \in {"plain", "scoped"} : DashboardStarts(mode)) /\ OthersStay
    \/ /\ focus = "keys"
       /\ (\E k \in SshKeys, r \in ScopedRepos, write \in BOOLEAN : Connect(k, r, write))
       /\ OthersStay
    \/ focus = "parts" /\ (\E p \in Invocations : WriteEntry(p)) /\ OthersStay
    \/ focus = "parts" /\ (\E p \in Invocations : WriteShort(p)) /\ OthersStay
    \/ focus = "parts" /\ (\E p \in Invocations : WriteLost(p)) /\ OthersStay
    \/ focus = "parts" /\ (\E p \in Invocations : RotationFails(p)) /\ OthersStay
    \/ focus = "parts" /\ (\E p \in Invocations : GoQuiet(p)) /\ OthersStay
    \/ focus = "parts" /\ (\E c \in Compactors : StartCompaction(c)) /\ OthersStay
    \/ focus = "parts" /\ (\E c \in Compactors : ReadPart(c)) /\ OthersStay
    \/ focus = "parts" /\ (\E c \in Compactors : SkipPart(c)) /\ OthersStay
    \/ focus = "parts" /\ (\E c \in Compactors : AppendPart(c)) /\ OthersStay
    \/ focus = "parts" /\ (\E c \in Compactors : AppendFails(c)) /\ OthersStay
    \/ focus = "parts" /\ (\E c \in Compactors : RemovePart(c)) /\ OthersStay
    \/ focus = "parts" /\ (\E c \in Compactors : RemoveFails(c)) /\ OthersStay
    \/ focus = "parts" /\ (\E c \in Compactors : EndCompaction(c)) /\ OthersStay
    \/ focus = "parts" /\ (\E c \in Compactors : CompactorDies(c)) /\ OthersStay
    \/ focus = "log" /\ (\E h \in Hooks : OpenLog(h)) /\ OthersStay
    \/ /\ focus = "log"
       /\ (\E h \in Hooks, kind \in {"accept", "reject"}, short \in BOOLEAN :
                 WriteLine(h, kind, short))
       /\ OthersStay
    \/ focus = "log" /\ Age /\ OthersStay
    \/ focus = "log" /\ ScanLog /\ OthersStay
    \/ focus = "log" /\ RenameLog /\ OthersStay
    \/ focus = "log" /\ PruneFails /\ OthersStay
    \/ focus = "log" /\ (\E i \in Ingesters : LoadOffset(i)) /\ OthersStay
    \/ focus = "log" /\ (\E i \in Ingesters : StatLog(i)) /\ OthersStay
    \/ focus = "log" /\ (\E i \in Ingesters : ReadLog(i)) /\ OthersStay
    \/ focus = "log" /\ (\E i \in Ingesters : CommitIndex(i)) /\ OthersStay
    \/ focus = "log" /\ (\E i \in Ingesters : IngestFails(i)) /\ OthersStay
    \/ focus = "log" /\ RebuildIndex /\ OthersStay
    \/ focus = "accounts" /\ ServerStarts /\ OthersStay
    \/ focus = "accounts" /\ StartFails /\ OthersStay
    \/ focus = "accounts" /\ ServerStops /\ OthersStay
    \/ /\ focus = "accounts"
       /\ (\E s \in Claimants, presents \in 1 .. issued, name \in Names \union {"none"} :
                 CountUsers(s, presents, name))
       /\ OthersStay
    \/ focus = "accounts" /\ (\E s \in Claimants : CompareToken(s)) /\ OthersStay
    \/ focus = "accounts" /\ (\E s \in Claimants : RemoveToken(s)) /\ OthersStay
    \/ focus = "accounts" /\ (\E s \in Claimants : CreateUser(s)) /\ OthersStay
    \/ focus = "scan" /\ (\E t \in Trees : PushArrives(t)) /\ OthersStay
    \/ focus = "scan" /\ StagingFails /\ OthersStay
    \/ focus = "scan" /\ CopySettings /\ OthersStay
    \/ focus = "scan" /\ ListKept /\ OthersStay
    \/ focus = "scan" /\ CopyWhitelist /\ OthersStay
    \/ focus = "scan" /\ CopyTmp /\ OthersStay
    \/ focus = "scan" /\ RunChecks /\ OthersStay
    \/ focus = "scan" /\ ScanTimesOut /\ OthersStay
    \/ focus = "scan" /\ (\E s \in Selections : SelectFrames(s)) /\ OthersStay
    \/ focus = "scan" /\ (\E l \in ScanLinters : ToggleLinter(l)) /\ OthersStay
    \/ focus = "scan" /\ (\E c \in Flippable : FlipSeverity(c)) /\ OthersStay
    \/ focus = "scan" /\ (\E p \in {{}, {"p"}} : ExcludePaths(p)) /\ OthersStay
    \/ /\ focus = "scan"
       /\ (\E f \in WhitelistForms, e \in Exemptions : InTurn(f) /\ BeginAdd(f, e))
       /\ OthersStay
    \/ /\ focus = "scan"
       /\ (\E f \in WhitelistForms, e \in Exemptions : InTurn(f) /\ BeginRemove(f, e))
       /\ OthersStay
    \/ focus = "scan" /\ ~Decided /\ (\E f \in WhitelistForms : WriteTmp(f)) /\ OthersStay
    \/ focus = "scan" /\ ~Decided /\ (\E f \in WhitelistForms : RenameTmp(f)) /\ OthersStay
    \/ focus = "queue" /\ (\E r \in QueueRecords : OpenQueue(r)) /\ OthersStay
    \/ focus = "queue" /\ (\E r \in QueueRecords : WriteRecord(r)) /\ OthersStay
    \/ focus = "queue" /\ (\E r \in QueueRecords : WriteFragment(r)) /\ OthersStay
    \/ /\ focus = "queue"
       /\ (\E w \in Rewriters, kind \in {"remove", "bury", "update"}, r \in QueueRecords :
                 StartRewrite(w, kind, r))
       /\ OthersStay
    \/ focus = "queue" /\ (\E w \in Rewriters : ReadQueue(w)) /\ OthersStay
    \/ focus = "queue" /\ (\E w \in Rewriters : BuryRecord(w)) /\ OthersStay
    \/ focus = "queue" /\ (\E w \in Rewriters : OpenTemp(w)) /\ OthersStay
    \/ focus = "queue" /\ (\E w \in Rewriters : FillTemp(w)) /\ OthersStay
    \/ focus = "queue" /\ (\E w \in Rewriters : RenameTemp(w)) /\ OthersStay
    \/ focus = "queue" /\ (\E w \in Rewriters : AbortRewrite(w)) /\ OthersStay
    \/ focus = "queue" /\ (\E w \in Rewriters : RewriterDies(w)) /\ OthersStay
    \/ focus = "ledger" /\ (\E found \in SUBSET Findings : EditTree(found)) /\ OthersStay
    \/ focus = "ledger" /\ Recovering /\ (\E scope \in Scopes : Pause(scope)) /\ OthersStay
    \/ focus = "ledger" /\ (\E scopes \in SUBSET Scopes : Resume(scopes)) /\ OthersStay
    \/ focus = "ledger" /\ Recovering /\ SliceStart /\ OthersStay
    \/ focus = "ledger" /\ SliceDone /\ OthersStay
    \/ focus = "ledger" /\ Recovering /\ (\E p \in Commands : BeginCheck(p)) /\ OthersStay
    \/ focus = "ledger" /\ (\E p \in Commands : BeginPush(p)) /\ OthersStay
    \/ /\ focus = "ledger" /\ Recovering
       /\ (\E p \in Commands, f \in Findings : BeginFix(p, f))
       /\ OthersStay
    \/ /\ focus = "ledger" /\ Recovering
       /\ (\E p \in Commands, f \in Findings, until \in DeferDates : BeginDefer(p, f, until))
       /\ OthersStay
    \/ /\ focus = "ledger" /\ Recovering
       /\ (\E p \in Commands, op \in {"undefer", "link"}, f \in Findings :
                 BeginOther(p, op, f))
       /\ OthersStay
    \/ focus = "ledger" /\ (\E p \in Commands : AgentEnds(p)) /\ OthersStay
    \/ focus = "ledger" /\ (\E p \in Commands : ScanTree(p)) /\ OthersStay
    \/ focus = "ledger" /\ (\E p \in Commands : ScanRefuses(p)) /\ OthersStay
    \/ focus = "ledger" /\ (\E p \in Commands : LoadFails(p)) /\ OthersStay
    \/ focus = "ledger" /\ (\E p \in Commands : LoadAndReconcile(p)) /\ OthersStay
    \/ focus = "ledger" /\ (\E p \in Commands : LoadAndMutate(p)) /\ OthersStay
    \/ focus = "ledger" /\ (\E p \in Commands : OpenLedgerTmp(p)) /\ OthersStay
    \/ focus = "ledger" /\ (\E p \in Commands : FillLedgerTmp(p)) /\ OthersStay
    \/ focus = "ledger" /\ (\E p \in Commands : SaveFails(p)) /\ OthersStay
    \/ focus = "ledger" /\ (\E p \in Commands : RenameLedgerTmp(p)) /\ OthersStay
    \/ focus = "ledger" /\ (\E p \in Commands : CommandDies(p)) /\ OthersStay
    \/ focus = "ledger" /\ (\E p \in Commands : GateReads(p)) /\ OthersStay
    \/ focus = "ledger" /\ (\E p \in Commands : Verify(p)) /\ OthersStay
    \/ focus = "ledger" /\ (\E p \in Commands : CommandEnds(p)) /\ OthersStay
    \/ focus = "install" /\ (\E u \in OwnLines : OwnEdit(u)) /\ OthersStay
    \/ focus = "install" /\ (\E p \in Installers : Setup(p, SetupSteps)) /\ OthersStay
    \/ focus = "install" /\ (\E p \in Installers, op \in ShellOps : Shell(p, op)) /\ OthersStay
    \/ /\ focus = "install"
       /\ (\E p \in Installers, keep \in BOOLEAN : Purge(p, keep))
       /\ OthersStay
    \/ focus = "install" /\ (\E p \in Installers : RunInstallSh(p)) /\ OthersStay
    \/ focus = "install" /\ (\E p \in Installers : WriteShim(p)) /\ OthersStay
    \/ focus = "install" /\ (\E p \in Installers : RemoveShim(p)) /\ OthersStay
    \/ focus = "install" /\ (\E p \in Installers : CopyBinary(p)) /\ OthersStay
    \/ focus = "install" /\ (\E p \in Installers : RemoveHome(p)) /\ OthersStay
    \/ focus = "install" /\ (\E p \in Installers : RunSetup(p, SetupSteps)) /\ OthersStay
    \/ focus = "install" /\ (\E p \in Installers : ReadRc(p)) /\ OthersStay
    \/ focus = "install" /\ (\E p \in Installers : RenameRc(p)) /\ OthersStay
    \/ focus = "install" /\ (\E p \in Installers : AppendSnippet(p)) /\ OthersStay
    \/ focus = "install" /\ (\E p \in Installers : AppendBinLine(p)) /\ OthersStay
    \/ focus = "install" /\ (\E p \in Installers : EmptyRc(p)) /\ OthersStay
    \/ focus = "install" /\ (\E p \in Installers : FillRc(p)) /\ OthersStay
    \/ focus = "install" /\ (\E p \in Installers : InstallerEnds(p)) /\ OthersStay
    \/ focus = "install" /\ (\E p \in Installers : InstallerStops(p)) /\ OthersStay
    \/ /\ focus = "framelife"
       /\ (\E p \in Authors, s \in Slugs : NewIncident(p, s))
       /\ OthersStay
    \/ /\ focus = "framelife"
       /\ (\E p \in Authors, s \in Slugs, id \in Ids : Promote(p, s, id))
       /\ OthersStay
    \/ /\ focus = "framelife"
       /\ (\E p \in Authors, id \in Ids, move \in BOOLEAN : Archive(p, id, move))
       /\ OthersStay
    \/ /\ focus = "framelife"
       /\ (\E p \in Authors, id \in Ids, move \in BOOLEAN : Revive(p, id, move))
       /\ OthersStay
    \/ focus = "framelife" /\ (\E p \in Authors : WriteDraft(p)) /\ OthersStay
    \/ focus = "framelife" /\ (\E p \in Authors : OpenFrame(p)) /\ OthersStay
    \/ focus = "framelife" /\ (\E p \in Authors : FillFrame(p)) /\ OthersStay
    \/ focus = "framelife" /\ (\E p \in Authors : RemoveSource(p)) /\ OthersStay
    \/ focus = "framelife" /\ (\E p \in Authors : MarkDraft(p)) /\ OthersStay
    \/ focus = "framelife" /\ (\E p \in Authors : AuthorStops(p)) /\ OthersStay
    \/ focus = "framelife" /\ (\E l \in FramePlaces : Complete(l)) /\ OthersStay
    \/ focus = "framelife" /\ NextDay /\ OthersStay
    \/ /\ focus = "staging"
       /\ (\E s \in Stagers, root \in {"root", "_repos"} : GateStages(s, root))
       /\ OthersStay
    \/ /\ focus = "staging"
       /\ (\E s \in Stagers, root \in {"root", "_repos"} : OtherStages(s, "preview", root))
       /\ OthersStay
    \/ focus = "staging" /\ (\E s \in Stagers : Unstage(s)) /\ OthersStay
    \/ focus = "staging" /\ (\E s \in Stagers : StagerDies(s)) /\ OthersStay
    \/ focus = "staging" /\ SweeperStarts /\ OthersStay
    \/ focus = "staging" /\ SweeperStops /\ OthersStay
    \/ focus = "staging" /\ Sweep /\ OthersStay
    \/ focus = "staging" /\ (\E c \in NewConfs : EditGatewayConfig(c)) /\ OthersStay
    \/ focus = "staging" /\ ChangeRights("chosen") /\ OthersStay
    \/ focus = "staging" /\ Tick /\ OthersStay
    \/ focus = "sessions" /\ requests = 0 /\ (\E b \in Browsers : BeginLogin(b)) /\ OthersStay
    \/ focus = "sessions" /\ requests = 0 /\ (\E b \in Browsers : LoginFails(b)) /\ OthersStay
    \/ focus = "sessions" /\ (\E b \in Browsers : LoginSucceeds(b)) /\ OthersStay
    \/ /\ focus = "sessions"
       /\ LoginsOver /\ (\E b \in Browsers, kind \in {"page", "edit", "reset"} : jar[b].sid # 0 /\ Send(b, kind))
       /\ OthersStay
    \/ /\ focus = "sessions"
       /\ LoginsOver /\ (\E b \in Browsers : jar[b].sid = 0 /\ Send(b, "api"))
       /\ OthersStay
    \/ focus = "sessions" /\ (\E b \in Browsers : Admit(b)) /\ OthersStay
    \/ focus = "sessions" /\ (\E b \in Browsers : Refuse(b)) /\ OthersStay
    \/ focus = "sessions" /\ (\E b \in Browsers : Handle(b)) /\ OthersStay
    \/ focus = "sessions" /\ (\E b \in Browsers : Logout(b)) /\ OthersStay
    \/ focus = "sessions" /\ requests > 0 /\ RevokeToken /\ OthersStay
    \/ focus = "sessions" /\ SweepSessions /\ OthersStay
    \/ focus = "sessions" /\ Restart(front.edits) /\ OthersStay
    \/ focus = "sessions" /\ (now = 1 => logins < 2) /\ FrontTick /\ OthersStay
    \/ /\ focus = "stats"
       /\ ~Reading /\ questions < 2 /\ (\E p \in PushKinds : LogDecision(p))
       /\ OthersStay
    \/ /\ focus = "stats"
       /\ ~Reading /\ logged # <<>> /\ (\E r \in Readers, x \in Askable : Ask(r, x))
       /\ OthersStay
    \/ focus = "stats" /\ ~AnswerOut /\ (\E r \in Readers : IngestLog(r)) /\ OthersStay
    \/ focus = "stats" /\ ~Reading /\ (\E r \in Readers : IngestBreaks(r)) /\ OthersStay
    \/ focus = "stats" /\ ~AnswerOut /\ (\E r \in Readers : Alternates(r) /\ RunStatement(r)) /\ OthersStay
    \/ focus = "stats" /\ (\E r \in Readers : CloseAnswer(r)) /\ OthersStay
    \/ focus = "stats" /\ ~Reading /\ questions = 1 /\ StatRestart /\ OthersStay
    \/ focus = "stats" /\ ~Reading /\ questions < 2 /\ StatTick /\ OthersStay
    \/ focus = "doctor" /\ BeginReport /\ OthersStay
    \/ focus = "doctor" /\ CheckBare /\ OthersStay
    \/ focus = "doctor" /\ LoadPolicyLines /\ OthersStay
    \/ focus = "doctor" /\ LoadCredentialLine /\ OthersStay
    \/ focus = "doctor" /\ LoadSelectionLine /\ OthersStay
    \/ focus = "doctor" /\ LoadWhitelistLine /\ OthersStay
    \/ focus = "doctor" /\ LoadLintersLine /\ OthersStay
    \/ focus = "doctor" /\ LoadRelayLine /\ OthersStay
    \/ /\ focus = "doctor"
       /\ (\E fact \in Editable : \E value \in Alternatives[fact] : EditHost(fact, value))
       /\ OthersStay
    \/ focus = "doctor" /\ FollowFixes /\ OthersStay
    \/ focus = "sticky" /\ Resting /\ notices = <<>> /\ NotifyReject("app") /\ OthersStay
    \/ /\ focus = "sticky"
       /\ Resting /\ Len(notices) = 1 /\ pending = {} /\ (\E r \in Mirrored : NotifyReject(r))
       /\ OthersStay
    \/ focus = "sticky" /\ Resting /\ (\E r \in Mirrored : NotifyResolved(r)) /\ OthersStay
    \/ focus = "sticky" /\ BeginPass /\ OthersStay
    \/ focus = "sticky" /\ TakeRecord /\ OthersStay
    \/ focus = "sticky" /\ NoAdapter /\ OthersStay
    \/ focus = "sticky" /\ (\E u \in Urls : FindPull(u)) /\ OthersStay
    \/ focus = "sticky" /\ LookUp({}) /\ OthersStay
    \/ focus = "sticky" /\ Calm /\ (\E call \in {"id", "scan"} : LookUp({call})) /\ OthersStay
    \/ focus = "sticky" /\ UpdateComment /\ OthersStay
    \/ focus = "sticky" /\ UpdateRefused /\ OthersStay
    \/ focus = "sticky" /\ CreateComment /\ OthersStay
    \/ focus = "sticky" /\ NothingToResolve /\ OthersStay
    \/ focus = "sticky" /\ Calm /\ RequestFails /\ OthersStay
    \/ focus = "sticky" /\ Calm /\ AnswerLost /\ OthersStay
    \/ focus = "sticky" /\ FireWebhook /\ OthersStay
    \/ /\ focus = "sticky"
       /\ Calm /\ Unsent /\ (\E from \in Origins : OpenPull(upstreamOf["app"], from))
       /\ OthersStay
    \/ /\ focus = "sticky"
       /\ Calm /\ courier.pc = "look" /\ (\E u \in Used : \E n \in OpenPulls(u) : ClosePull(u, n))
       /\ OthersStay
    \/ /\ focus = "sticky"
       /\ Calm /\ Unsent /\ Resting /\ (\E u \in Used : \E n \in OpenPulls(u) : \E quotes \in BOOLEAN : Remark(u, n, quotes))
       /\ OthersStay
    \/ /\ focus = "sticky"
       /\ Calm /\ courier.pc \in {"look", "write"} /\ (\E u \in Used : \E i \in DOMAIN remarks[u] : DeleteRemark(u, i))
       /\ OthersStay
    \/ focus = "sticky" /\ Calm /\ Resting /\ PointUpstream("app", "hub") /\ OthersStay

HostSpec == HostInit /\ [][HostNext]_hostVars

\* The variables of the component in focus keep the values its handlers give them; those
\* of the others do not change.
HostTypeOK ==
    /\ focus = "policy" => GatePolicyTypeOK
    /\ focus = "frames" => FramesTypeOK
    /\ focus = "repo" => RepoFilesTypeOK
    /\ focus = "keys" => KeyAccessTypeOK
    /\ focus = "parts" => AuditPartsTypeOK
    /\ focus = "log" => LogRetentionTypeOK
    /\ focus = "accounts" => AccountsTypeOK
    /\ focus = "scan" => PushScanTypeOK
    /\ focus = "queue" => QueueFileTypeOK
    /\ focus = "ledger" => TaskLedgerTypeOK
    /\ focus = "install" => UserInstallTypeOK
    /\ focus = "framelife" => FrameLifeTypeOK
    /\ focus = "staging" => ScanStagingTypeOK
    /\ focus = "sessions" => SessionsTypeOK
    /\ focus = "stats" => GateStatsTypeOK
    /\ focus = "doctor" => DoctorTypeOK
    /\ focus = "sticky" => StickyTypeOK
=============================================================================
