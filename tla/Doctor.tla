------------------------------- MODULE Doctor -------------------------------
(***************************************************************************)
(* The report of `gateway doctor`, also the Diagnostics tab of /health,    *)
(* and the summary of /health: read-only, put together one read at a time  *)
(* while operators, hooks and the backstop change what is read.            *)
(*                                                                         *)
(* Beside the report stands what the gate and the relay make of the same   *)
(* files, so that what a report without a complaint promises can be        *)
(* compared with what a push then meets.  The report is that of one        *)
(* repository, without the network checks: the port of the gate and the    *)
(* trial of the upstream's credential are left out, as is the wording of   *)
(* every line but the commands that repair a refused access.               *)
(***************************************************************************)
EXTENDS Naturals, Sequences

CONSTANTS Hosts,        \* the hosts a behaviour may start with
          Alternatives, \* fact -> the values an edit may give it
          Nested,       \* branches inside a directory, the one doctor tries among them
          MaxHostEdits, \* bound: facts changed in one behaviour
          MaxReports    \* bound: reports asked for

\* What an account may do with a file: what the file's owner, its group and the others may.
SharedFiles == {"dir", "toml", "credential"}
Bits == {"r", "w", "x"}
Owners == {"root", "git", "relay", "other"}
Modes == [owner : Owners, group : Owners, user : SUBSET Bits, member : SUBSET Bits,
          other : SUBSET Bits]

HostFacts ==
    {"shape", "runAs", "socket", "keys", "active", "hook", "fsck", "parses", "enabled", "upstream",
     "upstreamThere", "upstreamOwner", "safe", "stored", "refs", "gateAll", "frames", "whitelist",
     "runsRepoCode", "modes", "push", "status"}
Sockets == {"gone", "live", "none"}

\* The report is asked for by root or the account of the hooks, and the account does not change.
ASSUME DoctorAssumption ==
    /\ "agent/example" \in Nested
    /\ {MaxHostEdits, MaxReports} \subseteq Nat
    /\ \A h \in Hosts : /\ h = [f \in HostFacts |-> h[f]]
                        /\ h["runAs"] \in {"root", "git"}
                        /\ h["socket"] \in Sockets
                        /\ h["modes"] \in [SharedFiles -> Modes]
    /\ DOMAIN Alternatives \subseteq HostFacts \ {"runAs"}
    /\ \A f \in DOMAIN Alternatives : /\ f = "socket" => Alternatives[f] \subseteq Sockets
                                      /\ f = "modes" => Alternatives[f] \subseteq [SharedFiles -> Modes]

VARIABLES host,         \* the facts
          report,       \* the report being put together, or the last one
          repair,       \* what came of the commands it printed
          hostEdits, reports

doctorVars == <<host, report, repair, hostEdits, reports>>

Services == {"git", "relay"}
ReportLines == {"keys", "bare", "access", "objects", "policy", "upstream", "local",
          "credential", "refs", "frames", "whitelist", "linters", "notifications", "relay"}

\* What a report without a complaint is taken to promise.
Promises == {"reach", "gated", "runs", "admits", "delivers", "quiet"}

\* How many changes during the report a promise survives.  Those that rest on several facts read
\* at different moments survive one; the account of the relay is asked for twice, and that it
\* is not known is said the first time only.
Survives(p) ==
    CASE p = "delivers" -> 0
      [] p \in {"gated", "admits", "quiet"} -> 1
      [] OTHER -> MaxHostEdits

\* accessBits: the first class that matches decides, an owner without rights is refused.  Each
\* account has a group of its own name.
Access(f, who) ==
    LET m == host.modes[f]
    IN  CASE m.owner = who -> m.user
          [] m.owner # who /\ m.group = who -> m.member
          [] OTHER -> m.other

Reads(f, who) == who = "root" \/ ("r" \in Access(f, who) /\ "x" \in Access("dir", who))

Remote(u) == u \in {"https", "http"}

\* matchRefPattern, for the patterns that stand for themselves and those that end in /*.
PatternMatches(p, b) ==
    \/ p = "refs/heads/*"
    \/ p = "refs/heads/main" /\ b = "main"
    \/ p = "refs/heads/agent/*" /\ b = "agent/example"

IsGated(b) == host.gateAll \/ \E p \in host.refs : PatternMatches(p, b)

\* The entries of an allow list that name a frame; a document that does not parse shows none.
Selection == IF host.frames = {"unparsed"} THEN {} ELSE host.frames
DeadEntries == Selection \cap {"kit", "removed"}

\* The account of the relay: the owner of the socket in the hook, else that of the backstop's
\* unit; none where the hook relays itself and no backstop exists.
RelayAccount ==
    CASE host.socket = "gone" -> "unknown"
      [] host.socket = "live" -> "relay"
      [] host.socket = "none" /\ host.shape = "bare metal" -> "relay"
      [] OTHER -> "nobody"

\* safeDirectoryAllows: an empty value clears what came before it.
SafeDirectoryAllows(values) ==
    \E i \in DOMAIN values :
       /\ values[i] \in {"*", "parent", "exact"}
       /\ \A j \in i..Len(values) : values[j] # ""

MayUse(who) == host.upstreamOwner = who \/ SafeDirectoryAllows(host.safe)

\* What each account needs to do with each file.
Needs == [dir |-> {"w", "x"}, toml |-> {"r"}, credential |-> {"r"}]

Denied(who) ==
    {f \in SharedFiles : /\ f = "credential" => host.stored
                         /\ ~(Needs[f] \subseteq Access(f, who))}

-----------------------------------------------------------------------------
(* The lines. *)

KeysLine ==
    CASE host.keys = "managed" -> "OK"
      [] host.keys = "elsewhere" -> "WARN"
      [] OTHER -> "FAIL"

\* Variant: an account that is not known is passed over.
AccessLineTrusting ==
    IF RelayAccount \in {"nobody", "unknown"} THEN "OK"
    ELSE IF Denied(RelayAccount) # {} THEN "FAIL" ELSE "OK"

AccessLine ==
    CASE RelayAccount = "nobody"  -> "OK"
      [] RelayAccount = "unknown" -> "WARN"
      [] OTHER -> IF Denied(RelayAccount) # {} THEN "FAIL" ELSE "OK"

UpstreamLine ==
    CASE host.upstream \in {"https", "ssh"} -> "OK"
      [] host.upstream = "local" -> IF host.upstreamThere THEN "OK" ELSE "FAIL"
      [] host.upstream = "http" -> "WARN"
      [] OTHER -> "FAIL"

\* The accounts git meets a local upstream with: the owner of the repository, and the relay's.
LocalLine ==
    IF /\ host.upstream = "local"
       /\ host.upstreamThere
       /\ \E who \in {"git", RelayAccount} \cap Services : ~MayUse(who)
    THEN "WARN" ELSE "OK"

\* By the upstream read with the policy, not by the one the file names now.
CredentialLine ==
    CASE report.upstream \in {"ssh", "local"} -> "INFO"
      [] OTHER -> IF host.stored /\ Reads("credential", host.runAs) THEN "OK" ELSE "WARN"

RefsLine ==
    CASE host.refs = {} /\ ~host.gateAll -> "FAIL"
      [] host.refs = {"refs/heads/main"} /\ ~host.gateAll -> "WARN"
      [] OTHER -> IF IsGated("agent/example") THEN "OK" ELSE "FAIL"

FramesLine ==
    CASE Selection = {} -> "OK"
      [] Selection # {} /\ Selection = DeadEntries -> "FAIL"
      [] OTHER -> IF DeadEntries # {} THEN "WARN" ELSE "OK"

\* The whitelist may name the built-in frames and the linters that are enabled: a document
\* that does not parse enables none.
WhitelistLine ==
    CASE host.whitelist = "none" -> "INFO"
      [] \/ host.whitelist = "builtin"
         \/ host.whitelist = "linter" /\ host.frames # {"unparsed"} -> "OK"
      [] OTHER -> "FAIL"

LintersLine == IF host.frames # {"unparsed"} /\ host.runsRepoCode THEN "WARN" ELSE "OK"

\* Recovered: a pass of the backstop after a failed push of branches, one that sent them again
\* included.
Recovered(push) ==
    /\ push.st = "failed" /\ push.heads
    /\ host.status.st \in {"ok", "drifted"} /\ host.status.at > push.at

\* A failure from either record wins; the record of the pushes is the one read at the start.
RelayLine(push) ==
    CASE host.status.st = "failed" -> "FAIL"
      [] host.status.st # "failed" /\ push.st = "failed" -> IF Recovered(push) THEN "OK" ELSE "FAIL"
      [] host.status.st = "drifted" /\ push.st # "failed" -> "WARN"
      [] OTHER -> IF push.st = "none" /\ host.status.st = "none" THEN "INFO" ELSE "OK"

-----------------------------------------------------------------------------
(* What a push meets. *)

\* The gate refuses what it cannot scan: a policy its account cannot read, an allow list that
\* does not parse, a whitelist that names what it does not know.  Frames of the repository's
\* own are known to it.
Admits ==
    /\ Reads("toml", "git") /\ host.parses
    /\ host.frames # {"unparsed"}
    /\ host.whitelist \in {"none", "builtin", "linter", "project"}

\* A push is carried by the service behind the socket or by the hook itself, and again by the
\* backstop.
Carriers ==
    (IF host.socket = "none" THEN {"git"} ELSE {"relay"})
      \cup (IF host.shape = "bare metal" THEN {"relay"} ELSE {})

CanDeliver(who) ==
    /\ Reads("toml", who) /\ host.parses
    /\ \/ Remote(host.upstream) /\ host.stored /\ Reads("credential", who)
       \/ host.upstream = "ssh"
       \/ host.upstream = "local" /\ host.upstreamThere /\ MayUse(who)

Kept(p) ==
    CASE p = "reach"    -> host.keys # "none"
      [] p = "gated"    -> /\ host.active /\ host.hook /\ host.enabled
                           /\ \A b \in Nested : IsGated(b)
      [] p = "runs"     -> host.frames = {} \/ host.frames \ {"kit", "removed", "unparsed"} # {}
      [] p = "admits"   -> host.active /\ Admits
      [] p = "delivers" -> /\ host.active /\ host.socket # "gone"
                           /\ \A who \in Carriers : CanDeliver(who)
      [] OTHER          -> /\ host.status.st # "failed"
                           /\ host.push.st = "failed" => Recovered(host.push)
                           /\ host.status.st = "drifted" => host.push.st = "failed"

\* What the report does not look at: the pre-receive hook and `enabled`; branches other than
\* the one it tries; an allow list that does not parse; and, asked for by root, what the
\* account of the hooks may read.
Overlooked(p) ==
    CASE p = "gated"    -> \/ ~host.hook \/ ~host.enabled
                           \/ "refs/heads/agent/*" \in host.refs
      [] p \in {"runs"} -> host.frames = {"unparsed"}
      [] p = "admits"   -> \/ host.frames = {"unparsed"}
                           \/ host.runAs = "root" /\ ~Reads("toml", "git")
      [] p = "delivers" -> /\ host.runAs = "root" /\ "git" \in Carriers
                           /\ \E f \in {"toml", "credential"} : ~Reads(f, "git")
      [] OTHER          -> FALSE

-----------------------------------------------------------------------------
NoReport == [pc |-> "none", complaints |-> {}, upstream |-> "none", push |-> "none",
             fixes |-> {}, account |-> "nobody", kept |-> {}, unseen |-> {}, since |-> 0,
             until |-> 0]

NoRepair == [st |-> "none", account |-> "nobody", wanted |-> {}, hopeless |-> {}]

DoctorInit ==
    /\ host \in Hosts
    /\ report = NoReport
    /\ repair = NoRepair
    /\ hostEdits = 0 /\ reports = 0

InProgress == report.pc \notin {"none", "done"}

\* Of the lines added, those that complain are kept.
Said(lines) == {l \in lines : l[2] \in {"FAIL", "WARN"}}

ReadOn(from, next, lines) ==
    /\ report.pc = from
    /\ report' = [report EXCEPT !.pc = next, !.complaints = @ \cup Said(lines),
                                !.until = hostEdits]
    /\ UNCHANGED <<host, repair, hostEdits, reports>>

\* The lines of the whole install, and the record of the pushes for every repository.
BeginReport ==
    /\ ~InProgress /\ reports < MaxReports
    /\ reports' = reports + 1
    /\ report' = [NoReport EXCEPT !.pc = "bare",
                                  !.complaints = Said({<<"keys", KeysLine>>}),
                                  !.push = host.push,
                                  !.kept = {p \in Promises : Kept(p)},
                                  !.unseen = {p \in Promises : Overlooked(p)},
                                  !.since = hostEdits, !.until = hostEdits]
    /\ repair' = NoRepair
    /\ UNCHANGED <<host, hostEdits>>

\* The repository, the rights of the relay's account and the checks git makes of objects.
CheckBare ==
    /\ report.pc = "bare"
    /\ report' =
         [report EXCEPT
            !.pc = "policy", !.until = hostEdits,
            !.complaints = @ \cup IF host.active
                                  THEN Said({<<"access", AccessLine>>,
                                             <<"objects", IF host.fsck THEN "OK" ELSE "WARN">>})
                                  ELSE {<<"bare", "FAIL">>},
            !.account = IF host.active THEN RelayAccount ELSE @,
            !.fixes = IF host.active /\ RelayAccount = "relay"
                      THEN {[file |-> f, regroup |-> host.modes[f].group # "relay"] :
                              f \in Denied("relay")}
                      ELSE {}]
    /\ UNCHANGED <<host, repair, hostEdits, reports>>

\* A policy that does not load ends the report.
LoadPolicyLines ==
    /\ report.pc = "policy"
    /\ report' =
         IF Reads("toml", host.runAs) /\ host.parses
         THEN [report EXCEPT !.pc = "credential", !.until = hostEdits,
                             !.upstream = host.upstream,
                             !.complaints = @ \cup Said({<<"upstream", UpstreamLine>>,
                                                         <<"local", LocalLine>>,
                                                         <<"refs", RefsLine>>})]
         ELSE [report EXCEPT !.pc = "done", !.until = hostEdits,
                             !.complaints = @ \cup {<<"policy", "FAIL">>}]
    /\ UNCHANGED <<host, repair, hostEdits, reports>>

LoadCredentialLine == ReadOn("credential", "frames", {<<"credential", CredentialLine>>})
LoadSelectionLine  == ReadOn("frames", "whitelist", {<<"frames", FramesLine>>})
LoadWhitelistLine  == ReadOn("whitelist", "linters", {<<"whitelist", WhitelistLine>>})
LoadLintersLine    == ReadOn("linters", "relay", {<<"linters", LintersLine>>})
LoadRelayLine      == ReadOn("relay", "done", {<<"relay", RelayLine(report.push)>>})

\* An operator, a hook or the backstop changes a fact.
EditHost(fact, value) ==
    /\ hostEdits < MaxHostEdits
    /\ host[fact] # value
    /\ host' = [host EXCEPT ![fact] = value]
    /\ hostEdits' = hostEdits + 1
    /\ report' = IF InProgress
                 THEN [report EXCEPT !.kept = @ \cup {p \in Promises : Kept(p)'},
                                     !.unseen = @ \cup {p \in Promises : Overlooked(p)'}]
                 ELSE report
    /\ repair' = NoRepair
    /\ UNCHANGED reports

\* Variant: the group of the file is left as it is.
FixedKeepingGroup(m, f, regroup) ==
    [m EXCEPT !.member = @ \cup (IF f = "dir" THEN {"w"} ELSE {"r"})]

\* relayAccessFix: chmod g+r, or g+ws for the directory, after a chgrp where the account is not
\* in the group.
FixedMode(m, f, regroup) ==
    [m EXCEPT !.member = @ \cup (IF f = "dir" THEN {"w"} ELSE {"r"}),
              !.group  = IF regroup THEN "relay" ELSE @]

\* The operator types what the report printed.  The commands cannot help an account that owns
\* the file, and g+ws does not let a group into a directory it could not enter.
FollowFixes ==
    /\ report.pc = "done" /\ report.fixes # {} /\ repair.st = "none"
    /\ report.since = hostEdits
    /\ LET wanted == {x.file : x \in report.fixes}
       IN  /\ host' = [host EXCEPT !.modes =
                         [f \in SharedFiles |->
                            IF f \in wanted
                            THEN LET x == CHOOSE y \in report.fixes : y.file = f
                                 IN  FixedMode(@[f], f, x.regroup)
                            ELSE @[f]]]
           /\ repair' = [st |-> "followed", account |-> report.account, wanted |-> wanted,
                         hopeless |-> {f \in wanted :
                                         \/ host.modes[f].owner = report.account
                                         \/ f = "dir" /\ "x" \notin host.modes[f].member}]
    /\ UNCHANGED <<report, hostEdits, reports>>

DoctorNext ==
    \/ BeginReport \/ CheckBare \/ LoadPolicyLines \/ LoadCredentialLine \/ LoadSelectionLine
    \/ LoadWhitelistLine \/ LoadLintersLine \/ LoadRelayLine
    \/ \E fact \in DOMAIN Alternatives : \E value \in Alternatives[fact] : EditHost(fact, value)
    \/ FollowFixes

DoctorSpec == DoctorInit /\ [][DoctorNext]_doctorVars

-----------------------------------------------------------------------------
(* Properties. *)

DoctorTypeOK ==
    /\ report.pc \in {"none", "bare", "policy", "credential", "frames", "whitelist", "linters",
                      "relay", "done"}
    /\ report.complaints \subseteq ReportLines \X {"FAIL", "WARN"}
    /\ report.kept \subseteq Promises /\ report.unseen \subseteq Promises
    /\ report.since <= report.until /\ report.until <= hostEdits
    /\ repair.wanted \subseteq SharedFiles

NoComplaint == report.pc = "done" /\ report.complaints = {}

\* What a report without a complaint promises was so at a moment while it was put together:
\* keys let a machine in, every branch inside a directory is gated, frames run, the gate
\* admits pushes at all, every account that carries a push can, and no relay has failed.  The
\* promises that rest on several facts stand only while few of them change (Survives).  What the
\* report does not look at (Overlooked) is excepted.
CleanMeansServed ==
    NoComplaint => \A p \in Promises : \/ p \in report.kept \cup report.unseen
                                 \/ report.until - report.since > Survives(p)

\* Once the commands of a report are followed, the relay's account has the access the report
\* missed, but for what the commands cannot give.
FixGrants ==
    repair.st = "followed" =>
       \A f \in repair.wanted \ repair.hopeless : Needs[f] \subseteq Access(f, repair.account)

=============================================================================
