------------------------------ MODULE PushScan ------------------------------
(***************************************************************************)
(* The scan of one pushed tree.  The pre-receive hook stages the tree,     *)
(* takes away the scan settings the push brings along, copies in what the  *)
(* operator keeps for the repository - appframes.toml first, then the      *)
(* files of .appframes one by one, among them whitelist.toml - runs the    *)
(* checks, drops the findings the whitelist exempts and decides.  All the  *)
(* while the operator may change the settings and the whitelist.           *)
(***************************************************************************)
EXTENDS Naturals, FiniteSets

CONSTANTS ScanFrames,      \* built-in checks of a push
          ScanLinters,     \* linters the operator may declare for the repository
          RepoCodeLinters, \* those that would run code of the pushed tree
          MildChecks,      \* checks that only warn unless the operator says otherwise
          CategoryOf,      \* the category in the name of each check
          TreeFiles,
          Trees,           \* pushed trees, see TreesOf
          Selections,      \* ways to select frames: sets of Specs
          Exemptions,      \* whitelist entries, see ExemptionsOf
          FirstSettings,   \* settings at the start
          FirstLists,      \* whitelists at the start
          WhitelistForms,  \* dashboard requests that change the whitelist
          MaxScanEdits     \* bound: changes by the operator

ScanChecks == ScanFrames \cup ScanLinters

\* What an entry or a selection may name: every check, a category, or one check.
Specs == {<<"any", "any">>} \cup ({"category"} \X STRING) \cup ({"check"} \X ScanChecks)

\* A tree: which check finds something in which file, which reports on the tree as a whole,
\* whether it brings settings of its own, and whether a line is too long for the scanner.
TreesOf == [hits : SUBSET (ScanChecks \X TreeFiles), whole : SUBSET ScanFrames,
            own : BOOLEAN, long : BOOLEAN]

\* An entry: what it names, the files its path matches, and whether it has expired.
ExemptionsOf == [spec : Specs, files : SUBSET TreeFiles, stale : BOOLEAN]

\* appframes.toml.
Settings == [frames : Selections, linters : SUBSET ScanLinters, flipped : SUBSET ScanChecks,
             excluded : SUBSET TreeFiles]

ASSUME PushScanAssumption ==
    /\ IsFiniteSet(TreeFiles) /\ ScanFrames \cap ScanLinters = {}
    /\ RepoCodeLinters \subseteq ScanLinters /\ MildChecks \subseteq ScanChecks
    /\ DOMAIN CategoryOf = ScanChecks
    /\ Trees \subseteq TreesOf
    /\ \A t \in Trees : \A h \in t.hits : h[1] \notin t.whole
    /\ \A S \in Selections : S \subseteq Specs \ {<<"any", "any">>}
    /\ Exemptions \subseteq ExemptionsOf
    /\ FirstSettings \subseteq Settings
    /\ \A L \in FirstLists : L \subseteq Exemptions
    /\ MaxScanEdits \in Nat

VARIABLES selection,  \* appframes.toml: frames, linters, severities and excluded paths
          exempt,     \* whitelist.toml, as a set of entries
          exemptTmp,  \* whitelist.toml.tmp, NoTmp when there is none
          form,       \* the whitelist requests
          scan,       \* the push: its step, tree and copies
          selections, exempts, \* history: what was in force since the scan began
          scanEdits

scanVars == <<selection, exempt, exemptTmp, form, scan, selections, exempts, scanEdits>>

NoTmp == [there |-> FALSE, list |-> {}]
IdleForm == [at |-> "idle", list |-> {}]

IdleScan(t) == [at |-> "new", tree |-> t, settings |-> selection, list |-> {}, sawTmp |-> FALSE,
                fault |-> "none", accepted |-> FALSE]

PushScanInit ==
    /\ selection \in FirstSettings
    /\ exempt \in FirstLists
    /\ exemptTmp = NoTmp
    /\ form = [f \in WhitelistForms |-> IdleForm]
    /\ scan = [at |-> "none"]
    /\ selections = {} /\ exempts = {}
    /\ scanEdits = 0

-----------------------------------------------------------------------------
(* What the settings and the whitelist mean.                               *)

\* isFrameEnabled and matchFrameSpec.
Selects(s, c) ==
    \/ s[1] = "any"
    \/ s[1] = "category" /\ s[2] = CategoryOf[c]
    \/ s[1] = "check" /\ s[2] = c

\* Nothing selected is everything selected.
SwitchedOn(c, k) ==
    IF c \in ScanLinters THEN c \in k.linters
    ELSE k.frames = {} \/ \E s \in k.frames : Selects(s, c)

Warns(c, k) == (c \in MildChecks) # (c \in k.flipped)

Spares(e, c, f) == ~e.stale /\ Selects(e.spec, c) /\ f \in e.files

KnownIfOn(s, k) == s[1] = "any" \/ \E c \in ScanChecks : SwitchedOn(c, k) /\ Selects(s, c)

\* The catalog an entry is checked against: every frame, on or off, and the linters that
\* are on, run or not.
Known(s, k) ==
    \/ s[1] = "any"
    \/ s[1] = "check" /\ s[2] \in ScanFrames \cup k.linters
    \/ s[1] = "category" /\ \E c \in ScanFrames \cup k.linters : CategoryOf[c] = s[2]

\* A linter of the pushed tree's own code is skipped, and so is one that meets a line
\* beyond its buffer.
CanRun(c, tree) == c \in ScanFrames \/ (c \notin RepoCodeLinters /\ ~tree.long)

\* The paths the settings exclude, which linters do not heed, and with a marker of its own
\* the push's.
Unseen(c, k, tree) ==
    IF c \in ScanLinters THEN {} ELSE IF tree.own THEN TreeFiles ELSE k.excluded

Found(c, k, tree) == {f \in TreeFiles : <<c, f>> \in tree.hits} \ Unseen(c, k, tree)

\* engine.Run and linters.RunEnabledUntrusted, with applySeverity.
Results(k, tree) ==
    {[check |-> c, files |-> Found(c, k, tree), outcome |-> IF Warns(c, k) THEN "WARN" ELSE "BLOCK"] :
        c \in {c \in ScanChecks : /\ SwitchedOn(c, k) /\ CanRun(c, tree)
                                  /\ Found(c, k, tree) # {} \/ c \in tree.whole}}

ApplyToWhole(r, list) ==
    [r EXCEPT !.outcome =
        IF \A f \in r.files : \E e \in list : Spares(e, r.check, f) THEN "PASS" ELSE @]

\* A result loses the exempt files, and passes when that leaves none; a result that names no
\* file stays.
ApplyWhitelist(r, list) ==
    LET kept == {f \in r.files : \A e \in list : ~Spares(e, r.check, f)}
    IN [check |-> r.check, files |-> kept,
        outcome |-> IF r.files # {} /\ kept = {} THEN "PASS" ELSE r.outcome]

Loads(list, k) == \A e \in list : Known(e.spec, k)

\* Decide for the one gated ref of the push.
Clean(k, list, tree) == \A r \in Results(k, tree) : ApplyWhitelist(r, list).outcome # "BLOCK"

-----------------------------------------------------------------------------
(* The hook.                                                               *)

Scanning == scan.at \notin {"none", "done"}

Rejected(fault) == scan' = [scan EXCEPT !.at = "done", !.fault = fault]

PushArrives(t) ==
    /\ scan.at = "none"
    /\ scan' = IdleScan(t)
    /\ selections' = {selection} /\ exempts' = {exempt}
    /\ UNCHANGED <<selection, exempt, exemptTmp, form, scanEdits>>

\* materializeTree: the archive may exceed the cap, the disk may be full.
StagingFails ==
    /\ scan.at = "new"
    /\ Rejected("staging")
    /\ UNCHANGED <<selection, exempt, exemptTmp, form, selections, exempts, scanEdits>>

\* The start of overlayPolicy.
Stripped(tree) == [tree EXCEPT !.own = FALSE]

CopySettings ==
    /\ scan.at = "new"
    /\ scan' = [scan EXCEPT !.at = "settings", !.settings = selection, !.tree = Stripped(@)]
    /\ UNCHANGED <<selection, exempt, exemptTmp, form, selections, exempts, scanEdits>>

\* copyDir takes the names of the directory and then one file after the other.
ListKept ==
    /\ scan.at = "settings"
    /\ scan' = [scan EXCEPT !.at = "listed", !.sawTmp = exemptTmp.there]
    /\ UNCHANGED <<selection, exempt, exemptTmp, form, selections, exempts, scanEdits>>

CopyWhitelist ==
    /\ scan.at = "listed"
    /\ scan' = [scan EXCEPT !.at = "whitelist", !.list = exempt]
    /\ UNCHANGED <<selection, exempt, exemptTmp, form, selections, exempts, scanEdits>>

\* The temporary file was on the list of names and has been renamed since.
CopyTmp ==
    /\ scan.at = "whitelist"
    /\ IF scan.sawTmp /\ ~exemptTmp.there
       THEN Rejected("overlay")
       ELSE scan' = [scan EXCEPT !.at = "copied"]
    /\ UNCHANGED <<selection, exempt, exemptTmp, form, selections, exempts, scanEdits>>

RunChecks ==
    /\ scan.at = "copied"
    /\ scan' = [scan EXCEPT !.at = "done",
                  !.accepted = /\ Loads(scan.list, scan.settings)
                               /\ Clean(scan.settings, scan.list, scan.tree)]
    /\ UNCHANGED <<selection, exempt, exemptTmp, form, selections, exempts, scanEdits>>

\* checkWithDeadline.
ScanTimesOut ==
    /\ scan.at = "copied"
    /\ Rejected("deadline")
    /\ UNCHANGED <<selection, exempt, exemptTmp, form, selections, exempts, scanEdits>>

-----------------------------------------------------------------------------
(* The operator.                                                           *)

\* What happens after the push is decided is not followed.
Counted == scan.at # "done" /\ scanEdits < MaxScanEdits /\ scanEdits' = scanEdits + 1

\* appframes.toml is renamed over; how its writers get in each other's way is FramesFile.
ChangeSettings(k) ==
    /\ k # selection
    /\ Counted
    /\ selection' = k
    /\ selections' = IF Scanning THEN selections \cup {k} ELSE selections
    /\ UNCHANGED <<exempt, exemptTmp, form, scan, exempts>>

SelectFrames(s) == ChangeSettings([selection EXCEPT !.frames = s])
ToggleLinter(l) == ChangeSettings([selection EXCEPT !.linters = (@ \cup {l}) \ (@ \cap {l})])
FlipSeverity(c) ==
    /\ SwitchedOn(c, selection)
    /\ ChangeSettings([selection EXCEPT !.flipped = (@ \cup {c}) \ (@ \cap {c})])
ExcludePaths(p) == ChangeSettings([selection EXCEPT !.excluded = p])

\* The handler takes any name with an asterisk, and otherwise a frame or a linter that is
\* on.  AddEntry and RemoveEntry know an entry by its name and its path.
SameKey(e, d) == e.spec = d.spec /\ e.files = d.files

BeginAdd(f, e) ==
    /\ form[f].at = "idle"
    /\ ~e.stale
    /\ e.spec[1] # "check" \/ Known(e.spec, selection)
    /\ \A d \in exempt : ~SameKey(d, e)
    /\ Counted
    /\ form' = [form EXCEPT ![f] = [at |-> "write", list |-> exempt \cup {e}]]
    /\ UNCHANGED <<selection, exempt, exemptTmp, scan, selections, exempts>>

BeginRemove(f, e) ==
    /\ form[f].at = "idle"
    /\ e \in exempt
    /\ Counted
    /\ form' = [form EXCEPT ![f] = [at |-> "write", list |-> {d \in exempt : ~SameKey(d, e)}]]
    /\ UNCHANGED <<selection, exempt, exemptTmp, scan, selections, exempts>>

WriteTmp(f) ==
    /\ form[f].at = "write"
    /\ exemptTmp' = [there |-> TRUE, list |-> form[f].list]
    /\ form' = [form EXCEPT ![f].at = "rename"]
    /\ UNCHANGED <<selection, exempt, scan, selections, exempts, scanEdits>>

\* Another request may have renamed the file away; then this one fails.
RenameTmp(f) ==
    /\ form[f].at = "rename"
    /\ form' = [form EXCEPT ![f] = IdleForm]
    /\ IF ~exemptTmp.there THEN UNCHANGED <<exempt, exemptTmp, exempts>>
       ELSE /\ exempt' = exemptTmp.list
            /\ exemptTmp' = NoTmp
            /\ exempts' = IF Scanning THEN exempts \cup {exempt'} ELSE exempts
    /\ UNCHANGED <<selection, scan, selections, scanEdits>>

PushScanNext ==
    \/ \E t \in Trees : PushArrives(t)
    \/ StagingFails \/ CopySettings \/ ListKept \/ CopyWhitelist \/ CopyTmp
    \/ RunChecks \/ ScanTimesOut
    \/ \E s \in Selections : SelectFrames(s)
    \/ \E l \in ScanLinters : ToggleLinter(l)
    \/ \E c \in ScanChecks : FlipSeverity(c)
    \/ \E p \in SUBSET TreeFiles : ExcludePaths(p)
    \/ \E f \in WhitelistForms, e \in Exemptions : BeginAdd(f, e) \/ BeginRemove(f, e)
    \/ \E f \in WhitelistForms : WriteTmp(f) \/ RenameTmp(f)

PushScanSpec == PushScanInit /\ [][PushScanNext]_scanVars

-----------------------------------------------------------------------------
(* Properties.                                                             *)

Scans == [at : {"new", "settings", "listed", "whitelist", "copied", "done"}, tree : TreesOf,
          settings : Settings, list : SUBSET Exemptions, sawTmp : BOOLEAN,
          fault : {"none", "staging", "overlay", "deadline"}, accepted : BOOLEAN]

\* The settings, the whitelist files and the scan are ones the handlers and the hook produce.
PushScanTypeOK ==
    /\ selection \in Settings /\ selections \subseteq Settings
    /\ exempt \subseteq Exemptions /\ \A L \in exempts : L \subseteq Exemptions
    /\ exemptTmp \in [there : BOOLEAN, list : SUBSET Exemptions]
    /\ ~exemptTmp.there => exemptTmp = NoTmp
    /\ form \in [WhitelistForms -> [at : {"idle", "write", "rename"}, list : SUBSET Exemptions]]
    /\ scan = [at |-> "none"] \/ scan \in Scans
    /\ Scanning => selection \in selections /\ exempt \in exempts
    /\ scanEdits \in 0 .. MaxScanEdits

Decided == scan.at = "done"
Lenient(c, k) == ~SwitchedOn(c, k) \/ Warns(c, k)
LenientAt(h, k) == Lenient(h[1], k) \/ (h[1] \in ScanFrames /\ h[2] \in k.excluded)
SparedBy(h, L) == \E e \in L : Spares(e, h[1], h[2])

\* An accepted push holds no finding of a check that could run, that was on and blocking, in
\* a file scanned, for as long as the scan lasted, and that no whitelist of that time exempted
\* - whatever settings the push brought along and whatever the operator changed meanwhile.
NothingSlips ==
    Decided /\ scan.accepted =>
        /\ \A h \in scan.tree.hits :
              \/ ~CanRun(h[1], scan.tree)
              \/ \E k \in selections : LenientAt(h, k)
              \/ \E L \in exempts : SparedBy(h, L)
        /\ \A c \in scan.tree.whole : \E k \in selections : Lenient(c, k)

\* What an entry names existed all the time: a frame, or a linter that stayed on.
Lasting(s) ==
    \/ s[1] = "any"
    \/ \E c \in ScanChecks :
          /\ Selects(s, c)
          /\ c \in ScanFrames \/ \A k \in selections : c \in k.linters

\* A push is accepted when the settings, or the whitelist, excuse each of its findings all
\* the while the scan lasts: as long as the hook can stage, copy and finish, and every entry
\* names a frame, on or off, or a linter that stays on.
CleanAccepted ==
    /\ Decided
    /\ scan.fault = "none"
    /\ \A L \in exempts : \A e \in L : Lasting(e.spec)
    /\ \A h \in scan.tree.hits :
          \/ \A k \in selections : LenientAt(h, k)
          \/ \A L \in exempts : SparedBy(h, L)
    /\ \A c \in scan.tree.whole : \A k \in selections : Lenient(c, k)
    => scan.accepted
=============================================================================
