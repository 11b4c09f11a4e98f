----------------------------- MODULE HostProofs -----------------------------
(***************************************************************************)
(* The components of one host together (MCHostFiles): every behaviour of   *)
(* the host is one of each component, so that what is proved of the        *)
(* components, for any value of their constants, is proved of the host;    *)
(* and the host has its types.                                             *)
(***************************************************************************)
EXTENDS MCHostFiles, AccessProofs, CheckoutProofs, RepositoryProofs, LogProofs

-----------------------------------------------------------------------------
(* The steps of the host, by the component in focus.                       *)

\* A component that is not in focus does nothing.
LEMMA EveryStepStays == ASSUME HostNext PROVE OthersStay
BY DEF HostNext

LEMMA OutOfFocus ==
    ASSUME [HostNext]_hostVars
    PROVE  /\ focus' = focus
           /\ focus # "policy" => UNCHANGED gatePolicyVars
           /\ focus # "frames" => UNCHANGED framesVars
           /\ focus # "repo" => UNCHANGED repoVars
           /\ focus # "keys" => UNCHANGED keyVars
           /\ focus # "parts" => UNCHANGED auditVars
           /\ focus # "log" => UNCHANGED logVars
           /\ focus # "accounts" => UNCHANGED accountVars
           /\ focus # "scan" => UNCHANGED scanVars
           /\ focus # "queue" => UNCHANGED queueFileVars
           /\ focus # "ledger" => UNCHANGED ledgerVars
           /\ focus # "install" => UNCHANGED installVars
           /\ focus # "framelife" => UNCHANGED frameLifeVars
           /\ focus # "staging" => UNCHANGED stagingVars
           /\ focus # "sessions" => UNCHANGED sessionVars
           /\ focus # "stats" => UNCHANGED statVars
           /\ focus # "doctor" => UNCHANGED doctorVars
           /\ focus # "sticky" => UNCHANGED stickyVars
<1>1. CASE HostNext
  BY <1>1, EveryStepStays DEF OthersStay
<1>2. CASE UNCHANGED hostVars
  BY <1>2 DEF hostVars
<1> QED BY <1>1, <1>2

LEMMA GatePolicyMoves == ASSUME HostNext, focus = "policy" PROVE GatePolicyNext
BY DEF HostNext, GatePolicyNext

LEMMA FramesMoves == ASSUME HostNext, focus = "frames" PROVE FramesNext
BY DEF HostNext, FramesNext

LEMMA RepoFilesMoves == ASSUME HostNext, focus = "repo" PROVE RepoFilesNext
BY DEF HostNext, RepoFilesNext

LEMMA KeyAccessMoves == ASSUME HostNext, focus = "keys" PROVE KeyAccessNext
BY DEF HostNext, KeyAccessNext

LEMMA AuditPartsMoves == ASSUME HostNext, focus = "parts" PROVE AuditPartsNext
BY DEF HostNext, AuditPartsNext

LEMMA LogRetentionMoves == ASSUME HostNext, focus = "log" PROVE LogRetentionNext
BY DEF HostNext, LogRetentionNext

LEMMA AccountsMoves == ASSUME HostNext, focus = "accounts" PROVE AccountsNext
BY DEF HostNext, AccountsNext

LEMMA QueueFileMoves == ASSUME HostNext, focus = "queue" PROVE QueueFileNext
BY DEF HostNext, QueueFileNext

LEMMA TaskLedgerMoves == ASSUME HostNext, focus = "ledger" PROVE TaskLedgerNext
BY DEF HostNext, TaskLedgerNext

LEMMA FrameLifeMoves == ASSUME HostNext, focus = "framelife" PROVE FrameLifeNext
BY DEF HostNext, FrameLifeNext

LEMMA PushScanMoves == ASSUME HostNext, focus = "scan" PROVE PushScanNext
<1>1. \/ PushScanNext
      \/ \E c \in Flippable : FlipSeverity(c)
      \/ \E p \in {{}, {"p"}} : ExcludePaths(p)
  BY DEF HostNext, PushScanNext
<1>2. Flippable \subseteq ScanChecks
  BY DEF Flippable
<1>3. {{}, {"p"}} \subseteq SUBSET TreeFiles
  BY HostAssumption DEF HostAssumption
<1> QED BY <1>1, <1>2, <1>3 DEF PushScanNext

LEMMA UserInstallMoves == ASSUME HostNext, focus = "install" PROVE UserInstallNext
<1>1. \/ UserInstallNext
      \/ \E p \in Installers : Setup(p, SetupSteps) \/ RunSetup(p, SetupSteps)
      \/ \E p \in Installers, op \in ShellOps : Shell(p, op)
  BY DEF HostNext, UserInstallNext
<1>2. /\ SetupSteps \in SUBSET {"shims", "path", "snippet"}
      /\ ShellOps \subseteq {"install", "uninstall", "installStrict", "uninstallStrict"}
  BY DEF SetupSteps, ShellOps
<1> QED BY <1>1, <1>2 DEF UserInstallNext

LEMMA ScanStagingMoves == ASSUME HostNext, focus = "staging" PROVE ScanStagingNext
<1>1. \/ ScanStagingNext
      \/ \E c \in NewConfs : EditGatewayConfig(c)
      \/ ChangeRights("chosen")
  BY DEF HostNext, ScanStagingNext
<1>2. NewConfs \subseteq Confs /\ "chosen" \in StagingPlaces
  BY DEF NewConfs, Confs, StagingPlaces
<1> QED BY <1>1, <1>2 DEF ScanStagingNext

\* The login page is on or off.
LEMMA SessionsMoves ==
    ASSUME HostNext, focus = "sessions", front.edits \in BOOLEAN
    PROVE  SessionsNext
<1>1. SessionsNext \/ Restart(front.edits)
  BY DEF HostNext, SessionsNext
<1> QED BY <1>1 DEF SessionsNext

LEMMA StatMoves == ASSUME HostNext, focus = "stats" PROVE StatNext
<1>1. \/ StatNext
      \/ \E r \in Readers, x \in Askable : Ask(r, x)
  BY DEF HostNext, StatNext
<1>2. Askable \subseteq DOMAIN Statements
  BY DEF Askable, AskedAlone, Statements
<1> QED BY <1>1, <1>2 DEF StatNext

LEMMA DoctorMoves == ASSUME HostNext, focus = "doctor" PROVE DoctorNext
<1>1. \/ DoctorNext
      \/ \E fact \in Editable : \E value \in Alternatives[fact] : EditHost(fact, value)
  BY DEF HostNext, DoctorNext
<1>2. Editable \subseteq DOMAIN OtherFacts
  BY DEF Editable, OtherFacts
<1>3. Editable \subseteq DOMAIN Alternatives
  BY <1>2, HostAssumption DEF HostAssumption
<1> QED BY <1>1, <1>3 DEF DoctorNext

\* The repositories point to upstreams.
LEMMA StickyMoves ==
    ASSUME HostNext, focus = "sticky", upstreamOf \in [Mirrored -> Urls]
    PROVE  StickyNext
<1>1. \/ StickyNext
      \/ NotifyReject("app")
      \/ LookUp({})
      \/ \E call \in {"id", "scan"} : LookUp({call})
      \/ \E from \in Origins : OpenPull(upstreamOf["app"], from)
      \/ \E u \in Used : \E n \in OpenPulls(u) : ClosePull(u, n)
      \/ \E u \in Used : \E n \in OpenPulls(u) : \E quotes \in BOOLEAN : Remark(u, n, quotes)
      \/ \E u \in Used : \E i \in DOMAIN remarks[u] : DeleteRemark(u, i)
      \/ PointUpstream("app", "hub")
  BY DEF HostNext, StickyNext
<1>2. "app" \in Mirrored /\ "hub" \in Urls /\ upstreamOf["app"] \in Urls
  BY HostAssumption DEF HostAssumption
<1>3. Used \subseteq Urls
  BY DEF Used
<1>4. {} \in SUBSET {"id", "scan"} /\ \A call \in {"id", "scan"} : {call} \in SUBSET {"id", "scan"}
  OBVIOUS
<1> QED BY <1>1, <1>2, <1>3, <1>4 DEF StickyNext

-----------------------------------------------------------------------------
(* Each component.                                                         *)

LEMMA GatePolicyPart == HostSpec => GatePolicySpec
<1>1. HostInit => GatePolicyInit
  BY DEF HostInit
<1>2. [HostNext]_hostVars => [GatePolicyNext]_gatePolicyVars
  <2> SUFFICES ASSUME [HostNext]_hostVars PROVE [GatePolicyNext]_gatePolicyVars
    OBVIOUS
  <2>1. CASE HostNext /\ focus = "policy"
    BY <2>1, GatePolicyMoves
  <2>2. CASE UNCHANGED hostVars
    BY <2>2 DEF hostVars
  <2>3. CASE focus # "policy"
    BY <2>3, OutOfFocus
  <2> QED BY <2>1, <2>2, <2>3
<1> QED BY <1>1, <1>2, PTL DEF HostSpec, GatePolicySpec

LEMMA FramesPart == HostSpec => FramesSpec
<1>1. HostInit => FramesInit
  BY DEF HostInit
<1>2. [HostNext]_hostVars => [FramesNext]_framesVars
  <2> SUFFICES ASSUME [HostNext]_hostVars PROVE [FramesNext]_framesVars
    OBVIOUS
  <2>1. CASE HostNext /\ focus = "frames"
    BY <2>1, FramesMoves
  <2>2. CASE UNCHANGED hostVars
    BY <2>2 DEF hostVars
  <2>3. CASE focus # "frames"
    BY <2>3, OutOfFocus
  <2> QED BY <2>1, <2>2, <2>3
<1> QED BY <1>1, <1>2, PTL DEF HostSpec, FramesSpec

LEMMA RepoFilesPart == HostSpec => RepoFilesSpec
<1>1. HostInit => RepoFilesInit
  BY DEF HostInit
<1>2. [HostNext]_hostVars => [RepoFilesNext]_repoVars
  <2> SUFFICES ASSUME [HostNext]_hostVars PROVE [RepoFilesNext]_repoVars
    OBVIOUS
  <2>1. CASE HostNext /\ focus = "repo"
    BY <2>1, RepoFilesMoves
  <2>2. CASE UNCHANGED hostVars
    BY <2>2 DEF hostVars
  <2>3. CASE focus # "repo"
    BY <2>3, OutOfFocus
  <2> QED BY <2>1, <2>2, <2>3
<1> QED BY <1>1, <1>2, PTL DEF HostSpec, RepoFilesSpec

LEMMA KeyAccessPart == HostSpec => KeyAccessSpec
<1>1. HostInit => KeyAccessInit
  BY DEF HostInit
<1>2. [HostNext]_hostVars => [KeyAccessNext]_keyVars
  <2> SUFFICES ASSUME [HostNext]_hostVars PROVE [KeyAccessNext]_keyVars
    OBVIOUS
  <2>1. CASE HostNext /\ focus = "keys"
    BY <2>1, KeyAccessMoves
  <2>2. CASE UNCHANGED hostVars
    BY <2>2 DEF hostVars
  <2>3. CASE focus # "keys"
    BY <2>3, OutOfFocus
  <2> QED BY <2>1, <2>2, <2>3
<1> QED BY <1>1, <1>2, PTL DEF HostSpec, KeyAccessSpec

LEMMA AuditPartsPart == HostSpec => AuditPartsSpec
<1>1. HostInit => AuditPartsInit
  BY DEF HostInit
<1>2. [HostNext]_hostVars => [AuditPartsNext]_auditVars
  <2> SUFFICES ASSUME [HostNext]_hostVars PROVE [AuditPartsNext]_auditVars
    OBVIOUS
  <2>1. CASE HostNext /\ focus = "parts"
    BY <2>1, AuditPartsMoves
  <2>2. CASE UNCHANGED hostVars
    BY <2>2 DEF hostVars
  <2>3. CASE focus # "parts"
    BY <2>3, OutOfFocus
  <2> QED BY <2>1, <2>2, <2>3
<1> QED BY <1>1, <1>2, PTL DEF HostSpec, AuditPartsSpec

LEMMA LogRetentionPart == HostSpec => LogRetentionSpec
<1>1. HostInit => LogRetentionInit
  BY DEF HostInit
<1>2. [HostNext]_hostVars => [LogRetentionNext]_logVars
  <2> SUFFICES ASSUME [HostNext]_hostVars PROVE [LogRetentionNext]_logVars
    OBVIOUS
  <2>1. CASE HostNext /\ focus = "log"
    BY <2>1, LogRetentionMoves
  <2>2. CASE UNCHANGED hostVars
    BY <2>2 DEF hostVars
  <2>3. CASE focus # "log"
    BY <2>3, OutOfFocus
  <2> QED BY <2>1, <2>2, <2>3
<1> QED BY <1>1, <1>2, PTL DEF HostSpec, LogRetentionSpec

LEMMA AccountsPart == HostSpec => AccountsSpec
<1>1. HostInit => AccountsInit
  BY DEF HostInit
<1>2. [HostNext]_hostVars => [AccountsNext]_accountVars
  <2> SUFFICES ASSUME [HostNext]_hostVars PROVE [AccountsNext]_accountVars
    OBVIOUS
  <2>1. CASE HostNext /\ focus = "accounts"
    BY <2>1, AccountsMoves
  <2>2. CASE UNCHANGED hostVars
    BY <2>2 DEF hostVars
  <2>3. CASE focus # "accounts"
    BY <2>3, OutOfFocus
  <2> QED BY <2>1, <2>2, <2>3
<1> QED BY <1>1, <1>2, PTL DEF HostSpec, AccountsSpec

LEMMA PushScanPart == HostSpec => PushScanSpec
<1>1. HostInit => PushScanInit
  BY DEF HostInit
<1>2. [HostNext]_hostVars => [PushScanNext]_scanVars
  <2> SUFFICES ASSUME [HostNext]_hostVars PROVE [PushScanNext]_scanVars
    OBVIOUS
  <2>1. CASE HostNext /\ focus = "scan"
    BY <2>1, PushScanMoves
  <2>2. CASE UNCHANGED hostVars
    BY <2>2 DEF hostVars
  <2>3. CASE focus # "scan"
    BY <2>3, OutOfFocus
  <2> QED BY <2>1, <2>2, <2>3
<1> QED BY <1>1, <1>2, PTL DEF HostSpec, PushScanSpec

LEMMA QueueFilePart == HostSpec => QueueFileSpec
<1>1. HostInit => QueueFileInit
  BY DEF HostInit
<1>2. [HostNext]_hostVars => [QueueFileNext]_queueFileVars
  <2> SUFFICES ASSUME [HostNext]_hostVars PROVE [QueueFileNext]_queueFileVars
    OBVIOUS
  <2>1. CASE HostNext /\ focus = "queue"
    BY <2>1, QueueFileMoves
  <2>2. CASE UNCHANGED hostVars
    BY <2>2 DEF hostVars
  <2>3. CASE focus # "queue"
    BY <2>3, OutOfFocus
  <2> QED BY <2>1, <2>2, <2>3
<1> QED BY <1>1, <1>2, PTL DEF HostSpec, QueueFileSpec

LEMMA TaskLedgerPart == HostSpec => TaskLedgerSpec
<1>1. HostInit => TaskLedgerInit
  BY DEF HostInit
<1>2. [HostNext]_hostVars => [TaskLedgerNext]_ledgerVars
  <2> SUFFICES ASSUME [HostNext]_hostVars PROVE [TaskLedgerNext]_ledgerVars
    OBVIOUS
  <2>1. CASE HostNext /\ focus = "ledger"
    BY <2>1, TaskLedgerMoves
  <2>2. CASE UNCHANGED hostVars
    BY <2>2 DEF hostVars
  <2>3. CASE focus # "ledger"
    BY <2>3, OutOfFocus
  <2> QED BY <2>1, <2>2, <2>3
<1> QED BY <1>1, <1>2, PTL DEF HostSpec, TaskLedgerSpec

LEMMA UserInstallPart == HostSpec => UserInstallSpec
<1>1. HostInit => UserInstallInit
  BY DEF HostInit
<1>2. [HostNext]_hostVars => [UserInstallNext]_installVars
  <2> SUFFICES ASSUME [HostNext]_hostVars PROVE [UserInstallNext]_installVars
    OBVIOUS
  <2>1. CASE HostNext /\ focus = "install"
    BY <2>1, UserInstallMoves
  <2>2. CASE UNCHANGED hostVars
    BY <2>2 DEF hostVars
  <2>3. CASE focus # "install"
    BY <2>3, OutOfFocus
  <2> QED BY <2>1, <2>2, <2>3
<1> QED BY <1>1, <1>2, PTL DEF HostSpec, UserInstallSpec

LEMMA FrameLifePart == HostSpec => FrameLifeSpec
<1>1. HostInit => FrameLifeInit
  BY DEF HostInit
<1>2. [HostNext]_hostVars => [FrameLifeNext]_frameLifeVars
  <2> SUFFICES ASSUME [HostNext]_hostVars PROVE [FrameLifeNext]_frameLifeVars
    OBVIOUS
  <2>1. CASE HostNext /\ focus = "framelife"
    BY <2>1, FrameLifeMoves
  <2>2. CASE UNCHANGED hostVars
    BY <2>2 DEF hostVars
  <2>3. CASE focus # "framelife"
    BY <2>3, OutOfFocus
  <2> QED BY <2>1, <2>2, <2>3
<1> QED BY <1>1, <1>2, PTL DEF HostSpec, FrameLifeSpec

LEMMA ScanStagingPart == HostSpec => ScanStagingSpec
<1>1. HostInit => ScanStagingInit
  BY DEF HostInit
<1>2. [HostNext]_hostVars => [ScanStagingNext]_stagingVars
  <2> SUFFICES ASSUME [HostNext]_hostVars PROVE [ScanStagingNext]_stagingVars
    OBVIOUS
  <2>1. CASE HostNext /\ focus = "staging"
    BY <2>1, ScanStagingMoves
  <2>2. CASE UNCHANGED hostVars
    BY <2>2 DEF hostVars
  <2>3. CASE focus # "staging"
    BY <2>3, OutOfFocus
  <2> QED BY <2>1, <2>2, <2>3
<1> QED BY <1>1, <1>2, PTL DEF HostSpec, ScanStagingSpec

\* Its moves are its own as long as its invariant holds, which they keep.
LEMMA SessionsPart == HostSpec => SessionsSpec
<1>1. HostInit => SessionsInit
  BY DEF HostInit
<1>2. ASSUME FrontInv, [HostNext]_hostVars
      PROVE  [SessionsNext]_sessionVars
  <2>1. front.edits \in BOOLEAN
    BY <1>2 DEF FrontInv, FrontTypes
  <2>2. CASE HostNext /\ focus = "sessions"
    BY <2>1, <2>2, SessionsMoves
  <2>3. CASE UNCHANGED hostVars
    BY <2>3 DEF hostVars
  <2>4. CASE focus # "sessions"
    BY <1>2, <2>4, OutOfFocus
  <2> QED BY <1>2, <2>2, <2>3, <2>4
<1>3. SessionsInit => FrontInv
  BY FrontStarts
<1>4. FrontInv /\ [SessionsNext]_sessionVars => FrontInv'
  BY FrontByStep
<1>5. FrontInv /\ [HostNext]_hostVars => FrontInv'
  BY <1>2, <1>4
<1>6. FrontInv /\ [HostNext]_hostVars => [SessionsNext]_sessionVars
  BY <1>2
<1> QED BY <1>1, <1>3, <1>5, <1>6, PTL DEF HostSpec, SessionsSpec

LEMMA StatPart == HostSpec => StatSpec
<1>1. HostInit => StatInit
  BY DEF HostInit
<1>2. [HostNext]_hostVars => [StatNext]_statVars
  <2> SUFFICES ASSUME [HostNext]_hostVars PROVE [StatNext]_statVars
    OBVIOUS
  <2>1. CASE HostNext /\ focus = "stats"
    BY <2>1, StatMoves
  <2>2. CASE UNCHANGED hostVars
    BY <2>2 DEF hostVars
  <2>3. CASE focus # "stats"
    BY <2>3, OutOfFocus
  <2> QED BY <2>1, <2>2, <2>3
<1> QED BY <1>1, <1>2, PTL DEF HostSpec, StatSpec

LEMMA DoctorPart == HostSpec => DoctorSpec
<1>1. HostInit => DoctorInit
  BY DEF HostInit
<1>2. [HostNext]_hostVars => [DoctorNext]_doctorVars
  <2> SUFFICES ASSUME [HostNext]_hostVars PROVE [DoctorNext]_doctorVars
    OBVIOUS
  <2>1. CASE HostNext /\ focus = "doctor"
    BY <2>1, DoctorMoves
  <2>2. CASE UNCHANGED hostVars
    BY <2>2 DEF hostVars
  <2>3. CASE focus # "doctor"
    BY <2>3, OutOfFocus
  <2> QED BY <2>1, <2>2, <2>3
<1> QED BY <1>1, <1>2, PTL DEF HostSpec, DoctorSpec

\* Its moves are its own as long as its invariant holds, which they keep.
LEMMA StickyPart == HostSpec => StickySpec
<1>1. HostInit => StickyInit
  BY DEF HostInit
<1>2. ASSUME StickyInv, [HostNext]_hostVars
      PROVE  [StickyNext]_stickyVars
  <2>1. upstreamOf \in [Mirrored -> Urls]
    BY <1>2 DEF StickyInv, StickyShape
  <2>2. CASE HostNext /\ focus = "sticky"
    BY <2>1, <2>2, StickyMoves
  <2>3. CASE UNCHANGED hostVars
    BY <2>3 DEF hostVars
  <2>4. CASE focus # "sticky"
    BY <1>2, <2>4, OutOfFocus
  <2> QED BY <1>2, <2>2, <2>3, <2>4
<1>3. StickyInit => StickyInv
  BY StickyStart
<1>4. StickyInv /\ [StickyNext]_stickyVars => StickyInv'
  BY StickyByStep
<1>5. StickyInv /\ [HostNext]_hostVars => StickyInv'
  BY <1>2, <1>4
<1>6. StickyInv /\ [HostNext]_hostVars => [StickyNext]_stickyVars
  BY <1>2
<1> QED BY <1>1, <1>3, <1>5, <1>6, PTL DEF HostSpec, StickySpec

-----------------------------------------------------------------------------
(* The host and its components.                                            *)

\* Every behaviour of the host is one of each component: what is proved of the components holds
\* of the specification the run checks.
THEOREM HostRunsComponents ==
    HostSpec =>
        /\ GatePolicySpec
        /\ FramesSpec
        /\ RepoFilesSpec
        /\ KeyAccessSpec
        /\ AuditPartsSpec
        /\ LogRetentionSpec
        /\ AccountsSpec
        /\ PushScanSpec
        /\ QueueFileSpec
        /\ TaskLedgerSpec
        /\ UserInstallSpec
        /\ FrameLifeSpec
        /\ ScanStagingSpec
        /\ SessionsSpec
        /\ StatSpec
        /\ DoctorSpec
        /\ StickySpec
BY GatePolicyPart, FramesPart, RepoFilesPart, KeyAccessPart, AuditPartsPart, LogRetentionPart,
   AccountsPart, PushScanPart, QueueFilePart, TaskLedgerPart, UserInstallPart, FrameLifePart,
   ScanStagingPart, SessionsPart, StatPart, DoctorPart, StickyPart

\* Each component of the host has its types, whichever is in focus.
THEOREM HostTypeCorrect == HostSpec => []HostTypeOK
<1>1. /\ GatePolicyTypeOK /\ FramesTypeOK /\ RepoFilesTypeOK
      /\ KeyAccessTypeOK /\ AuditPartsTypeOK /\ LogRetentionTypeOK
      /\ AccountsTypeOK /\ PushScanTypeOK /\ QueueFileTypeOK
      /\ TaskLedgerTypeOK /\ UserInstallTypeOK /\ FrameLifeTypeOK
      /\ ScanStagingTypeOK /\ SessionsTypeOK /\ GateStatsTypeOK
      /\ DoctorTypeOK /\ StickyTypeOK
      => HostTypeOK
  BY DEF HostTypeOK
<1> QED BY <1>1, HostRunsComponents,
           PolicyTypeCorrect, FramesTypeCorrect, RepoTypeCorrect, KeyTypeCorrect,
           AuditTypeCorrect, LogTypeCorrect, AccountsTypeCorrect, ScanTypeCorrect,
           QueueTypeCorrect, TaskLedgerTypeCorrect, InstallTypeCorrect, FrameLifeTypeCorrect,
           StagingTypeCorrect, SessionsTypeCorrect, StatTypeCorrect, DoctorTypeCorrect,
           StickyTypeCorrect, PTL

\* What the components promise, of the host: one after the other the invariants of the run.
THEOREM HostKeepsCorrect ==
    HostSpec =>
        /\ []RestPreserved
        /\ []ServedIsGated /\ []SomeWayOut
        /\ []OnlyTheGranted
        /\ []EntriesKept /\ []EntriesOnce
        /\ []EvidenceKept /\ []IndexComplete
        /\ []OneAdmin
        /\ []NothingSlips
        /\ []QueueKeeps
        /\ []UserLinesKept
        /\ []FramesKept /\ []ArchivedStaysOut
        /\ []SweptInTime
        /\ []GuessesBounded /\ []AdmittedOnly
        /\ []NotStale /\ []AnswersAgree
        /\ []CleanMeansServed /\ []FixGrants
        /\ []RightRepository /\ []TakenMeansTold
BY HostRunsComponents, PreservesTheRest, ServedIsGatedCorrect, SomeWayOutCorrect,
   OnlyTheGrantedCorrect, EntriesKeptCorrect, EntriesOnceCorrect, EvidenceKeptCorrect,
   IndexCompleteCorrect, OneAdminCorrect, NothingSlipsCorrect, QueueKeepsCorrect,
   UserLinesKeptCorrect, FramesKeptCorrect, ArchivedStaysOutCorrect, SweptInTimeCorrect,
   GuessesBoundedCorrect, AdmittedOnlyCorrect, NotStaleCorrect, AnswersAgreeCorrect,
   CleanMeansServedCorrect, FixGrantsCorrect, RightRepositoryCorrect, TakenMeansToldCorrect

\* And what none of their steps does.
THEOREM HostStepsCorrect ==
    HostSpec => SectionsSurvive /\ PushConsented /\ RemovedStaysOut /\ WordsKept
BY HostRunsComponents, SectionsSurviveCorrect, PushConsentedCorrect, RemovedStaysOutCorrect,
   WordsKeptCorrect
=============================================================================
