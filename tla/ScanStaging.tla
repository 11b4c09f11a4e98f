----------------------------- MODULE ScanStaging -----------------------------
(***************************************************************************)
(* The directories that pushed trees are extracted to: by the pre-receive  *)
(* hook, the scan of a first push and the preview of a linter.  Each finds *)
(* its place in [gateway] of gateway.toml as it is now; the sweeper in the *)
(* dashboard found its place when the dashboard started, and waits a whole *)
(* interval before it first sweeps.  /health says where trees go and how   *)
(* the last sweep ended.                                                   *)
(*                                                                         *)
(* A tick is the time a staged tree is safe from the sweeper (24 hours): a *)
(* scan with a deadline (only the gate's have one) ends within one.  Left  *)
(* out: the size of a tree, and free space.                                *)
(***************************************************************************)
EXTENDS Naturals

CONSTANTS Stagers,         \* trees staged in one behaviour
          SweepEvery,      \* [maintenance] interval, in ticks
          MaxTicks,        \* bound: length of a behaviour
          MaxStagingEdits, \* bound: changes of the configuration or of a directory's rights
          MaxStagingFaults \* bound: deaths, failed removals and failed appends

ASSUME ScanStagingAssumption ==
    /\ SweepEvery \in Nat \ {0}
    /\ {MaxTicks, MaxStagingEdits, MaxStagingFaults} \subseteq Nat

VARIABLES conf,        \* [gateway] of gateway.toml
          usable,      \* the directories that can be made
          staged,      \* the trees
          fallbacks,   \* events.log: when a hook could not use the configured directory
          sweeper,     \* the maintenance loop of the dashboard
          tick,
          stagingEdits, stagingFaults

stagingVars == <<conf, usable, staged, fallbacks, sweeper, tick, stagingEdits, stagingFaults>>

\* The directory of the operator's choice, _scan-tmp beside the repositories, and the one an
\* earlier version would derive inside _repos; $TMPDIR always works.
StagingPlaces == {"chosen", "beside", "inside"}
Tasks == {"gc", "sessions", "orphans", "deadletter", "audit", "events"}

\* kind: what the file says of [gateway] is as written, has an invalid number, stands outside
\* the section, or does not parse.
Confs == [kind : {"ok", "badNumber", "misplaced", "broken"}, dir : {"", "chosen"},
          deadline : BOOLEAN]

NoTree == [st |-> "none", kind |-> "gate", place |-> "tmp", asked |-> "", born |-> 0,
           deadline |-> TRUE]
SweeperDown == [up |-> FALSE, place |-> "none", asked |-> "", since |-> 0, next |-> 0, last |-> 0,
                failed |-> {}]

\* What LoadGatewayConfig makes of the file: the directory is read before the numbers, and a
\* mistake in one keeps what was read before it.
GatewayConfig ==
    CASE conf.kind = "ok"        -> [dir |-> conf.dir, deadline |-> conf.deadline]
      [] conf.kind = "badNumber" -> [dir |-> conf.dir, deadline |-> TRUE]
      [] OTHER                   -> [dir |-> "", deadline |-> TRUE]

\* Variant: a hook stages beside the repository it finds, in the linked layout inside _repos.
RootAsFound(root) == IF root = "_repos" THEN "inside" ELSE "beside"

\* The default directory for a repository found in `root`, which is the repositories' root or
\* the _repos in it.
DefaultDir(root) == "beside"

Wanted(dir, root) == IF dir = "" THEN DefaultDir(root) ELSE dir

\* ResolveScanTmpDirChecked: "none" is the empty string that stands for $TMPDIR.
Resolve(dir, root) == IF Wanted(dir, root) \in usable THEN Wanted(dir, root) ELSE "none"

ScanStagingInit ==
    /\ \E dir \in {"", "chosen"} : conf = [kind |-> "ok", dir |-> dir, deadline |-> TRUE]
    /\ usable \in {StagingPlaces, StagingPlaces \ {"chosen"}}
    /\ staged = [s \in Stagers |-> NoTree]
    /\ fallbacks = {}
    /\ sweeper = SweeperDown
    /\ tick = 0 /\ stagingEdits = 0 /\ stagingFaults = 0

StagingFault == /\ stagingFaults < MaxStagingFaults
                /\ stagingFaults' = stagingFaults + 1

-----------------------------------------------------------------------------
(* Who stages.                                                             *)

Stage(s, kind, root) ==
    LET dir == Resolve(GatewayConfig.dir, root)
    IN  /\ staged[s].st = "none"
        /\ staged' = [staged EXCEPT ![s] =
               [st |-> "held", kind |-> kind, place |-> IF dir = "none" THEN "tmp" ELSE dir,
                asked |-> GatewayConfig.dir, born |-> tick,
                deadline |-> kind = "gate" /\ GatewayConfig.deadline]]

\* The hook also records that it could not use the directory it was told to use; an append
\* that fails is ignored.
GateStages(s, root) ==
    LET fellBack == GatewayConfig.dir # "" /\ Resolve(GatewayConfig.dir, root) = "none"
    IN  /\ Stage(s, "gate", root)
        /\ \/ /\ fallbacks' = IF fellBack THEN fallbacks \cup {tick} ELSE fallbacks
              /\ UNCHANGED stagingFaults
           \/ fellBack /\ StagingFault /\ UNCHANGED fallbacks
        /\ UNCHANGED <<conf, usable, sweeper, tick, stagingEdits>>

\* ScanFirstPush after a first push, and the dashboard's preview of a linter: no record, no
\* deadline.
OtherStages(s, kind, root) ==
    /\ kind \in {"first", "preview"}
    /\ Stage(s, kind, root)
    /\ UNCHANGED <<conf, usable, fallbacks, sweeper, tick, stagingEdits, stagingFaults>>

\* The process is done and removes its tree, if it is there still.
Unstage(s) ==
    /\ staged[s].st \in {"held", "lost"}
    /\ staged' = [staged EXCEPT ![s] = [NoTree EXCEPT !.st = "gone"]]
    /\ UNCHANGED <<conf, usable, fallbacks, sweeper, tick, stagingEdits, stagingFaults>>

\* The process is killed first.
StagerDies(s) ==
    /\ staged[s].st = "held" /\ StagingFault
    /\ staged' = [staged EXCEPT ![s].st = "orphan"]
    /\ UNCHANGED <<conf, usable, fallbacks, sweeper, tick, stagingEdits>>

-----------------------------------------------------------------------------
(* The sweeper.                                                            *)

\* The dashboard starts: not when the file does not parse.  The loop is given the place to
\* sweep, "none" to skip that task.
SweeperStarts ==
    /\ ~sweeper.up /\ conf.kind # "broken"
    /\ sweeper' = [SweeperDown EXCEPT !.up = TRUE, !.since = tick, !.next = tick + SweepEvery,
                                      !.asked = GatewayConfig.dir,
                                      !.place = Resolve(GatewayConfig.dir, "root")]
    /\ UNCHANGED <<conf, usable, staged, fallbacks, tick, stagingEdits, stagingFaults>>

SweeperStops ==
    /\ sweeper.up /\ StagingFault
    /\ sweeper' = SweeperDown
    /\ UNCHANGED <<conf, usable, staged, fallbacks, tick, stagingEdits>>

\* Variant: the names of the gate's own trees only.
GateTreesOld == {s \in Stagers : /\ staged[s].st \in {"held", "orphan"}
                                 /\ staged[s].kind = "gate" /\ tick - staged[s].born >= 1}

\* What runTmpOrphanCleanup takes for an orphan: a name of the three kinds and its age.
Old == {s \in Stagers : staged[s].st \in {"held", "orphan"} /\ tick - staged[s].born >= 1}

\* A sweep runs its six tasks whatever becomes of each; one that fails may have failed in
\* part.  Only the third is about staged trees.
Sweep ==
    LET here == {s \in Old : staged[s].place = sweeper.place}
    IN  /\ sweeper.up /\ sweeper.next = tick
        /\ \E failed \in {{}, {"audit"}, {"orphans"}} :
              /\ IF failed = {} THEN UNCHANGED stagingFaults ELSE StagingFault
              /\ "orphans" \in failed => sweeper.place # "none"
              /\ \E removed \in IF "orphans" \in failed THEN SUBSET here ELSE {here} :
                    staged' = [s \in Stagers |->
                        IF s \notin removed THEN staged[s]
                        ELSE IF staged[s].st = "held" THEN [staged[s] EXCEPT !.st = "lost"]
                        ELSE [NoTree EXCEPT !.st = "gone"]]
              /\ sweeper' = [sweeper EXCEPT !.next = tick + SweepEvery, !.last = tick,
                                            !.failed = failed]
        /\ UNCHANGED <<conf, usable, fallbacks, tick, stagingEdits>>

-----------------------------------------------------------------------------
(* The operator and the clock.                                             *)

StagingEdit == /\ stagingEdits < MaxStagingEdits
               /\ stagingEdits' = stagingEdits + 1

EditGatewayConfig(c) ==
    /\ StagingEdit
    /\ conf' = c
    /\ UNCHANGED <<usable, staged, fallbacks, sweeper, tick, stagingFaults>>

ChangeRights(place) ==
    /\ StagingEdit
    /\ usable' = IF place \in usable THEN usable \ {place} ELSE usable \cup {place}
    /\ UNCHANGED <<conf, staged, fallbacks, sweeper, tick, stagingFaults>>

\* The sweep is on time, and scans with a deadline end.
Tick ==
    /\ tick < MaxTicks
    /\ sweeper.up => sweeper.next > tick
    /\ \A s \in Stagers : staged[s].st \in {"held", "lost"} => ~staged[s].deadline
    /\ tick' = tick + 1
    /\ UNCHANGED <<conf, usable, staged, fallbacks, sweeper, stagingEdits, stagingFaults>>

ScanStagingNext ==
    \/ \E s \in Stagers :
          \/ \E root \in {"root", "_repos"} :
                GateStages(s, root) \/ \E kind \in {"first", "preview"} : OtherStages(s, kind, root)
          \/ Unstage(s) \/ StagerDies(s)
    \/ SweeperStarts \/ SweeperStops \/ Sweep
    \/ \E c \in Confs : EditGatewayConfig(c)
    \/ \E place \in StagingPlaces : ChangeRights(place)
    \/ Tick

ScanStagingSpec == ScanStagingInit /\ [][ScanStagingNext]_stagingVars

ScanStagingTypeOK ==
    /\ conf \in Confs /\ usable \subseteq StagingPlaces
    /\ \A s \in Stagers : /\ staged[s].st \in {"none", "held", "orphan", "gone", "lost"}
                          /\ staged[s].place \in StagingPlaces \cup {"tmp"}
    /\ fallbacks \subseteq 0 .. MaxTicks /\ tick \in 0 .. MaxTicks
    /\ sweeper.failed \subseteq Tasks /\ sweeper.place \in StagingPlaces \cup {"none"}

-----------------------------------------------------------------------------
(* Properties.                                                             *)

\* The sweep removes what died, in time: a tree under scan is removed under it only when its
\* configuration had no deadline (tmporphans.go), and a tree whose process died is gone one
\* interval after it grew old, whoever staged it and in whichever layout; given that the
\* dashboard ran since (it waits an interval after each start), with the same directory
\* configured when it started, usable to both, and did not fail at the removal.
SweptInTime ==
    \A s \in Stagers :
        /\ staged[s].st = "lost" => ~staged[s].deadline
        /\ /\ staged[s].st = "orphan" /\ sweeper.up /\ sweeper.asked = staged[s].asked
           /\ staged[s].place # "tmp" /\ sweeper.place # "none"
           => \/ tick <= staged[s].born + 1 + SweepEvery
              \/ tick <= sweeper.since + SweepEvery
              \/ "orphans" \in sweeper.failed

=============================================================================
