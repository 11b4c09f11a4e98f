--------------------------- MODULE GateRelayProofs ---------------------------
(***************************************************************************)
(* Proofs about GateRelay for every set of pushes, refs and revisions, any *)
(* policy and any number of failures: the type invariant, NoBypass, and    *)
(* that the push path implements UpstreamMirror.                           *)
(***************************************************************************)
EXTENDS GateRelay, TLAPS

-----------------------------------------------------------------------------
(* The type invariant.                                                     *)

\* What the type proofs need of the constants.
LEMMA Constants == /\ Seed \in [Refs -> RevOrNone]
                   /\ Wanted \subseteq Updates
                   /\ Modes \subseteq {"off", "observe", "enforce"}
                   /\ MaxFaults \in Nat
                   /\ NoRev \in RevOrNone /\ Keep \in Cmd /\ NoRev \in Cmd
                   /\ RevOrNone \subseteq Cmd
                   /\ Pushes \subseteq Workers /\ Backstop \in Workers
                   /\ Heads \subseteq Refs
BY RelayAssumption DEF RevOrNone, Cmd, Workers, Refs

LEMMA NoNames == /\ Nothing \in Updates
                 /\ Named(Nothing) = {}
BY DEF Nothing, Updates, Cmd, RevOrNone, Named

LEMMA TypeInit == Init => TypeOK
BY NoNames, Constants DEF Init, TypeOK, PushState, RelayState, ReconState, NoJob, Idle, NoHeads,
      Unscanned, Workers, RevOrNone, Refs

LEMMA FaultType == ASSUME TypeOK, Fault \/ NoFault PROVE faults' \in 0 .. MaxFaults
BY Constants DEF TypeOK, Fault, NoFault

\* Replacing fields of one push, or of one call of Relay, by values of their type.
LEMMA PushUpdate ==
    ASSUME TypeOK, NEW p \in Pushes, NEW x \in PushState
    PROVE  [push EXCEPT ![p] = x] \in [Pushes -> PushState]
BY DEF TypeOK

LEMMA RelayUpdate ==
    ASSUME TypeOK, NEW w \in Workers, NEW x \in RelayState
    PROVE  [relay EXCEPT ![w] = x] \in [Workers -> RelayState]
BY DEF TypeOK

LEMMA GotoType ==
    ASSUME TypeOK, NEW p \in Pushes,
           NEW pc \in {"idle", "sent", "loaded", "accepted", "rejected", "updated",
                       "waiting", "done"},
           Goto(p, pc)
    PROVE  push' \in [Pushes -> PushState]
<1>1. push[p] \in PushState
  BY DEF TypeOK
<1>2. [push[p] EXCEPT !.pc = pc] \in PushState
  BY <1>1 DEF PushState
<1> QED BY <1>2, PushUpdate DEF Goto

LEMMA StType ==
    ASSUME TypeOK, NEW w \in Workers,
           NEW st \in {"none", "queued", "check", "ok", "failed"}
    PROVE  [relay EXCEPT ![w].st = st] \in [Workers -> RelayState]
<1>1. relay[w] \in RelayState
  BY DEF TypeOK
<1>2. [relay[w] EXCEPT !.st = st] \in RelayState
  BY <1>1 DEF RelayState
<1> QED BY <1>2, RelayUpdate

\* A call of Relay starts well typed.
LEMMA TypeCall == ASSUME TypeOK, NEW w \in Workers, NEW new \in Updates
                  PROVE  Call(w, new) \in [Workers -> RelayState]
<1>1. [st |-> "check", new |-> new, todo |-> Written(new)] \in RelayState
  BY DEF RelayState, Written
<1> QED BY <1>1, RelayUpdate DEF Call

\* Recording the outcome of a relay.
LEMMA TypeLog ==
    ASSUME TypeOK, NEW p \in Pushes, NEW kind \in {"ok", "failed"}, LogRelay(p, kind)
    PROVE  /\ lastPush' \in [kind : {"none", "ok", "failed"}, heads : BOOLEAN,
                              carried : Updates]
           /\ status' \in [have : BOOLEAN, ok : BOOLEAN, fresh : BOOLEAN]
           /\ recon' \in ReconState
<1>1. relay[p].new \in Updates
  BY Constants DEF TypeOK, RelayState
<1>2. HeadsOnly(relay[p].new) \in BOOLEAN
  BY DEF HeadsOnly
<1>3. lastPush' \in [kind : {"none", "ok", "failed"}, heads : BOOLEAN, carried : Updates]
  BY <1>1, <1>2 DEF LogRelay
<1> QED BY <1>3 DEF LogRelay, TypeOK, ReconState

\* A step of the gate or of a hook.
LEMMA TypeHook == ASSUME TypeOK, NEW p \in Pushes, HookStep(p) \/ HookDies(p)
                  PROVE  TypeOK'
<1>1. push[p] \in PushState /\ relay[p] \in RelayState /\ p \in Workers
  BY Constants DEF TypeOK
<1>2. CASE LoadPolicy(p)
  <2>1. [push[p] EXCEPT !.pc = "loaded", !.mode = mode] \in PushState
    BY <1>1, Constants DEF TypeOK, PushState
  <2>2. push' \in [Pushes -> PushState]
    BY <1>2, <2>1, PushUpdate, GotoType, ZenonT(60) DEF LoadPolicy
  <2> QED BY <1>2, <2>2, Constants DEF LoadPolicy, TypeOK, service, Fault, NoFault
<1>3. CASE PreReceive(p)
  <2>1. PICK failed \in SUBSET ToScan(p), pc \in {"accepted", "rejected"} :
           /\ IF failed = {} THEN NoFault ELSE Fault
           /\ push' = [push EXCEPT ![p] =
                         [push[p] EXCEPT !.scan = ScanOf(p, failed), !.pc = pc]]
    BY <1>3 DEF PreReceive
  <2>2. ScanOf(p, failed) \in [Refs -> {"unscanned", "clean", "block", "failed"}]
    BY DEF ScanOf
  <2>3. [push[p] EXCEPT !.scan = ScanOf(p, failed), !.pc = pc] \in PushState
    BY <1>1, <2>2 DEF PushState
  <2>4. push' \in [Pushes -> PushState]
    BY <2>1, <2>3, PushUpdate
  <2> QED BY <1>3, <2>1, <2>4, Constants DEF PreReceive, TypeOK, service, Fault, NoFault
<1>4. CASE GitUpdate(p)
  <2> DEFINE new == push[p].new
             moved == {r \in Named(new) : bare[r] = push[p].old[r]}
             job == [r \in Refs |-> IF r \in moved THEN new[r] ELSE Keep]
  <2>1. new \in Updates
    BY <1>1 DEF PushState
  <2>2. job \in Updates
    BY <2>1, Constants DEF Updates
  <2>3. \A r \in moved : new[r] \in RevOrNone
    BY <2>1 DEF Named, Updates, Cmd
  <2>4. bare' \in [Refs -> RevOrNone]
    <3> HIDE DEF moved
    <3>1. bare' = [r \in Refs |-> IF r \in moved THEN new[r] ELSE bare[r]]
      BY <1>4 DEF GitUpdate, moved
    <3> QED BY <2>3, <3>1 DEF TypeOK
  <2>5. relay' \in [Workers -> RelayState]
    <3> HIDE DEF job
    <3>1. relay' = [relay EXCEPT ![p].new = job]
      BY <1>4 DEF GitUpdate, job
    <3>2. [relay[p] EXCEPT !.new = job] \in RelayState
      BY <1>1, <2>2 DEF RelayState
    <3> QED BY <1>1, <3>1, <3>2, RelayUpdate
  <2>6. push' \in [Pushes -> PushState]
    BY <1>4, GotoType DEF GitUpdate
  <2> QED BY <1>4, <2>4, <2>5, <2>6 DEF GitUpdate, TypeOK
<1>5. CASE PostReceive(p)
  <2>1. push' \in [Pushes -> PushState]
    BY <1>5, GotoType DEF PostReceive
  <2>2. relay' \in [Workers -> RelayState]
    BY <1>1, <1>5, StType, ZenonT(60) DEF PostReceive, TypeOK, service
  <2> QED BY <1>5, <2>1, <2>2, TypeLog, Constants DEF PostReceive, TypeOK, service, Fault
<1>6. CASE HookReturns(p)
  <2>1. push' \in [Pushes -> PushState]
    BY <1>6, GotoType DEF HookReturns
  <2> QED BY <1>6, <2>1, TypeLog DEF HookReturns, TypeOK
<1>7. CASE HookDies(p)
  <2>1. push' \in [Pushes -> PushState]
    BY <1>7, GotoType DEF HookDies
  <2> QED BY <1>7, <2>1, Constants DEF HookDies, TypeOK, Fault, service
<1> QED BY <1>2, <1>3, <1>4, <1>5, <1>6, <1>7 DEF HookStep

\* A step of the relay service.
LEMMA TypeService ==
    ASSUME TypeOK,
           \/ \E p \in Pushes : Accept(p)
           \/ \E w \in Workers : RelayStep(w)
           \/ ReconStep \/ Serve \/ SvcCrash \/ SvcStart
    PROVE  TypeOK'
<1>1. ASSUME NEW p \in Pushes, Accept(p) PROVE TypeOK'
  <2>1. p \in Workers /\ relay[p].new \in Updates
    BY Constants DEF TypeOK, RelayState
  <2>2. relay' \in [Workers -> RelayState]
    <3>1. \/ relay' = Call(p, relay[p].new)
          \/ relay' = [relay EXCEPT ![p].st = "failed"]
      BY <1>1 DEF Accept
    <3>2. CASE relay' = Call(p, relay[p].new)
      BY <2>1, <3>2, TypeCall
    <3>3. CASE relay' = [relay EXCEPT ![p].st = "failed"]
      BY <2>1, <3>3, StType
    <3> QED BY <3>1, <3>2, <3>3
  <2> QED BY <1>1, <2>2, FaultType DEF Accept, gate, TypeOK
<1>2. ASSUME NEW w \in Workers, NEW r \in Refs, CheckRef(w, r) PROVE TypeOK'
  <2>1. relay[w] \in RelayState
    BY DEF TypeOK
  <2>2. /\ [relay[w] EXCEPT !.todo = relay[w].todo \ {r}] \in RelayState
        /\ [relay[w] EXCEPT !.st = "failed", !.todo = {}] \in RelayState
    BY <2>1 DEF RelayState
  <2>3. relay' \in [Workers -> RelayState]
    <3>1. CASE relay' = [relay EXCEPT ![w].todo = @ \ {r}]
      BY <2>2, <3>1, RelayUpdate
    <3>2. CASE relay' = [relay EXCEPT ![w] = [@ EXCEPT !.st = "failed", !.todo = {}]]
      BY <2>2, <3>2, RelayUpdate
    <3> QED BY <1>2, <3>1, <3>2 DEF CheckRef
  <2> QED BY <1>2, <2>3 DEF CheckRef, gate, TypeOK
<1>3. ASSUME NEW w \in Workers, GitPush(w) PROVE TypeOK'
  <2> DEFINE new == relay[w].new
  <2>1. new \in Updates
    BY DEF TypeOK, RelayState
  <2>2. \A r \in Lands(new) : new[r] \in RevOrNone
    BY <2>1 DEF Lands, Named, Updates, Cmd
  <2>3. After(new) \in [Refs -> RevOrNone]
    BY <2>2 DEF After, TypeOK
  <2>4. upstream' \in [Refs -> RevOrNone]
    BY <1>3, <2>3 DEF GitPush, TypeOK
  <2>5. relay' \in [Workers -> RelayState]
    BY <1>3, StType DEF GitPush
  <2> QED BY <1>3, <2>4, <2>5, Constants DEF GitPush, gate, TypeOK, Fault, NoFault
<1>4. Idle \in ReconState /\ NoJob \in RelayState
  BY NoNames, Constants DEF Idle, ReconState, NoHeads, NoJob, RelayState
<1>5. CASE ReadLocal
  <2>1. [r \in Heads |-> bare[r]] \in [Heads -> RevOrNone]
    BY Constants DEF TypeOK
  <2>2. recon' \in ReconState
    <3>1. CASE recon' = Idle
      BY <1>4, <3>1
    <3>2. CASE Finish(FALSE)
      BY <3>2 DEF Finish, ReconState, TypeOK
    <3>3. CASE recon' = [Idle EXCEPT !.pc = "remote", !.local = [r \in Heads |-> bare[r]]]
      BY <1>4, <2>1, <3>3 DEF ReconState
    <3> QED BY <1>5, <3>1, <3>2, <3>3 DEF ReadLocal
  <2>3. faults' \in 0 .. MaxFaults
    BY <1>5, FaultType DEF ReadLocal
  <2> QED BY <1>5, <2>2, <2>3 DEF ReadLocal, gate, TypeOK
<1>6. CASE ReadRemote
  <2>1. recon' \in ReconState
    BY <1>6 DEF ReadRemote, Finish, ReconState, TypeOK
  <2>2. Drift \in Updates
    BY Constants DEF Drift, ReconState, Updates, TypeOK
  <2>3. relay' \in [Workers -> RelayState]
    <3>1. relay' = relay \/ relay' = Call(Backstop, Drift)
      BY <1>6 DEF ReadRemote
    <3>2. CASE relay' = relay
      BY <3>2 DEF TypeOK
    <3> QED BY <2>2, <3>1, <3>2, Constants, TypeCall
  <2>4. faults' \in 0 .. MaxFaults
    BY <1>6, FaultType DEF ReadRemote
  <2> QED BY <1>6, <2>1, <2>3, <2>4 DEF ReadRemote, gate, TypeOK
<1>7. CASE Relayed
  <2>1. recon' \in ReconState
    BY <1>7 DEF Relayed, Finish, ReconState, TypeOK
  <2>2. relay' \in [Workers -> RelayState]
    BY <1>4, <1>7, Constants, RelayUpdate DEF Relayed
  <2> QED BY <1>7, <2>1, <2>2 DEF Relayed, gate, TypeOK
<1>8. CASE WriteStatus
  <2>1. status' \in [have : BOOLEAN, ok : BOOLEAN, fresh : BOOLEAN]
    <3>1. recon.ok \in BOOLEAN /\ recon.fresh \in BOOLEAN /\ status.fresh \in BOOLEAN
      BY DEF TypeOK, ReconState
    <3>2. PICK ok \in BOOLEAN, fresh \in BOOLEAN :
             status' = status \/ status' = [have |-> TRUE, ok |-> ok, fresh |-> fresh]
      BY <1>8, <3>1 DEF WriteStatus
    <3>3. status \in [have : BOOLEAN, ok : BOOLEAN, fresh : BOOLEAN]
      BY DEF TypeOK
    <3>4. CASE status' = status
      BY <3>3, <3>4
    <3>5. CASE status' = [have |-> TRUE, ok |-> ok, fresh |-> fresh]
      BY <3>5
    <3> QED BY <3>2, <3>4, <3>5
  <2> QED BY <1>4, <1>8, <2>1, FaultType DEF WriteStatus, gate, TypeOK
<1>9. CASE Serve
  BY <1>9 DEF Serve, gate, TypeOK
<1>10. CASE SvcStart
  <2>1. [Idle EXCEPT !.pc = "first"] \in ReconState
    BY <1>4 DEF ReconState
  <2> QED BY <1>10, <2>1 DEF SvcStart, gate, TypeOK
<1>11. CASE SvcCrash
  <2>1. \A w \in Workers : [relay[w] EXCEPT !.st = "failed", !.todo = {}] \in RelayState
    BY DEF RelayState, TypeOK
  <2>2. relay' \in [Workers -> RelayState]
    BY <1>4, <1>11, <2>1 DEF SvcCrash, TypeOK
  <2> QED BY <1>4, <1>11, <2>2, FaultType DEF SvcCrash, gate, TypeOK
<1> QED BY <1>1, <1>2, <1>3, <1>5, <1>6, <1>7, <1>8, <1>9, <1>10, <1>11
        DEF RelayStep, ReconStep

LEMMA TypeNext == TypeOK /\ [Next]_vars => TypeOK'
<1> SUFFICES ASSUME TypeOK, [Next]_vars PROVE TypeOK'
  OBVIOUS
<1>1. ASSUME NEW m \in Modes, SetMode(m) PROVE TypeOK'
  BY <1>1 DEF SetMode, TypeOK
<1>2. ASSUME NEW p \in Pushes, NEW new \in Wanted, Connect(p, new) PROVE TypeOK'
  <2>1. new \in Updates
    BY Constants
  <2>2. [r \in Refs |-> IF new[r] = Keep THEN Keep ELSE bare[r]] \in Updates
    BY Constants DEF TypeOK, Updates
  <2>3. push' \in [Pushes -> PushState]
    <3> DEFINE old == [r \in Refs |-> IF new[r] = Keep THEN Keep ELSE bare[r]]
    <3>1. push[p] \in PushState
      BY DEF TypeOK
    <3>2. [push[p] EXCEPT !.pc = "sent", !.old = old, !.new = new] \in PushState
      BY <2>1, <2>2, <3>1 DEF PushState
    <3> HIDE DEF old
    <3>3. push' = [push EXCEPT ![p] = [push[p] EXCEPT !.pc = "sent", !.old = old, !.new = new]]
      BY <1>2 DEF Connect, old
    <3> QED BY <3>2, <3>3, PushUpdate
  <2> QED BY <1>2, <2>3 DEF Connect, TypeOK, service
<1>3. CASE UNCHANGED vars
  BY <1>3 DEF vars, TypeOK
<1> QED BY <1>1, <1>2, <1>3, TypeHook, TypeService DEF Next

\* Every variable keeps its type, whatever processes interleave.
THEOREM TypeCorrect == Spec => []TypeOK
BY TypeInit, TypeNext, PTL DEF Spec

-----------------------------------------------------------------------------
(* No bypass.  The invariant follows a value along its way: a push that    *)
(* passed is cleared for every ref it names; a job carries only what its   *)
(* push asked for; the bare repository, the heads a pass has listed and    *)
(* the backstop's job hold only seeds and carried values.                  *)

Carried(r, v) == \E p \in Passed : /\ v # Keep
                                   /\ push[p].new[r] = v
                                   /\ Cleared(p, r)

PassedCleared == \A p \in Passed : \A r \in Named(push[p].new) : Cleared(p, r)

JobOfPush == \A p \in Pushes : \A r \in Named(relay[p].new) :
                p \in Passed /\ relay[p].new[r] = push[p].new[r]

BareCarried == \A r \in Refs : bare[r] # Seed[r] => Carried(r, bare[r])

ListedCarried == \A r \in Heads :
    recon.local[r] \notin {NoRev, Seed[r]} => Carried(r, recon.local[r])

BackstopCarried == \A r \in Named(relay[Backstop].new) :
    /\ relay[Backstop].new[r] # NoRev
    /\ relay[Backstop].new[r] # Seed[r] => Carried(r, relay[Backstop].new[r])

NoBypassInv == /\ TypeOK
               /\ PassedCleared /\ JobOfPush
               /\ BareCarried /\ ListedCarried /\ BackstopCarried
               /\ NoBypass

\* Decide answers for every ref of the push: an accepted update is cleared.
LEMMA DecideClears ==
    ASSUME TypeOK, NEW p \in Pushes, NEW failed \in SUBSET ToScan(p),
           Decide(p, ScanOf(p, failed)) \/ push[p].mode = "observe",
           NEW r \in Named(push[p].new)
    PROVE  \/ push[p].mode \in {"off", "observe"}
           \/ push[p].new[r] = NoRev /\ r \notin DeleteProtected
           \/ push[p].new[r] # NoRev /\ r \notin Gated
           \/ push[p].new[r] # NoRev /\ ScanOf(p, failed)[r] = "clean"
<1>1. r \in Refs
  BY DEF Named
<1>2. CASE push[p].mode \notin {"off", "observe"} /\ push[p].new[r] = NoRev
  BY <1>2 DEF Decide
<1>3. CASE push[p].mode \notin {"off", "observe"} /\ push[p].new[r] # NoRev /\ r \in Gated
  <2>1. r \in ToScan(p)
    BY <1>3 DEF ToScan, Written, Named
  <2>2. ScanOf(p, failed)[r] \notin {"block", "failed"}
    BY <1>1, <1>3 DEF Decide
  <2> QED BY <1>1, <1>3, <2>1, <2>2 DEF ScanOf
<1> QED BY <1>2, <1>3

\* Once a push has passed the gate nothing about it changes but its progress.
LEMMA PassedStays ==
    ASSUME TypeOK, [Next]_vars, NEW p \in Passed
    PROVE  /\ p \in Passed'
           /\ push[p].pc # "accepted" => push'[p].pc # "accepted"
           /\ push'[p].new = push[p].new
           /\ push'[p].mode = push[p].mode
           /\ push'[p].scan = push[p].scan
<1>1. /\ p \in Pushes /\ push \in [Pushes -> PushState]
      /\ push[p].pc \in {"accepted", "updated", "waiting", "done"}
  BY DEF TypeOK, Passed
<1>2. CASE push' = push
  BY <1>1, <1>2 DEF Passed
<1>3. ASSUME NEW q \in Pushes, NEW new \in Wanted, Connect(q, new)
      PROVE  push'[p] = push[p]
  BY <1>1, <1>3 DEF Connect, At
<1>4. ASSUME NEW q \in Pushes, HookStep(q) \/ HookDies(q), q # p
      PROVE  push'[p] = push[p]
  BY <1>1, <1>4 DEF HookStep, LoadPolicy, PreReceive, GitUpdate, PostReceive, HookReturns,
        HookDies, Goto
<1>5. ASSUME HookStep(p) \/ HookDies(p)
      PROVE  \E pc \in {"updated", "waiting", "done"} : push' = [push EXCEPT ![p].pc = pc]
  BY <1>1, <1>5 DEF HookStep, LoadPolicy, PreReceive, GitUpdate, PostReceive, HookReturns,
        HookDies, Goto, At
<1>6. CASE push'[p] = push[p]
  BY <1>1, <1>6 DEF Passed
<1>7. CASE \E pc \in {"updated", "waiting", "done"} : push' = [push EXCEPT ![p].pc = pc]
  <2>1. /\ push'[p].pc \in {"updated", "waiting", "done"}
        /\ push'[p].new = push[p].new
        /\ push'[p].mode = push[p].mode
        /\ push'[p].scan = push[p].scan
    BY <1>1, <1>7 DEF PushState
  <2> QED BY <1>1, <2>1 DEF Passed
<1>8. \/ push' = push
      \/ \E q \in Pushes : \/ \E new \in Wanted : Connect(q, new)
                           \/ HookStep(q) \/ HookDies(q)
  BY DEF Next, vars, SetMode, Accept, RelayStep, CheckRef, GitPush, ReconStep, ReadLocal,
        ReadRemote, Relayed, WriteStatus, Serve, SvcCrash, SvcStart, gate
<1> QED BY <1>2, <1>3, <1>4, <1>5, <1>6, <1>7, <1>8

LEMMA CarriedStays ==
    ASSUME TypeOK, [Next]_vars, NEW r, NEW v, Carried(r, v)
    PROVE  Carried(r, v)'
<1>1. PICK p \in Passed : v # Keep /\ push[p].new[r] = v /\ Cleared(p, r)
  BY DEF Carried
<1>2. p \in Passed' /\ push'[p].new[r] = v /\ Cleared(p, r)'
  BY <1>1, PassedStays DEF Cleared
<1> QED BY <1>1, <1>2 DEF Carried

\* Which steps touch which part of the state.
LEMMA Frames ==
    ASSUME TypeOK, [Next]_vars
    PROVE  /\ bare' = bare \/ \E p \in Pushes : GitUpdate(p)
           /\ upstream' = upstream \/ \E w \in Workers : GitPush(w)
           /\ recon'.local \in {recon.local, NoHeads} \/ ReadLocal
<1>1. bare' = bare \/ \E p \in Pushes : GitUpdate(p)
  BY ZenonT(60) DEF Next, vars, SetMode, Connect, HookStep, LoadPolicy, PreReceive,
        PostReceive, HookReturns, HookDies, Accept, RelayStep, CheckRef, GitPush,
        ReconStep, ReadLocal, ReadRemote, Relayed, WriteStatus, Serve, SvcCrash, SvcStart,
        gate
<1>2. upstream' = upstream \/ \E w \in Workers : GitPush(w)
  BY DEF Next, vars, SetMode, Connect, HookStep, LoadPolicy, PreReceive, GitUpdate,
        PostReceive, HookReturns, HookDies, Accept, RelayStep, CheckRef,
        ReconStep, ReadLocal, ReadRemote, Relayed, WriteStatus, Serve, SvcCrash, SvcStart
<1>3. recon \in ReconState
  BY DEF TypeOK
<1>4. ASSUME NEW pc, NEW ok, NEW b,
             \/ recon' = recon
             \/ recon' = [recon EXCEPT !.pc = pc]
             \/ recon' = [recon EXCEPT !.fresh = b]
             \/ recon' = [recon EXCEPT !.pc = pc, !.ok = ok, !.fresh = b]
      PROVE  recon'.local = recon.local
  BY <1>3, <1>4 DEF ReconState
<1>5. ASSUME ReconStep
      PROVE  recon'.local \in {recon.local, NoHeads} \/ ReadLocal
  <2>1. CASE ReadRemote
    BY <1>4, <2>1 DEF ReadRemote, Finish
  <2>2. CASE Relayed
    BY <1>4, <2>2 DEF Relayed, Finish
  <2>3. CASE WriteStatus
    BY <2>3 DEF WriteStatus, Idle
  <2> QED BY <1>5, <2>1, <2>2, <2>3 DEF ReconStep
<1>6. ASSUME NEW p \in Pushes, PostReceive(p) \/ HookReturns(p)
      PROVE  recon'.local = recon.local
  BY <1>4, <1>6 DEF PostReceive, HookReturns, LogRelay, service
<1>7. ASSUME SvcCrash \/ SvcStart
      PROVE  recon'.local = NoHeads
  <2>1. Idle.local = NoHeads /\ [Idle EXCEPT !.pc = "first"].local = NoHeads
    BY SMTT(30) DEF Idle
  <2> QED BY <1>7, <2>1 DEF SvcCrash, SvcStart
<1>8. recon'.local \in {recon.local, NoHeads} \/ ReadLocal
  BY <1>4, <1>5, <1>6, <1>7 DEF Next, vars, SetMode, Connect, HookStep, LoadPolicy,
        PreReceive, GitUpdate, HookDies, Accept, RelayStep, CheckRef, GitPush, Serve, service
<1> QED BY <1>1, <1>2, <1>8, SMTT(30)

\* A push passes only by an accepting PreReceive.
LEMMA Passing ==
    ASSUME TypeOK, [Next]_vars, NEW p \in Passed', p \notin Passed
    PROVE  /\ PreReceive(p)
           /\ push'[p].pc = "accepted"
<1>1. p \in Pushes /\ push \in [Pushes -> PushState]
  BY DEF Passed, TypeOK
<1>2. /\ push'[p].pc \in {"accepted", "updated", "waiting", "done"}
      /\ push[p].pc \notin {"accepted", "updated", "waiting", "done"}
  BY <1>1 DEF Passed
<1>3. PICK q \in Pushes : \/ \E new \in Wanted : Connect(q, new)
                          \/ HookStep(q) \/ HookDies(q)
  BY <1>2 DEF Next, vars, SetMode, Accept, RelayStep, CheckRef, GitPush, ReconStep, ReadLocal,
        ReadRemote, Relayed, WriteStatus, Serve, SvcCrash, SvcStart, gate
<1>4. q = p
  BY <1>1, <1>2, <1>3 DEF Connect, HookStep, LoadPolicy, PreReceive, GitUpdate, PostReceive,
        HookReturns, HookDies, Goto
<1>5. ASSUME NEW new \in Wanted, Connect(p, new)
      PROVE  FALSE
  <2>1. PICK old : push' = [push EXCEPT ![p] =
                               [@ EXCEPT !.pc = "sent", !.old = old, !.new = new]]
    BY <1>5 DEF Connect
  <2>2. push'[p].pc = "sent"
    BY <1>1, <2>1 DEF PushState
  <2> QED BY <1>2, <2>2
<1>6. ~ LoadPolicy(p)
  BY <1>1, <1>2 DEF LoadPolicy, Goto, PushState
<1>7. PreReceive(p)
  BY <1>2, <1>3, <1>4, <1>5, <1>6 DEF HookStep, GitUpdate, PostReceive, HookReturns,
        HookDies, At
<1>8. push'[p].pc \in {"accepted", "rejected"}
  BY <1>1, <1>7, SMTT(30) DEF PreReceive, PushState
<1> QED BY <1>2, <1>7, <1>8

\* What the jobs carry changes only when git has moved refs, or for the backstop.
LEMMA JobFrame ==
    ASSUME TypeOK, [Next]_vars, NEW w \in Workers
    PROVE  \/ relay'[w].new = relay[w].new
           \/ w \in Pushes /\ GitUpdate(w)
           \/ w = Backstop /\ relay'[w].new = Nothing
           \/ w = Backstop /\ relay'[w].new = Drift /\ ReadRemote
<1>1. relay \in [Workers -> RelayState] /\ Pushes \subseteq Workers
      /\ Backstop \in Workers /\ Backstop \notin Pushes
  BY Constants, RelayAssumption DEF TypeOK
<1>2. CASE relay' = relay
  BY <1>2
<1>3. ASSUME NEW q \in Workers, NEW x, relay' = [relay EXCEPT ![q].st = x]
      PROVE  relay'[w].new = relay[w].new
  BY <1>1, <1>3 DEF RelayState
<1>4. ASSUME NEW p \in Pushes, GitUpdate(p), p # w
      PROVE  relay'[w].new = relay[w].new
  BY <1>1, <1>4 DEF GitUpdate
<1>5. ASSUME NEW p \in Pushes, PostReceive(p) \/ Accept(p)
      PROVE  relay'[w].new = relay[w].new
  BY <1>1, <1>5 DEF PostReceive, Accept, Call, RelayState, service
<1>6. ASSUME NEW q \in Workers, RelayStep(q)
      PROVE  relay'[w].new = relay[w].new
  <2>1. CASE GitPush(q)
    <3>1. \E st : relay' = [relay EXCEPT ![q].st = st]
      BY <2>1 DEF GitPush
    <3> QED BY <1>3, <3>1
  <2>2. ASSUME NEW r \in Refs, CheckRef(q, r)
        PROVE  relay'[w].new = relay[w].new
    <3>1. CASE relay' = [relay EXCEPT ![q].todo = @ \ {r}]
      BY <1>1, <3>1 DEF RelayState
    <3>2. CASE relay' = [relay EXCEPT ![q] = [@ EXCEPT !.st = "failed", !.todo = {}]]
      BY <1>1, <3>2 DEF RelayState
    <3> QED BY <2>2, <3>1, <3>2 DEF CheckRef
  <2> QED BY <1>6, <2>1, <2>2 DEF RelayStep
<1>7. CASE SvcCrash
  BY <1>1, <1>7 DEF SvcCrash, NoJob, RelayState
<1>8. CASE ReconStep
  <2>1. CASE ReadRemote
    <3>1. CASE relay' = relay
      BY <3>1
    <3>2. CASE relay' = Call(Backstop, Drift)
      BY <1>1, <2>1, <3>2 DEF Call
    <3> QED BY <2>1, <3>1, <3>2 DEF ReadRemote
  <2>2. CASE Relayed
    BY <1>1, <2>2 DEF Relayed, NoJob
  <2> QED BY <1>8, <2>1, <2>2 DEF ReconStep, ReadLocal, WriteStatus
<1> QED BY <1>2, <1>4, <1>5, <1>6, <1>7, <1>8 DEF Next, vars, SetMode, Connect, HookStep,
       LoadPolicy, PreReceive, HookReturns, HookDies, Serve, SvcStart, service

LEMMA NoBypassInit == Init => NoBypassInv
<1> SUFFICES ASSUME Init PROVE NoBypassInv
  OBVIOUS
<1>1. TypeOK
  BY TypeInit
<1>2. Passed = {}
  BY DEF Passed, Init
<1>3. \A w \in Workers : Named(relay[w].new) = {}
  BY NoNames DEF Init, NoJob
<1>4. \A r \in Heads : recon.local[r] = NoRev
  BY DEF Init, Idle, NoHeads
<1> QED BY <1>1, <1>2, <1>3, <1>4, Constants
        DEF NoBypassInv, PassedCleared, JobOfPush, BareCarried, ListedCarried,
            BackstopCarried, NoBypass, Init

LEMMA NoBypassNext == NoBypassInv /\ [Next]_vars => NoBypassInv'
<1> SUFFICES ASSUME NoBypassInv, [Next]_vars PROVE NoBypassInv'
  OBVIOUS
<1>1. TypeOK /\ TypeOK'
  BY TypeNext DEF NoBypassInv
<1> DEFINE CarriedNext(r, v) == \E p \in Passed' : /\ v # Keep
                                                    /\ push'[p].new[r] = v
                                                    /\ Cleared(p, r)'
<1>2. \A r, v : Carried(r, v) => CarriedNext(r, v)
  <2> SUFFICES ASSUME NEW r, NEW v, Carried(r, v) PROVE CarriedNext(r, v)
    OBVIOUS
  <2>1. Carried(r, v)'
    BY <1>1, CarriedStays
  <2> QED BY <2>1 DEF Carried
<1> HIDE DEF CarriedNext
<1>3. PassedCleared'
  <2> SUFFICES ASSUME NEW p \in Passed', NEW r \in Named(push'[p].new)
               PROVE  Cleared(p, r)'
    BY DEF PassedCleared
  <2>1. CASE p \in Passed
    <3>1. Cleared(p, r)
      BY <1>1, <2>1, PassedStays DEF NoBypassInv, PassedCleared
    <3> QED BY <1>1, <2>1, <3>1, PassedStays DEF Cleared
  <2>2. CASE p \notin Passed
    <3>1. PreReceive(p) /\ push'[p].pc = "accepted" /\ p \in Pushes
          /\ push \in [Pushes -> PushState]
      BY <1>1, <2>2, Passing DEF Passed, TypeOK
    <3>2. PICK failed \in SUBSET ToScan(p) :
             push' = [push EXCEPT ![p] =
                        [push[p] EXCEPT !.scan = ScanOf(p, failed),
                           !.pc = IF Decide(p, ScanOf(p, failed)) \/ push[p].mode = "observe"
                                  THEN "accepted" ELSE "rejected"]]
      BY <3>1 DEF PreReceive
    <3>3. /\ push'[p].new = push[p].new
          /\ push'[p].mode = push[p].mode
          /\ push'[p].scan = ScanOf(p, failed)
          /\ push'[p].pc = IF Decide(p, ScanOf(p, failed)) \/ push[p].mode = "observe"
                           THEN "accepted" ELSE "rejected"
      BY <3>1, <3>2 DEF PushState
    <3>4. Decide(p, ScanOf(p, failed)) \/ push[p].mode = "observe"
      BY <3>1, <3>3
    <3>5. \/ push[p].mode \in {"off", "observe"}
          \/ push[p].new[r] = NoRev /\ r \notin DeleteProtected
          \/ push[p].new[r] # NoRev /\ r \notin Gated
          \/ push[p].new[r] # NoRev /\ ScanOf(p, failed)[r] = "clean"
      BY <1>1, <3>1, <3>3, <3>4, DecideClears
    <3> QED BY <3>3, <3>5 DEF Cleared
  <2> QED BY <2>1, <2>2
<1>4. JobOfPush'
  <2> SUFFICES ASSUME NEW p \in Pushes, NEW r \in Named(relay'[p].new)
               PROVE  p \in Passed' /\ relay'[p].new[r] = push'[p].new[r]
    BY DEF JobOfPush
  <2>1. CASE relay'[p].new = relay[p].new
    BY <1>1, <2>1, PassedStays DEF NoBypassInv, JobOfPush
  <2>2. CASE GitUpdate(p)
    <3>1. p \in Passed
      BY <2>2 DEF GitUpdate, At, Passed
    <3>2. relay'[p].new[r] = push[p].new[r]
      <4>1. relay \in [Workers -> RelayState] /\ p \in Workers /\ r \in Refs
        BY <1>1, Constants DEF TypeOK, Named
      <4>2. relay'[p].new[r] \in {Keep, push[p].new[r]}
        BY <2>2, <4>1 DEF GitUpdate, RelayState
      <4> QED BY <4>2 DEF Named
    <3> QED BY <1>1, <3>1, <3>2, PassedStays
  <2> QED BY <1>1, <2>1, <2>2, JobFrame, Constants, RelayAssumption
<1>5. \A p \in Passed, r \in Refs : push[p].new[r] # Keep => Carried(r, push[p].new[r])
  BY DEF NoBypassInv, PassedCleared, Carried, Named
<1>6. BareCarried'
  <2>1. CASE bare' = bare
    BY <1>2, <2>1 DEF NoBypassInv, BareCarried, Carried, CarriedNext
  <2>2. ASSUME NEW p \in Pushes, GitUpdate(p) PROVE BareCarried'
    <3> SUFFICES ASSUME NEW r \in Refs, bare'[r] # Seed[r]
                 PROVE  CarriedNext(r, bare'[r])
      BY DEF BareCarried, Carried, CarriedNext
    <3>1. p \in Passed
      BY <2>2 DEF GitUpdate, At, Passed
    <3>2. \/ bare'[r] = bare[r]
          \/ bare'[r] = push[p].new[r] /\ push[p].new[r] # Keep
      BY <2>2 DEF GitUpdate, Named
    <3> QED BY <1>2, <1>5, <3>1, <3>2 DEF NoBypassInv, BareCarried
  <2> QED BY <1>1, <2>1, <2>2, Frames
<1>7. ListedCarried'
  <2> SUFFICES ASSUME NEW r \in Heads, recon'.local[r] \notin {NoRev, Seed[r]}
               PROVE  CarriedNext(r, recon'.local[r])
    BY DEF ListedCarried, Carried, CarriedNext
  <2>1. CASE recon'.local = recon.local
    BY <1>2, <2>1 DEF NoBypassInv, ListedCarried
  <2>2. CASE recon'.local = NoHeads
    BY <2>2 DEF NoHeads
  <2>3. CASE ReadLocal
    <3>1. CASE recon' = Idle
      BY <3>1 DEF Idle, NoHeads
    <3>2. CASE Finish(FALSE)
      <4>1. recon'.local = recon.local
        BY <3>2 DEF Finish, ReconState, TypeOK
      <4> QED BY <1>2, <4>1 DEF NoBypassInv, ListedCarried
    <3>3. CASE recon' = [Idle EXCEPT !.pc = "remote", !.local = [x \in Heads |-> bare[x]]]
      <4>1. recon'.local = [x \in Heads |-> bare[x]]
        BY <3>3 DEF Idle
      <4> QED BY <1>2, <4>1, Constants DEF NoBypassInv, BareCarried
    <3> QED BY <2>3, <3>1, <3>2, <3>3 DEF ReadLocal
  <2> QED BY <1>1, <2>1, <2>2, <2>3, Frames
<1>8. BackstopCarried'
  <2> SUFFICES ASSUME NEW r \in Named(relay'[Backstop].new)
               PROVE  /\ relay'[Backstop].new[r] # NoRev
                      /\ relay'[Backstop].new[r] # Seed[r]
                            => CarriedNext(r, relay'[Backstop].new[r])
    BY DEF BackstopCarried, Carried, CarriedNext
  <2>1. CASE relay'[Backstop].new = relay[Backstop].new
    BY <1>2, <2>1 DEF NoBypassInv, BackstopCarried
  <2>2. CASE relay'[Backstop].new = Nothing
    BY <2>2, NoNames
  <2>3. CASE relay'[Backstop].new = Drift
    <3>1. r \in Heads /\ relay'[Backstop].new[r] = recon.local[r]
          /\ recon.local[r] # NoRev
      BY <2>3 DEF Named, Drift
    <3> QED BY <1>2, <3>1 DEF NoBypassInv, ListedCarried
  <2> QED BY <1>1, <2>1, <2>2, <2>3, JobFrame, Constants, RelayAssumption
<1>9. NoBypass'
  <2> SUFFICES ASSUME NEW r \in Refs, upstream'[r] # Seed[r]
               PROVE  CarriedNext(r, upstream'[r])
    BY DEF NoBypass, CarriedNext
  <2>1. ASSUME upstream'[r] = upstream[r] PROVE CarriedNext(r, upstream'[r])
    <3>1. upstream[r] # Keep
      BY <1>1, RelayAssumption DEF TypeOK
    <3> QED BY <1>2, <2>1, <3>1 DEF NoBypassInv, NoBypass, Carried
  <2>2. ASSUME NEW w \in Workers, GitPush(w), upstream'[r] # upstream[r]
        PROVE  CarriedNext(r, upstream'[r])
    <3>1. upstream'[r] = relay[w].new[r] /\ r \in Named(relay[w].new)
      BY <2>2 DEF GitPush, After, Lands
    <3>2. CASE w = Backstop
      BY <1>2, <3>1, <3>2 DEF NoBypassInv, BackstopCarried
    <3>3. CASE w \in Pushes
      BY <1>2, <1>5, <3>1, <3>3 DEF NoBypassInv, JobOfPush, Named
    <3> QED BY <3>2, <3>3 DEF Workers
  <2> QED BY <1>1, <2>1, <2>2, Frames
<1> QED BY <1>1, <1>3, <1>4, <1>6, <1>7, <1>8, <1>9 DEF NoBypassInv

LEMMA NoBypassInductive == Spec => []NoBypassInv
BY NoBypassInit, NoBypassNext, PTL DEF Spec

\* For every set of concurrent pushes, every policy and every pattern of failures,
\* crashes and backstop passes, the upstream holds only seeds and what a push carried
\* through the gate.
THEOREM NoBypassCorrect == Spec => []NoBypass
<1>1. NoBypassInv => NoBypass
  BY DEF NoBypassInv
<1> QED BY <1>1, NoBypassInductive, PTL

-----------------------------------------------------------------------------
(* The push path implements UpstreamMirror.                                *)

LEMMA AcceptedType == TypeOK => AcceptedUpdates \subseteq Refs \X RevOrNone
<1> SUFFICES ASSUME TypeOK, NEW u \in AcceptedUpdates PROVE u \in Refs \X RevOrNone
  OBVIOUS
<1>1. CASE \E r \in Refs : u = <<r, Seed[r]>>
  BY <1>1, Constants
<1>2. CASE \E p \in Passed : \E r \in Named(push[p].new) : u = <<r, push[p].new[r]>>
  <2>1. PICK p \in Passed, r \in Refs :
           r \in Named(push[p].new) /\ u = <<r, push[p].new[r]>>
    BY <1>2 DEF Named
  <2>2. push[p].new \in Updates
    BY DEF TypeOK, Passed, PushState
  <2> QED BY <2>1, <2>2 DEF Named, Updates, Cmd
<1> QED BY <1>1, <1>2 DEF AcceptedUpdates

\* What the gate has accepted stays accepted.
LEMMA AcceptedGrows == TypeOK /\ [Next]_vars => AcceptedUpdates \subseteq AcceptedUpdates'
<1> SUFFICES ASSUME TypeOK, [Next]_vars, NEW u \in AcceptedUpdates
             PROVE  u \in AcceptedUpdates'
  OBVIOUS
<1>1. CASE u \in {<<r, Seed[r]>> : r \in {x \in Refs : Seed[x] # NoRev}}
  BY <1>1 DEF AcceptedUpdates
<1>2. CASE \E p \in Passed : \E r \in Named(push[p].new) : u = <<r, push[p].new[r]>>
  <2>1. PICK p \in Passed, r \in Refs :
           r \in Named(push[p].new) /\ u = <<r, push[p].new[r]>>
    BY <1>2 DEF Named
  <2>2. p \in Passed' /\ push'[p].new = push[p].new
    BY <2>1, PassedStays
  <2>3. r \in Named(push'[p].new)
    BY <2>1, <2>2
  <2> QED BY <2>1, <2>2, <2>3 DEF AcceptedUpdates
<1> QED BY <1>1, <1>2 DEF AcceptedUpdates

LEMMA SameAdvances == \A r, a, b : Advances(r, a, b) <=> Mirror!Advances(r, a, b)
BY DEF Advances, Mirror!Advances

\* A git push of the relay delivers accepted values and never forces a ref.
LEMMA PushDelivers ==
    ASSUME NoBypassInv, [Next]_vars, NEW w \in Workers, GitPush(w)
    PROVE  Mirror!Deliver
<1>1. TypeOK /\ upstream' \in [Refs -> RevOrNone]
  BY TypeNext DEF NoBypassInv, TypeOK
<1>2. AcceptedUpdates' = AcceptedUpdates
  BY DEF GitPush, gate, AcceptedUpdates, Passed
<1>3. ASSUME NEW r \in Refs, upstream'[r] # upstream[r]
      PROVE  <<r, upstream'[r]>> \in AcceptedUpdates /\ Advances(r, upstream[r], upstream'[r])
  <2>1. /\ upstream'[r] = relay[w].new[r]
        /\ r \in Lands(relay[w].new) /\ r \in Named(relay[w].new)
    BY <1>3 DEF GitPush, After, Lands
  <2>2. Advances(r, upstream[r], upstream'[r])
    BY <2>1 DEF Lands
  <2>3. CASE w \in Pushes
    <3>1. w \in Passed /\ relay[w].new[r] = push[w].new[r]
      BY <2>1, <2>3 DEF NoBypassInv, JobOfPush
    <3>2. r \in Named(push[w].new)
      BY <2>1, <3>1 DEF Named
    <3> QED BY <2>1, <2>2, <3>1, <3>2 DEF AcceptedUpdates
  <2>4. CASE w = Backstop
    <3>1. /\ relay[w].new[r] # NoRev
          /\ relay[w].new[r] = Seed[r] \/ Carried(r, relay[w].new[r])
      BY <2>1, <2>4 DEF NoBypassInv, BackstopCarried
    <3>2. CASE relay[w].new[r] = Seed[r]
      BY <2>1, <2>2, <3>1, <3>2 DEF AcceptedUpdates
    <3>3. CASE Carried(r, relay[w].new[r])
      <4>1. PICK p \in Passed : relay[w].new[r] # Keep /\ push[p].new[r] = relay[w].new[r]
        BY <3>3 DEF Carried
      <4>2. r \in Named(push[p].new)
        BY <4>1 DEF Named
      <4> QED BY <2>1, <2>2, <4>1, <4>2 DEF AcceptedUpdates
    <3> QED BY <3>1, <3>2, <3>3
  <2> QED BY <2>3, <2>4 DEF Workers
<1> QED BY <1>1, <1>2, <1>3, SameAdvances
        DEF Mirror!Deliver, Mirror!Refs, Refs, RevOrNone

LEMMA MirrorInit == Init => Mirror!Init
<1> SUFFICES ASSUME Init PROVE Mirror!Init
  OBVIOUS
<1>1. Passed = {}
  BY DEF Init, Passed
<1> QED BY <1>1 DEF Init, Mirror!Init, Mirror!Refs, Refs, AcceptedUpdates

LEMMA MirrorNext == NoBypassInv /\ [Next]_vars => [Mirror!Next]_(Mirror!vars)
<1> SUFFICES ASSUME NoBypassInv, [Next]_vars
             PROVE  Mirror!Next
  BY DEF Mirror!vars
<1>1. TypeOK /\ TypeOK'
  BY TypeNext DEF NoBypassInv
<1>2. CASE \E w \in Workers : GitPush(w)
  BY <1>2, PushDelivers DEF Mirror!Next
<1>3. CASE upstream' = upstream
  <2>1. AcceptedUpdates' = AcceptedUpdates \cup AcceptedUpdates'
    BY <1>1, AcceptedGrows
  <2>2. AcceptedUpdates' \in SUBSET (Refs \X RevOrNone)
    <3>1. TypeOK' => (AcceptedUpdates \subseteq Refs \X RevOrNone)'
      BY AcceptedType, PTL
    <3> QED BY <1>1, <3>1
  <2>3. Mirror!Accept(AcceptedUpdates')
    BY <1>3, <2>1 DEF Mirror!Accept
  <2> QED BY <2>2, <2>3 DEF Mirror!Next, Mirror!Refs, Refs, RevOrNone
<1> QED BY <1>1, <1>2, <1>3, Frames

\* Seen from the upstream the whole push path, backstop and crashes included, is a
\* mirror that takes over accepted values only, without rewinding a branch or moving
\* a tag, and drops a ref only after its delete was accepted.
THEOREM ImplementsMirror == Spec => MirrorSpec
<1>1. NoBypassInv /\ [Next]_vars => [Mirror!Next]_(Mirror!vars)
  BY MirrorNext
<1> QED BY <1>1, MirrorInit, NoBypassInductive, PTL DEF Spec, MirrorSpec, Mirror!Spec

-----------------------------------------------------------------------------
(* What a step may never do to the upstream.                               *)

LEMMA PushedValue ==
    ASSUME TypeOK, NEW w \in Workers, GitPush(w), NEW r \in Refs, upstream'[r] # upstream[r]
    PROVE  /\ upstream'[r] = relay[w].new[r] /\ r \in Named(relay[w].new)
           /\ Advances(r, upstream[r], upstream'[r])
           /\ relay[w].st = "check" /\ relay'[w].st # "check"
<1>1. /\ upstream'[r] = relay[w].new[r]
      /\ r \in Lands(relay[w].new) /\ r \in Named(relay[w].new)
  BY DEF GitPush, After, Lands
<1>2. Advances(r, upstream[r], upstream'[r])
  BY <1>1 DEF Lands
<1>3. \E st \in {"ok", "failed"} : relay' = [relay EXCEPT ![w].st = st]
  BY DEF GitPush
<1>4. relay[w].st = "check" /\ relay'[w].st # "check"
  BY <1>3 DEF GitPush, TypeOK, RelayState
<1> QED BY <1>1, <1>2, <1>4

\* The backstop is forward-only: only a push that deleted a ref removes it upstream.
THEOREM OnlyPushesDeleteCorrect == Spec => OnlyPushesDelete
<1>1. NoBypassInv /\ [Next]_vars
         => [\A r \in Refs : upstream[r] # NoRev /\ upstream'[r] = NoRev =>
                \E p \in Pushes : /\ relay[p].st = "check" /\ relay'[p].st # "check"
                                  /\ relay[p].new[r] = NoRev]_upstream
  <2> SUFFICES ASSUME NoBypassInv, [Next]_vars, upstream' # upstream, NEW r \in Refs,
                      upstream[r] # NoRev, upstream'[r] = NoRev
               PROVE  \E p \in Pushes : /\ relay[p].st = "check" /\ relay'[p].st # "check"
                                        /\ relay[p].new[r] = NoRev
    OBVIOUS
  <2>1. PICK w \in Workers : GitPush(w)
    BY Frames DEF NoBypassInv
  <2>2. /\ relay[w].new[r] = NoRev /\ r \in Named(relay[w].new)
        /\ relay[w].st = "check" /\ relay'[w].st # "check"
    BY <2>1, PushedValue DEF NoBypassInv
  <2>3. w # Backstop
    BY <2>2 DEF NoBypassInv, BackstopCarried
  <2> QED BY <2>2, <2>3 DEF Workers
<1> QED BY <1>1, NoBypassInductive, PTL DEF Spec, OnlyPushesDelete

-----------------------------------------------------------------------------
(* What is reported as delivered was delivered.  Once the upstream has     *)
(* received a value it keeps it, or a push deletes the ref; so it is       *)
(* enough that a job ends well only when its whole batch landed, and that  *)
(* a pass ends well only when nothing it listed was missing.               *)

Has(r, v) == Contains(r, upstream[r], v) \/ Deleted(r)
Delivered(new) == \A r \in Written(new) : Has(r, new[r])

\* A job starts when git has moved the refs; until then it has no outcome.
JobsStart == \A p \in Pushes :
    push[p].pc \in {"idle", "sent", "loaded", "accepted", "rejected"} => relay[p].st = "none"

JobsDelivered == \A w \in Workers : relay[w].st = "ok" => Delivered(relay[w].new)

\* While the backstop relays: what it listed is in its job or already there.
PassCovers == recon.pc = "relay" =>
    \A r \in Heads : recon.local[r] # NoRev =>
       relay[Backstop].new[r] = recon.local[r] \/ Has(r, recon.local[r])

DeliveryInv == /\ NoBypassInv
               /\ JobsStart /\ JobsDelivered /\ PassCovers
               /\ OkMeansDelivered /\ CleanPassDelivered

LEMMA DeletedStays ==
    ASSUME TypeOK, [Next]_vars, NEW r, Deleted(r)
    PROVE  Deleted(r)'
<1>1. PICK p \in Passed : push[p].new[r] = NoRev
  BY DEF Deleted
<1> QED BY <1>1, PassedStays DEF Deleted

\* A ref moves forward or is deleted by a push that passed.
LEMMA UpstreamMoves ==
    ASSUME NoBypassInv, [Next]_vars, NEW r \in Refs, upstream'[r] # upstream[r]
    PROVE  /\ Advances(r, upstream[r], upstream'[r])
           /\ upstream'[r] = NoRev => Deleted(r)
<1>1. PICK w \in Workers : GitPush(w)
  BY Frames DEF NoBypassInv
<1>2. /\ upstream'[r] = relay[w].new[r] /\ r \in Named(relay[w].new)
      /\ Advances(r, upstream[r], upstream'[r])
  BY <1>1, PushedValue DEF NoBypassInv
<1>3. ASSUME upstream'[r] = NoRev
      PROVE  Deleted(r)
  <2>1. w # Backstop
    BY <1>2, <1>3 DEF NoBypassInv, BackstopCarried
  <2> QED BY <1>2, <1>3, <2>1 DEF NoBypassInv, JobOfPush, Workers, Deleted
<1> QED BY <1>2, <1>3

LEMMA HasStays ==
    ASSUME NoBypassInv, [Next]_vars, NEW r \in Refs, NEW v \in Revs, Has(r, v)
    PROVE  Has(r, v)'
<1>1. TypeOK /\ upstream[r] \in RevOrNone /\ upstream' \in [Refs -> RevOrNone]
  BY TypeNext DEF NoBypassInv, TypeOK
<1>2. CASE Deleted(r)
  BY <1>1, <1>2, DeletedStays DEF Has
<1>3. CASE Contains(r, upstream[r], v) /\ upstream'[r] = upstream[r]
  BY <1>3 DEF Has, Contains, Advances
<1>4. CASE Contains(r, upstream[r], v) /\ upstream'[r] # upstream[r]
  <2>1. CASE upstream'[r] = NoRev
    BY <1>1, <1>4, <2>1, UpstreamMoves, DeletedStays DEF Has
  <2>2. CASE upstream'[r] # NoRev
    <3>1. /\ upstream[r] # NoRev
          /\ Advances(r, v, upstream[r]) /\ Advances(r, upstream[r], upstream'[r])
      BY <1>4, UpstreamMoves DEF Contains
    <3>2. {v, upstream[r], upstream'[r]} \subseteq Revs /\ NoRev \notin Revs
      BY <1>1, <2>2, <3>1, RelayAssumption DEF RevOrNone
    <3>3. Advances(r, v, upstream'[r])
      BY <3>1, <3>2, RelayAssumption DEF Advances
    <3> QED BY <2>2, <3>3 DEF Has, Contains
  <2> QED BY <2>1, <2>2
<1> QED BY <1>2, <1>3, <1>4 DEF Has

LEMMA WrittenRevs ==
    ASSUME NEW new \in Updates, NEW r \in Written(new)
    PROVE  r \in Refs /\ new[r] \in Revs
BY RelayAssumption DEF Written, Updates, Cmd, RevOrNone

LEMMA DeliveredStays ==
    ASSUME NoBypassInv, [Next]_vars, NEW new \in Updates, Delivered(new)
    PROVE  Delivered(new)'
BY WrittenRevs, HasStays DEF Delivered

\* A batch that got through whole is at the upstream.
LEMMA PushDeliversAll ==
    ASSUME TypeOK, NEW w \in Workers, GitPush(w), relay'[w].st = "ok",
           NEW new, new = relay[w].new
    PROVE  Delivered(new)'
<1>1. relay[w] \in RelayState
  BY DEF TypeOK
<1>2. upstream' = After(new) /\ AllLanded(new)
  BY <1>1 DEF GitPush, RelayState, TypeOK
<1>3. ASSUME NEW r \in Written(new)
      PROVE  Contains(r, upstream'[r], new[r])
  <2>1. r \in Refs /\ new[r] # NoRev /\ r \in Named(new)
    BY DEF Written, Named
  <2>2. upstream'[r] = new[r]
    BY <1>2, <2>1 DEF After, AllLanded
  <2> QED BY <2>1, <2>2 DEF Contains, Advances
<1> QED BY <1>3 DEF Delivered, Has, Contains, Written

\* Which steps give a job an outcome, or start one.
LEMMA JobOutcome ==
    ASSUME TypeOK, [Next]_vars, NEW w \in Workers
    PROVE  /\ relay'[w].st = "ok" /\ relay[w].st # "ok" => GitPush(w)
           /\ relay'[w].st # "none" /\ relay[w].st = "none" =>
                 (w \in Pushes /\ PostReceive(w)) \/ w = Backstop
<1>1. relay \in [Workers -> RelayState] /\ Pushes \subseteq Workers
      /\ Backstop \in Workers /\ Backstop \notin Pushes
  BY Constants, RelayAssumption DEF TypeOK
<1>2. CASE relay'[w].st = relay[w].st
  BY <1>2
<1>3. ASSUME NEW p \in Pushes, GitUpdate(p)
      PROVE  relay'[w].st = relay[w].st
  BY <1>1, <1>3 DEF GitUpdate, RelayState
<1>4. ASSUME NEW p \in Pushes, PostReceive(p)
      PROVE  IF w = p THEN relay'[w].st \in {relay[w].st, "queued"} ELSE relay'[w] = relay[w]
  <2>1. relay' = relay \/ relay' = [relay EXCEPT ![p].st = "queued"]
    BY <1>4 DEF PostReceive, service
  <2> QED BY <1>1, <2>1 DEF RelayState
<1>5. ASSUME NEW p \in Pushes, Accept(p)
      PROVE  IF w = p THEN relay[w].st = "queued" /\ relay'[w].st \in {"check", "failed"}
             ELSE relay'[w] = relay[w]
  <2>1. /\ relay[p].st = "queued"
        /\ \/ relay' = Call(p, relay[p].new)
           \/ relay' = [relay EXCEPT ![p].st = "failed"]
    BY <1>5 DEF Accept
  <2> QED BY <1>1, <2>1 DEF Call, RelayState
<1>6. ASSUME NEW q \in Workers, NEW r \in Refs, CheckRef(q, r)
      PROVE  IF w = q THEN relay[w].st = "check" /\ relay'[w].st \in {"check", "failed"}
             ELSE relay'[w] = relay[w]
  <2>1. /\ relay[q].st = "check"
        /\ \/ relay' = [relay EXCEPT ![q].todo = @ \ {r}]
           \/ relay' = [relay EXCEPT ![q] = [@ EXCEPT !.st = "failed", !.todo = {}]]
    BY <1>6 DEF CheckRef
  <2> QED BY <1>1, <2>1 DEF RelayState
<1>7. ASSUME NEW q \in Workers, GitPush(q)
      PROVE  IF w = q THEN relay[w].st = "check" ELSE relay'[w] = relay[w]
  <2>1. relay[q].st = "check" /\ \E st : relay' = [relay EXCEPT ![q].st = st]
    BY <1>7 DEF GitPush
  <2> QED BY <1>1, <2>1 DEF RelayState
<1>8. CASE SvcCrash
  <2>1. relay'[w] = IF w = Backstop THEN NoJob
                    ELSE IF relay[w].st \in {"queued", "check"}
                         THEN [relay[w] EXCEPT !.st = "failed", !.todo = {}]
                         ELSE relay[w]
    BY <1>8, Zenon DEF SvcCrash
  <2>2. NoJob.st = "none" /\ [relay[w] EXCEPT !.st = "failed", !.todo = {}].st = "failed"
    BY <1>1 DEF NoJob, RelayState
  <2> QED BY <2>1, <2>2
<1>9. CASE ReconStep
  <2>1. relay' = relay \/ relay' = Call(Backstop, Drift)
        \/ relay' = [relay EXCEPT ![Backstop] = NoJob]
    BY <1>9 DEF ReconStep, ReadLocal, ReadRemote, Relayed, WriteStatus
  <2>2. IF w = Backstop THEN relay'[w] = relay[w] \/ relay'[w].st \in {"check", "none"}
        ELSE relay'[w] = relay[w]
    BY <1>1, <2>1 DEF Call, NoJob
  <2> QED BY <2>2
<1>10. CASE relay' = relay
  BY <1>10
<1>11. \/ relay' = relay \/ SvcCrash \/ ReconStep
       \/ \E p \in Pushes : GitUpdate(p) \/ PostReceive(p) \/ Accept(p)
       \/ \E q \in Workers : GitPush(q) \/ \E r \in Refs : CheckRef(q, r)
  BY ZenonT(60) DEF Next, vars, SetMode, Connect, HookStep, LoadPolicy, PreReceive,
        HookReturns, HookDies, RelayStep, Serve, SvcStart, service
<1> QED BY <1>1, <1>2, <1>3, <1>4, <1>5, <1>6, <1>7, <1>8, <1>9, <1>10, <1>11

LEMMA JobsStartNext ==
    ASSUME TypeOK, TypeOK', JobsStart, [Next]_vars
    PROVE  JobsStart'
<1>1. SUFFICES ASSUME NEW p \in Pushes,
                      push'[p].pc \in {"idle", "sent", "loaded", "accepted", "rejected"}
               PROVE  relay'[p].st = "none"
  BY DEF JobsStart
<1>2. push[p].pc \in {"idle", "sent", "loaded", "accepted", "rejected"}
  <2>1. push[p].pc \in {"idle", "sent", "loaded", "accepted", "rejected", "updated", "waiting",
                        "done"}
    BY DEF TypeOK, PushState
  <2> QED BY <1>1, <2>1, PassedStays DEF Passed
<1>3. relay[p].st = "none" /\ ~PostReceive(p)
  BY <1>2 DEF JobsStart, PostReceive, At
<1>4. p \in Workers /\ p # Backstop
  BY RelayAssumption DEF Workers
<1> QED BY <1>3, <1>4, JobOutcome

LEMMA JobsDeliveredNext ==
    ASSUME DeliveryInv, [Next]_vars
    PROVE  JobsDelivered'
<1>1. TypeOK /\ NoBypassInv
  BY DEF DeliveryInv, NoBypassInv
<1>2. SUFFICES ASSUME NEW w \in Workers, relay'[w].st = "ok"
               PROVE  Delivered(relay[w].new)'
  BY DEF JobsDelivered
<1>3. relay[w].new \in Updates
  BY <1>1 DEF TypeOK, RelayState
<1>4. CASE relay[w].st # "ok"
  <2>1. GitPush(w)
    BY <1>1, <1>2, <1>4, JobOutcome
  <2>2. \E st : relay' = [relay EXCEPT ![w].st = st]
    BY <2>1 DEF GitPush
  <2>3. relay'[w].new = relay[w].new
    BY <1>1, <2>2 DEF TypeOK, RelayState
  <2> QED BY <1>1, <1>2, <2>1, <2>3, PushDeliversAll DEF Delivered, Has
<1>5. CASE relay[w].st = "ok"
  <2>1. CASE relay'[w].new = relay[w].new
    <3>1. Delivered(relay[w].new)
      BY <1>5 DEF DeliveryInv, JobsDelivered
    <3> DEFINE new == relay[w].new
    <3>2. \A upd \in Updates : Delivered(upd) => Delivered(upd)'
      BY <1>1, DeliveredStays
    <3> QED BY <1>3, <2>1, <3>1, <3>2 DEF Delivered, Has
  <2>2. CASE w \in Pushes /\ GitUpdate(w)
    BY <1>5, <2>2 DEF DeliveryInv, JobsStart, GitUpdate, At
  <2>3. CASE relay'[w].new = Nothing
    BY <2>3 DEF Delivered, Written, Nothing
  <2>4. CASE w = Backstop /\ ReadRemote
    <3>1. relay' = relay \/ relay' = Call(Backstop, Drift)
      BY <2>4 DEF ReadRemote
    <3>2. relay'[w].new = relay[w].new \/ relay'[w].st = "check"
      BY <1>1, <2>4, <3>1, Constants DEF Call, TypeOK
    <3> QED BY <1>2, <2>1, <3>2
  <2> QED BY <1>1, <2>1, <2>2, <2>3, <2>4, JobFrame
<1> QED BY <1>4, <1>5

\* Which steps move the pass.
LEMMA PassMoves ==
    ASSUME TypeOK, [Next]_vars
    PROVE  \/ /\ recon'.pc = recon.pc /\ recon'.local = recon.local /\ recon'.ok = recon.ok
              /\ relay'[Backstop].new = relay[Backstop].new
           \/ recon'.pc \in {"idle", "first", "remote"}
           \/ recon'.pc = "write" /\ ~recon'.ok
           \/ ReadRemote \/ Relayed
<1> DEFINE Stays == /\ recon'.pc = recon.pc /\ recon'.local = recon.local
                    /\ recon'.ok = recon.ok
                    /\ relay'[Backstop].new = relay[Backstop].new
<1>1. relay \in [Workers -> RelayState] /\ Pushes \subseteq Workers
      /\ Backstop \in Workers /\ Backstop \notin Pushes /\ recon \in ReconState
  BY Constants, RelayAssumption DEF TypeOK
<1>2. CASE UNCHANGED <<recon, relay>>
  BY <1>2
<1>3. ASSUME NEW p \in Pushes, GitUpdate(p) \/ Accept(p)
      PROVE  Stays
  BY <1>1, <1>3 DEF GitUpdate, Accept, Call
<1>4. ASSUME NEW p \in Pushes, PostReceive(p) \/ HookReturns(p)
      PROVE  Stays
  <2>1. recon' = recon \/ recon' = [recon EXCEPT !.fresh = FALSE]
    BY <1>4 DEF PostReceive, HookReturns, LogRelay, service
  <2>2. relay' = relay \/ relay' = [relay EXCEPT ![p].st = "queued"]
    BY <1>4 DEF PostReceive, HookReturns, service
  <2>3. recon'.pc = recon.pc /\ recon'.local = recon.local /\ recon'.ok = recon.ok
    BY <1>1, <2>1 DEF ReconState
  <2>4. relay'[Backstop] = relay[Backstop]
    BY <1>1, <2>2
  <2> QED BY <2>3, <2>4
<1>5. ASSUME NEW q \in Workers, RelayStep(q)
      PROVE  Stays
  <2>1. ~(Backstop \in Pushes /\ GitUpdate(Backstop)) /\ recon' = recon
    BY <1>1, <1>5 DEF RelayStep, CheckRef, GitPush
  <2>2. CASE GitPush(q)
    <3>1. \E st : relay' = [relay EXCEPT ![q].st = st]
      BY <2>2 DEF GitPush
    <3>2. relay'[Backstop].new = relay[Backstop].new
      BY <1>1, <3>1 DEF RelayState
    <3> QED BY <2>1, <3>2
  <2>3. ASSUME NEW r \in Refs, CheckRef(q, r)
        PROVE  relay'[Backstop].new = relay[Backstop].new
    <3>1. CASE relay' = [relay EXCEPT ![q].todo = @ \ {r}]
      BY <1>1, <3>1 DEF RelayState
    <3>2. CASE relay' = [relay EXCEPT ![q] = [@ EXCEPT !.st = "failed", !.todo = {}]]
      BY <1>1, <3>2 DEF RelayState
    <3> QED BY <2>3, <3>1, <3>2 DEF CheckRef
  <2> QED BY <1>5, <2>1, <2>2, <2>3 DEF RelayStep
<1>6. CASE ReadLocal \/ WriteStatus \/ SvcCrash \/ SvcStart
  <2>1. \/ recon' = Idle \/ recon' = [Idle EXCEPT !.pc = "first"]
        \/ recon' = [Idle EXCEPT !.pc = "remote", !.local = [r \in Heads |-> bare[r]]]
        \/ recon' = [recon EXCEPT !.pc = "write", !.ok = FALSE, !.fresh = TRUE]
    BY <1>6, Zenon DEF ReadLocal, WriteStatus, SvcCrash, SvcStart, Finish
  <2>2. Idle.pc = "idle" /\ [Idle EXCEPT !.pc = "first"].pc = "first"
        /\ \A l : [Idle EXCEPT !.pc = "remote", !.local = l].pc = "remote"
    BY DEF Idle
  <2>3. /\ [recon EXCEPT !.pc = "write", !.ok = FALSE, !.fresh = TRUE].pc = "write"
        /\ [recon EXCEPT !.pc = "write", !.ok = FALSE, !.fresh = TRUE].ok = FALSE
    BY <1>1 DEF ReconState
  <2>4. CASE recon' = Idle \/ recon' = [Idle EXCEPT !.pc = "first"]
    BY <2>2, <2>4, Zenon
  <2>5. CASE recon' = [Idle EXCEPT !.pc = "remote", !.local = [r \in Heads |-> bare[r]]]
    BY <2>2, <2>5, Zenon
  <2>6. CASE recon' = [recon EXCEPT !.pc = "write", !.ok = FALSE, !.fresh = TRUE]
    BY <2>3, <2>6, Zenon
  <2> QED BY <2>1, <2>4, <2>5, <2>6, Zenon
<1>7. \/ UNCHANGED <<recon, relay>>
      \/ \E p \in Pushes : GitUpdate(p) \/ Accept(p) \/ PostReceive(p) \/ HookReturns(p)
      \/ \E q \in Workers : RelayStep(q)
      \/ ReadLocal \/ WriteStatus \/ SvcCrash \/ SvcStart \/ ReadRemote \/ Relayed
  BY ZenonT(60) DEF Next, vars, SetMode, Connect, HookStep, LoadPolicy, PreReceive,
        HookDies, ReconStep, Serve, service
<1> QED BY <1>2, <1>3, <1>4, <1>5, <1>6, <1>7

\* What ReadRemote and the end of a relay leave to be said of the pass.
LEMMA PassShapes ==
    ASSUME TypeOK
    PROVE  /\ \A ok : Finish(ok) => /\ recon'.pc = "write" /\ recon'.ok = ok
                                    /\ recon'.local = recon.local
           /\ recon' = [recon EXCEPT !.pc = "relay"]
                 => recon'.pc = "relay" /\ recon'.local = recon.local
<1>1. recon \in ReconState
  BY DEF TypeOK
<1> QED BY <1>1 DEF Finish, ReconState

LEMMA ReadRemoteIs ==
    ASSUME TypeOK, ReadRemote
    PROVE  /\ UNCHANGED <<upstream, push>> /\ recon'.local = recon.local
           /\ \/ recon'.pc = "write" /\ ~recon'.ok
              \/ recon'.pc = "write" /\ Named(Drift) = {}
              \/ recon'.pc = "relay" /\ relay'[Backstop].new = Drift
<1>1. UNCHANGED <<upstream, push>>
  BY DEF ReadRemote, gate
<1>2. CASE Finish(FALSE)
  BY <1>1, <1>2, PassShapes
<1>3. CASE Finish(TRUE) /\ Named(Drift) = {}
  BY <1>1, <1>3, PassShapes
<1>4. CASE relay' = Call(Backstop, Drift) /\ recon' = [recon EXCEPT !.pc = "relay"]
  <2>1. relay'[Backstop].new = Drift
    BY <1>4, Constants DEF Call, TypeOK
  <2> QED BY <1>1, <1>4, <2>1, PassShapes
<1> QED BY <1>2, <1>3, <1>4 DEF ReadRemote

LEMMA RelayedIs ==
    ASSUME TypeOK, Relayed
    PROVE  /\ UNCHANGED <<upstream, push>> /\ recon'.local = recon.local /\ recon'.pc = "write"
           /\ recon.pc = "relay" /\ recon'.ok => relay[Backstop].st = "ok"
<1>1. Finish(relay[Backstop].st = "ok") /\ UNCHANGED <<upstream, push>>
  BY DEF Relayed, gate
<1> QED BY <1>1, PassShapes

\* A head that the pass does not take for drifted is at the upstream.
LEMMA NotDrifted ==
    ASSUME TypeOK, NEW r \in Heads, recon.local[r] # NoRev
    PROVE  Drift[r] = recon.local[r] \/ Contains(r, upstream[r], recon.local[r])
<1>1. r \in Refs
  BY DEF Refs
<1> QED BY <1>1 DEF Drift, Contains, Advances

LEMMA PassCoversNext ==
    ASSUME DeliveryInv, [Next]_vars
    PROVE  PassCovers'
<1>1. TypeOK /\ TypeOK' /\ NoBypassInv
  BY TypeNext DEF DeliveryInv, NoBypassInv
<1>2. SUFFICES ASSUME recon'.pc = "relay", NEW r \in Heads, recon'.local[r] # NoRev
               PROVE  relay'[Backstop].new[r] = recon'.local[r]
                         \/ Has(r, recon.local[r])'
  BY DEF PassCovers
<1>3. r \in Refs /\ recon.local[r] \in RevOrNone
  BY <1>1 DEF TypeOK, ReconState, Refs
<1>4. ~Relayed
  BY <1>1, <1>2, RelayedIs
<1>5. CASE ReadRemote
  <2>1. recon'.local = recon.local /\ relay'[Backstop].new = Drift /\ UNCHANGED <<upstream, push>>
    BY <1>1, <1>2, <1>5, ReadRemoteIs
  <2>2. Drift[r] = recon.local[r] \/ Contains(r, upstream[r], recon.local[r])
    BY <1>1, <1>2, <2>1, NotDrifted
  <2> QED BY <2>1, <2>2 DEF Has, Contains
<1>6. CASE /\ recon'.pc = recon.pc /\ recon'.local = recon.local
           /\ relay'[Backstop].new = relay[Backstop].new
  <2>1. relay[Backstop].new[r] = recon.local[r] \/ Has(r, recon.local[r])
    BY <1>2, <1>6 DEF DeliveryInv, PassCovers
  <2>2. recon.local[r] \in Revs
    BY <1>2, <1>3, <1>6 DEF RevOrNone
  <2>3. \A v \in Revs : Has(r, v) => Has(r, v)'
    BY <1>1, <1>3, HasStays
  <2> QED BY <1>6, <2>1, <2>2, <2>3 DEF Has
<1> QED BY <1>1, <1>2, <1>4, <1>5, <1>6, PassMoves

LEMMA CleanPassNext ==
    ASSUME DeliveryInv, [Next]_vars
    PROVE  CleanPassDelivered'
<1>1. TypeOK /\ TypeOK' /\ NoBypassInv
  BY TypeNext DEF DeliveryInv, NoBypassInv
<1>2. SUFFICES ASSUME recon'.pc = "write", recon'.ok, NEW r \in Heads, recon'.local[r] # NoRev
               PROVE  Has(r, recon.local[r])'
  BY DEF CleanPassDelivered, Has
<1>3. r \in Refs /\ recon.local[r] \in RevOrNone
  BY <1>1 DEF TypeOK, ReconState, Refs
<1>4. CASE ReadRemote
  <2>1. recon'.local = recon.local /\ Named(Drift) = {} /\ UNCHANGED <<upstream, push>>
    BY <1>1, <1>2, <1>4, ReadRemoteIs
  <2>2. Drift[r] = Keep /\ recon.local[r] # Keep
    BY <1>3, <2>1, RelayAssumption DEF Named
  <2>3. Contains(r, upstream[r], recon.local[r])
    BY <1>1, <1>2, <2>1, <2>2, NotDrifted
  <2> QED BY <2>1, <2>3 DEF Has, Contains
<1>5. CASE Relayed
  <2>1. /\ recon'.local = recon.local /\ UNCHANGED <<upstream, push>>
        /\ recon.pc = "relay" /\ relay[Backstop].st = "ok"
    BY <1>1, <1>2, <1>5, RelayedIs DEF Relayed
  <2>2. relay[Backstop].new[r] = recon.local[r] \/ Has(r, recon.local[r])
    BY <1>2, <2>1 DEF DeliveryInv, PassCovers
  <2>3. Delivered(relay[Backstop].new)
    BY <2>1, Constants DEF DeliveryInv, JobsDelivered
  <2>4. recon.local[r] \notin {Keep, NoRev}
    BY <1>2, <1>3, <2>1, RelayAssumption
  <2>5. Has(r, recon.local[r])
    BY <1>3, <2>2, <2>3, <2>4 DEF Delivered, Written
  <2> QED BY <2>1, <2>5 DEF Has, Contains, Deleted, Passed
<1>6. CASE recon'.pc = recon.pc /\ recon'.local = recon.local /\ recon'.ok = recon.ok
  <2>1. Has(r, recon.local[r])
    BY <1>2, <1>6 DEF DeliveryInv, CleanPassDelivered, Has
  <2>2. recon.local[r] \in Revs
    BY <1>2, <1>3, <1>6 DEF RevOrNone
  <2>3. \A v \in Revs : Has(r, v) => Has(r, v)'
    BY <1>1, <1>3, HasStays
  <2> QED BY <1>6, <2>1, <2>2, <2>3 DEF Has
<1> QED BY <1>1, <1>2, <1>4, <1>5, <1>6, PassMoves

\* relay-ok is recorded from the outcome of a job that was delivered.
LEMMA OkMeansNext ==
    ASSUME DeliveryInv, [Next]_vars
    PROVE  OkMeansDelivered'
<1>1. TypeOK /\ NoBypassInv
  BY DEF DeliveryInv, NoBypassInv
<1>2. SUFFICES ASSUME lastPush'.kind = "ok"
               PROVE  Delivered(lastPush.carried)'
  BY DEF OkMeansDelivered, Delivered, Has
<1>3. \A new \in Updates : Delivered(new) => Delivered(new)'
  BY <1>1, DeliveredStays
<1>4. lastPush.carried \in Updates /\ \A w \in Workers : relay[w].new \in Updates
  BY <1>1 DEF TypeOK, RelayState
<1>5. CASE lastPush' = lastPush
  <2>1. Delivered(lastPush.carried)
    BY <1>2, <1>5 DEF DeliveryInv, OkMeansDelivered, Delivered, Has
  <2> QED BY <1>3, <1>4, <1>5, <2>1 DEF Delivered, Has
<1>6. ASSUME NEW p \in Pushes, PostReceive(p) \/ HookReturns(p)
      PROVE  Delivered(lastPush.carried)'
  <2>1. CASE lastPush' = lastPush
    BY <1>5, <2>1
  <2>2. CASE LogRelay(p, "failed")
    BY <1>2, <2>2 DEF LogRelay
  <2>3. CASE HookReturns(p)
    <3>1. relay[p].st = "ok" /\ lastPush'.carried = relay[p].new
      BY <1>2, <2>3 DEF HookReturns, LogRelay
    <3>2. p \in Workers /\ Delivered(relay[p].new)
      BY <3>1, Constants DEF DeliveryInv, JobsDelivered
    <3> QED BY <1>3, <1>4, <3>1, <3>2 DEF Delivered, Has
  <2> QED BY <1>6, <2>1, <2>2, <2>3 DEF PostReceive
<1>7. lastPush' = lastPush \/ \E p \in Pushes : PostReceive(p) \/ HookReturns(p)
  BY ZenonT(60) DEF Next, vars, SetMode, Connect, HookStep, LoadPolicy, PreReceive, GitUpdate,
        HookDies, Accept, RelayStep, CheckRef, GitPush, ReconStep, ReadLocal, ReadRemote,
        Relayed, WriteStatus, Serve, SvcCrash, SvcStart
<1> QED BY <1>5, <1>6, <1>7

LEMMA DeliveryInit == Init => DeliveryInv
<1> SUFFICES ASSUME Init PROVE DeliveryInv
  OBVIOUS
<1>1. NoBypassInv
  BY NoBypassInit
<1>2. \A w \in Workers : relay[w].st = "none"
  BY DEF Init, NoJob
<1>3. JobsStart /\ JobsDelivered
  BY <1>2, Constants DEF JobsStart, JobsDelivered
<1>4. PassCovers /\ CleanPassDelivered
  BY DEF Init, Idle, PassCovers, CleanPassDelivered
<1>5. OkMeansDelivered
  BY DEF Init, OkMeansDelivered
<1> QED BY <1>1, <1>3, <1>4, <1>5 DEF DeliveryInv

LEMMA DeliveryNext == DeliveryInv /\ [Next]_vars => DeliveryInv'
<1> SUFFICES ASSUME DeliveryInv, [Next]_vars PROVE DeliveryInv'
  OBVIOUS
<1>1. NoBypassInv'
  BY NoBypassNext DEF DeliveryInv
<1>2. JobsStart'
  BY <1>1, JobsStartNext DEF DeliveryInv, NoBypassInv
<1> QED BY <1>1, <1>2, JobsDeliveredNext, PassCoversNext, OkMeansNext, CleanPassNext
        DEF DeliveryInv

LEMMA DeliveryInductive == Spec => []DeliveryInv
BY DeliveryInit, DeliveryNext, PTL DEF Spec

\* relay-ok is never recorded for a push that the upstream did not take whole, whatever
\* crashed, however jobs, passes and later pushes interleave.
THEOREM OkMeansDeliveredCorrect == Spec => []OkMeansDelivered
<1>1. DeliveryInv => OkMeansDelivered
  BY DEF DeliveryInv
<1> QED BY <1>1, DeliveryInductive, PTL

\* A pass that ends well has found or brought every head it listed to the upstream.
THEOREM CleanPassDeliveredCorrect == Spec => []CleanPassDelivered
<1>1. DeliveryInv => CleanPassDelivered
  BY DEF DeliveryInv
<1> QED BY <1>1, DeliveryInductive, PTL
=============================================================================
