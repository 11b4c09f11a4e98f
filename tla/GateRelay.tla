------------------------------ MODULE GateRelay ------------------------------
(***************************************************************************)
(* The push path of one repository: an agent pushes to the gateway's bare  *)
(* repository, the pre-receive hook gates the push, git updates the refs,  *)
(* the post-receive hook hands a job to the relay service, which pushes to *)
(* the upstream; the service's reconcile backstop re-sends what was lost.  *)
(*                                                                         *)
(* Processes: one per push (agent, git receive-pack and its two hooks),    *)
(* one relay job per push plus the backstop's own, the relay service, and  *)
(* the operator who switches the repository's mode.  A revision is an      *)
(* element of Revs; Ancestry says what a fast-forward is; Bad is the set   *)
(* of revisions the check blocks.                                          *)
(***************************************************************************)
EXTENDS Integers

CONSTANTS Pushes,           \* push attempts, each used once
          Heads, Tags,      \* branch refs and all other refs
          Revs,             \* revisions in the object store
          Bad,              \* revisions with a BLOCK finding
          Ancestry,         \* <<a, b>>: a is b or one of its ancestors
          Gated,            \* refs matching ProtectedRefs
          DeleteProtected,  \* main, master and DeleteProtectedRefs
          Modes,            \* modes the operator uses
          Wanted,           \* pushes the agents attempt
          Seed,             \* ref values at registration, on both sides
          NoRev, Keep,      \* zero revision; ref not named by a push
          Backstop,         \* the reconcile pass, as a user of Relay
          MaxFaults         \* bound: failing operations in one behaviour

Refs == Heads \cup Tags
RevOrNone == Revs \cup {NoRev}
Cmd == RevOrNone \cup {Keep}
Updates == [Refs -> Cmd]
Workers == Pushes \cup {Backstop}

ASSUME RelayAssumption ==
    /\ Heads \cap Tags = {}
    /\ Ancestry \subseteq Revs \X Revs
    /\ \A v \in Revs : <<v, v>> \in Ancestry
    /\ \A a, b, c \in Revs :
          <<a, b>> \in Ancestry /\ <<b, c>> \in Ancestry => <<a, c>> \in Ancestry
    /\ Modes \subseteq {"off", "observe", "enforce"}
    /\ Modes # {}
    /\ Wanted \subseteq Updates
    /\ Seed \in [Refs -> RevOrNone]
    /\ NoRev \notin Revs /\ Keep \notin RevOrNone
    /\ Backstop \notin Pushes
    /\ MaxFaults \in Nat

VARIABLES mode,      \* policy on disk: "off" (not Enabled), "observe", "enforce"
          bare,      \* ref -> value in the gateway's bare repository
          upstream,  \* ref -> value at the upstream
          push,      \* push -> its progress through receive-pack and the hooks
          relay,     \* worker -> its call of Relay
          svc,       \* relay service: "down", "starting" (first pass), "up"
          recon,     \* the reconcile pass
          status,    \* relay-status.json
          lastPush,  \* what LastPushRelays returns for the repository
          faults     \* failures left

vars == <<mode, bare, upstream, push, relay, svc, recon, status, lastPush, faults>>
gate == <<mode, bare, push>>
service == <<relay, svc, recon, status>>

Nothing == [r \in Refs |-> Keep]
NoHeads == [r \in Heads |-> NoRev]
NoJob == [st |-> "none", new |-> Nothing, todo |-> {}]
Idle == [pc |-> "idle", local |-> NoHeads, ok |-> FALSE, fresh |-> FALSE]
Unscanned == [r \in Refs |-> "unscanned"]

Fault == faults > 0 /\ faults' = faults - 1
NoFault == UNCHANGED faults

Named(new) == {r \in Refs : new[r] # Keep}
Written(new) == {r \in Refs : new[r] \notin {Keep, NoRev}}

\* May ref r go from a to b without --force?  Branches fast-forward, tags stay.
Advances(r, a, b) ==
    \/ a = NoRev
    \/ b = NoRev
    \/ r \in Heads /\ <<a, b>> \in Ancestry
    \/ a = b

\* A branch at `have` has received `want`.
Contains(r, have, want) == have # NoRev /\ Advances(r, want, have)

Init ==
    /\ mode \in Modes
    /\ bare = Seed
    /\ upstream = Seed
    /\ push = [p \in Pushes |-> [pc |-> "idle", old |-> Nothing, new |-> Nothing,
                                 mode |-> "enforce", scan |-> Unscanned]]
    /\ relay = [w \in Workers |-> NoJob]
    /\ svc = "up"
    /\ recon = Idle
    /\ status = [have |-> FALSE, ok |-> FALSE, fresh |-> FALSE]
    /\ lastPush = [kind |-> "none", heads |-> FALSE, carried |-> Nothing]
    /\ faults = MaxFaults

-----------------------------------------------------------------------------
(* The gate: receive-pack and the pre-receive hook.                        *)

At(p, pc) == push[p].pc = pc
Goto(p, pc) == push' = [push EXCEPT ![p].pc = pc]

\* The operator rewrites gateway.toml.
SetMode(m) ==
    /\ m # mode
    /\ mode' = m
    /\ UNCHANGED <<bare, upstream, push, relay, svc, recon, status, lastPush, faults>>

\* receive-pack advertises the refs; the client answers with a batch of updates
\* that each name the old value it saw.  A forced update is possible.
Connect(p, new) ==
    /\ At(p, "idle")
    /\ Named(new) # {}
    /\ \A r \in Named(new) : new[r] # bare[r]
    /\ LET old == [r \in Refs |-> IF new[r] = Keep THEN Keep ELSE bare[r]]
       IN  push' = [push EXCEPT ![p] = [@ EXCEPT !.pc = "sent", !.old = old, !.new = new]]
    /\ UNCHANGED <<mode, bare, upstream, service, lastPush, faults>>

\* The hook process starts and reads the policy; if it cannot, the push is refused.
LoadPolicy(p) ==
    /\ At(p, "sent")
    /\ \/ NoFault /\ push' = [push EXCEPT ![p].pc = "loaded", ![p].mode = mode]
       \/ Fault /\ Goto(p, "rejected")
    /\ UNCHANGED <<mode, bare, upstream, service, lastPush>>

\* The refs whose tree RunPreReceive stages and checks.
ToScan(p) ==
    IF push[p].mode = "off" THEN {} ELSE Written(push[p].new) \cap Gated

ScanOf(p, failed) ==
    [r \in Refs |-> CASE r \notin ToScan(p) -> "unscanned"
                      [] r \in failed -> "failed"
                      [] push[p].new[r] \in Bad -> "block"
                      [] OTHER -> "clean"]

\* Variant: a failed scan does not refuse the push.
DecideFailOpen(p, scan) ==
    \/ push[p].mode = "off"
    \/ /\ \A r \in Refs : scan[r] # "block"
       /\ \A r \in DeleteProtected : push[p].new[r] # NoRev

\* Decide: one verdict for the whole batch.
Decide(p, scan) ==
    \/ push[p].mode = "off"
    \/ /\ \A r \in Refs : scan[r] \notin {"block", "failed"}
       /\ \A r \in DeleteProtected : push[p].new[r] # NoRev

\* The scan of every gated ref and the verdict.  Any failure of the staging or
\* of the check, its deadline included, is the outcome "failed".
PreReceive(p) ==
    /\ At(p, "loaded")
    /\ \E failed \in SUBSET ToScan(p) :
          LET scan == ScanOf(p, failed)
              accept == Decide(p, scan) \/ push[p].mode = "observe"
          IN  /\ IF failed = {} THEN NoFault ELSE Fault
              /\ push' = [push EXCEPT ![p] =
                            [@ EXCEPT !.scan = scan,
                                      !.pc = IF accept THEN "accepted" ELSE "rejected"]]
    /\ UNCHANGED <<mode, bare, upstream, service, lastPush>>

\* git moves each ref that still has the old value the client named (external).
\* post-receive gets the refs that moved, and does not run when none did.
GitUpdate(p) ==
    /\ At(p, "accepted")
    /\ LET new == push[p].new
           moved == {r \in Named(new) : bare[r] = push[p].old[r]}
       IN  /\ bare' = [r \in Refs |-> IF r \in moved THEN new[r] ELSE bare[r]]
           /\ relay' = [relay EXCEPT ![p].new =
                           [r \in Refs |-> IF r \in moved THEN new[r] ELSE Keep]]
           /\ Goto(p, IF moved = {} THEN "done" ELSE "updated")
    /\ UNCHANGED <<mode, upstream, svc, recon, status, lastPush, faults>>

-----------------------------------------------------------------------------
(* The post-receive hook.                                                  *)

HeadsOnly(new) == Named(new) # {} /\ Named(new) = Written(new) \cap Heads

\* AppendEvent relay-ok / relay-failed.  Its time stamp is later than any
\* LastSuccess taken so far, on disk or about to be written.
LogRelay(p, kind) ==
    /\ lastPush' = [kind |-> kind, heads |-> HeadsOnly(relay[p].new),
                    carried |-> relay[p].new]
    /\ status' = [status EXCEPT !.fresh = FALSE]
    /\ recon' = [recon EXCEPT !.fresh = FALSE]

\* The hook starts: no policy, no relay and no event; no service, an event;
\* otherwise it queues its job on the socket and blocks.
PostReceive(p) ==
    /\ At(p, "updated")
    /\ \/ /\ Fault
          /\ Goto(p, "done")
          /\ UNCHANGED <<service, lastPush>>
       \/ /\ svc = "down"
          /\ LogRelay(p, "failed")
          /\ Goto(p, "done")
          /\ UNCHANGED <<relay, svc, faults>>
       \/ /\ svc # "down"
          /\ relay' = [relay EXCEPT ![p].st = "queued"]
          /\ Goto(p, "waiting")
          /\ UNCHANGED <<svc, recon, status, lastPush, faults>>
    /\ UNCHANGED <<mode, bare, upstream>>

\* The service answered (or its connection broke): record the outcome.
HookReturns(p) ==
    /\ At(p, "waiting")
    /\ relay[p].st \in {"ok", "failed"}
    /\ LogRelay(p, relay[p].st)
    /\ Goto(p, "done")
    /\ UNCHANGED <<mode, bare, upstream, relay, svc, faults>>

\* The gateway host loses the hook process after git moved the refs; a job it
\* already queued goes on without it.
HookDies(p) ==
    /\ push[p].pc \in {"updated", "waiting"}
    /\ Fault
    /\ Goto(p, "done")
    /\ UNCHANGED <<mode, bare, upstream, service, lastPush>>

-----------------------------------------------------------------------------
(* Relay: the guard, ref by ref, and then one git push for the whole batch. *)

Call(w, new) == [relay EXCEPT ![w] = [st |-> "check", new |-> new, todo |-> Written(new)]]

\* The service takes a job off the socket, one goroutine per connection, and
\* resolves the repository; it can fail to.
Accept(p) ==
    /\ svc = "up"
    /\ relay[p].st = "queued"
    /\ \/ NoFault /\ relay' = Call(p, relay[p].new)
       \/ Fault /\ relay' = [relay EXCEPT ![p].st = "failed"]
    /\ UNCHANGED <<gate, upstream, svc, recon, status, lastPush>>

\* rev-parse of one ref: it must still be what the job says, or nothing is sent.
CheckRef(w, r) ==
    /\ relay[w].st = "check"
    /\ r \in relay[w].todo
    /\ IF bare[r] = relay[w].new[r]
       THEN relay' = [relay EXCEPT ![w].todo = @ \ {r}]
       ELSE relay' = [relay EXCEPT ![w] = [@ EXCEPT !.st = "failed", !.todo = {}]]
    /\ UNCHANGED <<gate, upstream, svc, recon, status, lastPush, faults>>

\* Variant: push --force.
LandsForced(new) == Named(new)

\* The refs of the batch the upstream takes without --force.
Lands(new) == {r \in Named(new) : Advances(r, upstream[r], new[r])}

After(new) == [r \in Refs |-> IF r \in Lands(new) THEN new[r] ELSE upstream[r]]

\* Variant: success as soon as one ref got through.
AllLandedAny(new) == Lands(new) # {}

\* git push exits 0 only if every ref of the batch got through.
AllLanded(new) == Lands(new) = Named(new)

\* One git push, without --atomic.  It can fail before anything lands, and its
\* answer can be lost after everything that could land has landed.
GitPush(w) ==
    /\ relay[w].st = "check"
    /\ relay[w].todo = {}
    /\ LET new == relay[w].new
           End(st) == relay' = [relay EXCEPT ![w].st = st]
       IN  \/ /\ NoFault
              /\ upstream' = After(new)
              /\ End(IF AllLanded(new) THEN "ok" ELSE "failed")
           \/ Fault /\ UNCHANGED upstream /\ End("failed")
           \/ Fault /\ upstream' = After(new) /\ End("failed")
    /\ UNCHANGED <<gate, svc, recon, status, lastPush>>

-----------------------------------------------------------------------------
(* The reconcile backstop, at service start and on every tick.             *)

\* Variants: the error of the pass is ignored; LastSuccess is not renewed.
FinishOk(ok) == recon' = [recon EXCEPT !.pc = "write", !.ok = TRUE, !.fresh = TRUE]
FinishUnstamped(ok) == recon' = [recon EXCEPT !.pc = "write", !.ok = ok]

\* reconcileRepo returns and ReconcileAll reads the clock.
Finish(ok) == recon' = [recon EXCEPT !.pc = "write", !.ok = ok, !.fresh = TRUE]

\* The pass resolves the repository, or skips it, and lists the local heads.
ReadLocal ==
    /\ \/ svc = "up" /\ recon.pc = "idle"
       \/ svc = "starting" /\ recon.pc = "first"
    /\ \/ Fault /\ recon' = Idle
       \/ Fault /\ Finish(FALSE)
       \/ /\ NoFault
          /\ recon' = [Idle EXCEPT !.pc = "remote", !.local = [r \in Heads |-> bare[r]]]
    /\ UNCHANGED <<gate, upstream, relay, svc, status, lastPush>>

\* Variant: the pass skips heads absent at the upstream.
DriftPresent == [r \in Refs |->
                   IF /\ r \in Heads /\ upstream[r] # NoRev
                      /\ recon.local[r] \notin {NoRev, upstream[r]}
                   THEN recon.local[r] ELSE Keep]

\* The heads that differ from, or are absent at, the upstream.
Drift == [r \in Refs |->
             IF r \in Heads /\ recon.local[r] \notin {NoRev, upstream[r]}
             THEN recon.local[r] ELSE Keep]

\* ls-remote, the comparison, and the call of Relay when something drifted.
ReadRemote ==
    /\ recon.pc = "remote"
    /\ \/ Fault /\ Finish(FALSE) /\ UNCHANGED relay
       \/ NoFault /\ Named(Drift) = {} /\ Finish(TRUE) /\ UNCHANGED relay
       \/ /\ NoFault /\ Named(Drift) # {}
          /\ relay' = Call(Backstop, Drift)
          /\ recon' = [recon EXCEPT !.pc = "relay"]
    /\ UNCHANGED <<gate, upstream, svc, status, lastPush>>

Relayed ==
    /\ recon.pc = "relay"
    /\ relay[Backstop].st \in {"ok", "failed"}
    /\ Finish(relay[Backstop].st = "ok")
    /\ relay' = [relay EXCEPT ![Backstop] = NoJob]
    /\ UNCHANGED <<gate, upstream, svc, status, lastPush, faults>>

\* LastSuccess moves only when the pass succeeded; the write itself can fail.
WriteStatus ==
    /\ recon.pc = "write"
    /\ recon' = Idle
    /\ \/ /\ NoFault
          /\ status' = [have |-> TRUE, ok |-> recon.ok,
                        fresh |-> IF recon.ok THEN recon.fresh ELSE status.fresh]
       \/ Fault /\ UNCHANGED status
    /\ UNCHANGED <<gate, upstream, relay, svc, lastPush>>

\* The service serves jobs once its first pass is over; the socket exists before.
Serve ==
    /\ svc = "starting" /\ recon.pc = "idle"
    /\ svc' = "up"
    /\ UNCHANGED <<gate, upstream, relay, recon, status, lastPush, faults>>

\* Variant: a crash that leaves the hooks without an answer.
SvcCrashSilent ==
    /\ svc # "down"
    /\ Fault
    /\ svc' = "down"
    /\ recon' = Idle
    /\ relay' = [w \in Workers |->
                   IF w # Backstop /\ relay[w].st \in {"ok", "failed"}
                   THEN relay[w] ELSE NoJob]
    /\ UNCHANGED <<gate, upstream, status, lastPush>>

\* The service stops, its git children with it: every hook gets an error.
SvcCrash ==
    /\ svc # "down"
    /\ Fault
    /\ svc' = "down"
    /\ recon' = Idle
    /\ relay' = [w \in Workers |->
                   IF w = Backstop THEN NoJob
                   ELSE IF relay[w].st \in {"queued", "check"}
                        THEN [relay[w] EXCEPT !.st = "failed", !.todo = {}]
                        ELSE relay[w]]
    /\ UNCHANGED <<gate, upstream, status, lastPush>>

SvcStart ==
    /\ svc = "down"
    /\ svc' = "starting"
    /\ recon' = [Idle EXCEPT !.pc = "first"]
    /\ UNCHANGED <<gate, upstream, relay, status, lastPush, faults>>

-----------------------------------------------------------------------------
HookStep(p) ==
    \/ LoadPolicy(p) \/ PreReceive(p) \/ GitUpdate(p)
    \/ PostReceive(p) \/ HookReturns(p)

RelayStep(w) == GitPush(w) \/ \E r \in Refs : CheckRef(w, r)

ReconStep == ReadLocal \/ ReadRemote \/ Relayed \/ WriteStatus

Next ==
    \/ \E m \in Modes : SetMode(m)
    \/ \E p \in Pushes :
          \/ \E new \in Wanted : Connect(p, new)
          \/ HookStep(p) \/ HookDies(p) \/ Accept(p)
    \/ \E w \in Workers : RelayStep(w)
    \/ ReconStep
    \/ Serve \/ SvcCrash \/ SvcStart

Spec == Init /\ [][Next]_vars

\* Every process that is scheduled keeps running, the service is restarted
\* (Restart=on-failure) and its ticker fires; no agent has to push.
Fairness ==
    /\ \A p \in Pushes : WF_vars(HookStep(p)) /\ WF_vars(Accept(p))
    /\ \A w \in Workers : WF_vars(RelayStep(w))
    /\ WF_vars(ReconStep)
    /\ WF_vars(Serve) /\ WF_vars(SvcStart)

FairSpec == Spec /\ Fairness

-----------------------------------------------------------------------------
PushState == [pc : {"idle", "sent", "loaded", "accepted", "rejected", "updated",
                    "waiting", "done"},
              old : Updates, new : Updates, mode : {"off", "observe", "enforce"},
              scan : [Refs -> {"unscanned", "clean", "block", "failed"}]]
RelayState == [st : {"none", "queued", "check", "ok", "failed"}, new : Updates,
               todo : SUBSET Refs]
ReconState == [pc : {"idle", "first", "remote", "relay", "write"},
               local : [Heads -> RevOrNone], ok : BOOLEAN, fresh : BOOLEAN]

\* The type invariant; a ref still to be checked is one the job writes.
TypeOK ==
    /\ mode \in Modes
    /\ bare \in [Refs -> RevOrNone]
    /\ upstream \in [Refs -> RevOrNone]
    /\ push \in [Pushes -> PushState]
    /\ relay \in [Workers -> RelayState]
    /\ svc \in {"down", "starting", "up"}
    /\ recon \in ReconState
    /\ status \in [have : BOOLEAN, ok : BOOLEAN, fresh : BOOLEAN]
    /\ lastPush \in [kind : {"none", "ok", "failed"}, heads : BOOLEAN, carried : Updates]
    /\ faults \in 0 .. MaxFaults

\* The pushes that pre-receive let through.
Passed == {p \in Pushes : push[p].pc \in {"accepted", "updated", "waiting", "done"}}

\* Why the gate may have let the update of r by p through.
Cleared(p, r) ==
    \/ push[p].mode \in {"off", "observe"}
    \/ push[p].new[r] = NoRev /\ r \notin DeleteProtected
    \/ push[p].new[r] # NoRev /\ r \notin Gated
    \/ push[p].new[r] # NoRev /\ push[p].scan[r] = "clean"

\* No bypass: whatever mix of hooks, relay jobs, backstop passes and crashes ran,
\* a ref value the upstream did not start with was carried by a push that passed
\* the gate for that ref, and under enforcement only after a finished clean scan;
\* a ref it lost was deleted by such a push, never a protected one under enforcement.
NoBypass ==
    \A r \in Refs : upstream[r] # Seed[r] =>
       \E p \in Passed : push[p].new[r] = upstream[r] /\ Cleared(p, r)

\* Forward-only: the upstream loses a ref only in the relay of a push that
\* deleted it from the gated repository, never in a reconcile pass.
OnlyPushesDelete ==
    [][\A r \in Refs : upstream[r] # NoRev /\ upstream'[r] = NoRev =>
          \E p \in Pushes : /\ relay[p].st = "check" /\ relay'[p].st # "check"
                            /\ relay[p].new[r] = NoRev]_upstream

\* A push that passed the gate deleted r.
Deleted(r) == \E p \in Passed : push[p].new[r] = NoRev

\* A pass that ends well proves that the upstream has received every head it
\* listed at its start, whatever was pushed, relayed or lost meanwhile.
CleanPassDelivered ==
    recon.pc = "write" /\ recon.ok =>
       \A r \in Heads : recon.local[r] # NoRev =>
          Contains(r, upstream[r], recon.local[r]) \/ Deleted(r)

\* relay-ok is never recorded for a push the upstream did not take whole.
OkMeansDelivered ==
    lastPush.kind = "ok" =>
       \A r \in Written(lastPush.carried) :
          Contains(r, upstream[r], lastPush.carried[r]) \/ Deleted(r)

\* Every push ends: the hook that blocks on the socket without a deadline always
\* gets an answer, across crashes and restarts of the service.
PushEnds ==
    \A p \in Pushes : push[p].pc # "idle" ~> push[p].pc \in {"done", "rejected"}

\* Convergence: once failures stop, every branch of the gated repository is at the
\* upstream for good, unless the upstream's branch does not fast-forward to it.
Converges ==
    \A r \in Heads :
       <>[](bare[r] # NoRev /\ Advances(r, upstream[r], bare[r]) => upstream[r] = bare[r])

\* PushRelay.Recovered
Recovered == lastPush.kind = "failed" /\ lastPush.heads
             /\ status.have /\ status.ok /\ status.fresh

\* relaystatus.go, Recovered: "a clean pass after the failure means the upstream now
\* holds what a branch-only push carried".
RecoveredIsDelivered ==
    Recovered => \A r \in Written(lastPush.carried) :
                    Contains(r, upstream[r], lastPush.carried[r]) \/ Deleted(r)

-----------------------------------------------------------------------------
\* What the gate has accepted, for the abstract specification.
AcceptedUpdates ==
    {<<r, Seed[r]>> : r \in {x \in Refs : Seed[x] # NoRev}}
    \cup UNION {{<<r, push[p].new[r]>> : r \in Named(push[p].new)} : p \in Passed}

Mirror == INSTANCE UpstreamMirror WITH accepted <- AcceptedUpdates, mirror <- upstream
MirrorSpec == Mirror!Spec
=============================================================================
