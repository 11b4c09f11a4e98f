------------------------------ MODULE FixLoop ------------------------------
(***************************************************************************)
(* The fix-loop of one pull request: the state that Transition advances    *)
(* for every rejected push the daemon delivers, and what can happen to it  *)
(* between the reads and writes of pr-comment-state/<pr>.json.  It decides *)
(* whom the comment mentions: a bot, the next bot, or the fallback human.  *)
(*                                                                         *)
(* Queue and daemon are NotifRail's subject; here the queue is the set of  *)
(* rejects not yet settled, and any of them may be delivered next (backoff *)
(* and Retry now reorder them).  A delivery reads the loop, talks to the   *)
(* upstream, and writes the loop it computed from what it read.            *)
(*                                                                         *)
(* The pull request is open throughout.  Left out: the deadletter, and the *)
(* fields nothing reads (the union of all fingerprints, the pause flag and *)
(* the cooldown, which the daemon never consults).                         *)
(***************************************************************************)
EXTENDS Integers, Sequences, FiniteSets

CONSTANTS Handles, NoHandle,  \* mentions; the empty handle
          Fingerprints,       \* finding fingerprints
          Configs,            \* LoopConfigs the policy may hold
          MaxPushes,          \* bound: rejected pushes in one behaviour
          MaxEdits,           \* bound: changes of the policy, resets, clean pushes
          MaxFaults           \* bound: failing operations in one behaviour

LoopConfig == [max : Nat \ {0}, perBot : Nat \ {0}, bots : Seq(Handles),
               onRepeat : BOOLEAN, fallback : Handles \cup {NoHandle}, default : Handles]

ASSUME FixLoopAssumption ==
    /\ NoHandle \notin Handles
    /\ Configs \subseteq LoopConfig
    /\ MaxPushes \in Nat /\ MaxEdits \in Nat /\ MaxFaults \in Nat

VARIABLES policy,   \* the loop part of gateway.toml
          pushes,   \* rejected pushes so far; they are numbered
          queue,    \* the rejects that are not settled
          loop,     \* pr-comment-state/<pr>.json, or NoLoop
          daemon,   \* the delivery in progress: its record, the loop it computed
          edits, faults  \* what is left of the bounds

vars == <<policy, pushes, queue, loop, daemon, edits, faults>>

NoLoop == [n |-> 0]
Idle == [busy |-> FALSE]

-----------------------------------------------------------------------------
(* Transition.                                                             *)

\* The entry of AttemptHistory; cfg, the configuration it was made under, is history.
Entry(rec, bot, reason) ==
    [push |-> rec.push, bot |-> bot, reason |-> reason, cfg |-> rec.cfg]

\* Fresh PR: the first reject opens the loop.
Fresh(rec) ==
    LET bot == IF rec.cfg.bots = <<>> THEN rec.cfg.default ELSE rec.cfg.bots[1]
    IN  [n |-> 1, max |-> rec.cfg.max, exhausted |-> FALSE, bot |-> bot,
         count |-> [h \in Handles |-> IF h = bot THEN 1 ELSE 0],
         index |-> 0, fallback |-> FALSE, previous |-> rec.findings,
         history |-> <<Entry(rec, bot, "none")>>]

\* The two triggers of a rotation, the first match wins.
Rotation(prev, rec) ==
    CASE rec.cfg.bots = <<>> -> "none"
      [] rec.cfg.bots # <<>> /\ rec.cfg.onRepeat /\ prev.previous \cap rec.findings # {} ->
           "same-finding"
      [] OTHER -> IF prev.count[prev.bot] >= rec.cfg.perBot THEN "attempt-threshold"
                  ELSE "none"

\* The bot at 0-based index i takes over.
Seat(s, i, cfg) ==
    [s EXCEPT !.index = i, !.bot = cfg.bots[i + 1], !.count[cfg.bots[i + 1]] = 1]

\* The mention goes to the human.
HandOver(s, cfg) ==
    [s EXCEPT !.exhausted = TRUE, !.fallback = TRUE, !.bot = cfg.fallback]

\* Variant: the last bot is skipped.
RotateShort(s, cfg) ==
    IF s.index + 1 < Len(cfg.bots) - 1 THEN Seat(s, s.index + 1, cfg)
    ELSE IF cfg.fallback # NoHandle THEN HandOver(s, cfg)
    ELSE Seat(s, 0, cfg)

\* The next bot; past the last one the human, or the first bot when there is none.
Rotate(s, cfg) ==
    IF s.index + 1 < Len(cfg.bots) THEN Seat(s, s.index + 1, cfg)
    ELSE IF cfg.fallback # NoHandle THEN HandOver(s, cfg)
    ELSE Seat(s, 0, cfg)

\* Variant: the limit is passed by one.
LimitLate(s, cfg) ==
    CASE s.n <= cfg.max -> s
      [] s.n > cfg.max /\ cfg.fallback # NoHandle -> HandOver(s, cfg)
      [] s.n > cfg.max /\ cfg.fallback = NoHandle -> [s EXCEPT !.exhausted = TRUE]

\* The attempt limit, whatever the rotation did.
Limit(s, cfg) ==
    CASE s.n < cfg.max -> s
      [] s.n >= cfg.max /\ cfg.fallback # NoHandle -> HandOver(s, cfg)
      [] s.n >= cfg.max /\ cfg.fallback = NoHandle -> [s EXCEPT !.exhausted = TRUE]

\* A subsequent reject is counted, for the bot or with a rotation.
Moved(prev, rec) ==
    LET counted == [prev EXCEPT !.n = @ + 1]
    IN  IF Rotation(prev, rec) = "none" THEN [counted EXCEPT !.count[prev.bot] = @ + 1]
        ELSE Rotate(counted, rec.cfg)

Advance(prev, rec) ==
    LET next == Limit(Moved(prev, rec), rec.cfg)
    IN  [next EXCEPT !.previous = rec.findings,
                     !.history = Append(@, Entry(rec, next.bot, Rotation(prev, rec)))]

Transition(prev, rec) == IF prev = NoLoop THEN Fresh(rec) ELSE Advance(prev, rec)

-----------------------------------------------------------------------------
(* The rail around it.                                                     *)

Fault == faults > 0 /\ faults' = faults - 1
NoFault == UNCHANGED faults
Edit == edits > 0 /\ edits' = edits - 1

Init ==
    /\ policy \in Configs
    /\ pushes = 0
    /\ queue = {}
    /\ loop = NoLoop
    /\ daemon = Idle
    /\ edits = MaxEdits /\ faults = MaxFaults

\* The operator edits [notification.loop] or [notification.mention].
EditPolicy(cfg) ==
    /\ cfg # policy
    /\ Edit
    /\ policy' = cfg
    /\ UNCHANGED <<pushes, queue, loop, daemon, faults>>

\* The gate rejects a push; its record carries the configuration of that moment.
Reject(findings) ==
    /\ pushes < MaxPushes
    /\ pushes' = pushes + 1
    /\ queue' = queue \cup {[push |-> pushes + 1, findings |-> findings, cfg |-> policy]}
    /\ UNCHANGED <<policy, loop, daemon, edits, faults>>

\* DeliverOne reads the loop and computes the next one.  A file that cannot be read
\* counts as no loop.
Begin(rec) ==
    /\ daemon = Idle
    /\ rec \in queue
    /\ \/ NoFault /\ daemon' = [busy |-> TRUE, rec |-> rec, next |-> Transition(loop, rec)]
       \/ Fault /\ daemon' = [busy |-> TRUE, rec |-> rec, next |-> Transition(NoLoop, rec)]
    /\ UNCHANGED <<policy, pushes, queue, loop, edits>>

\* The delivery fails, or the process dies, before the loop is written.
Abandon ==
    /\ daemon # Idle
    /\ Fault
    /\ daemon' = Idle
    /\ UNCHANGED <<policy, pushes, queue, loop, edits>>

\* Variant: the loop is written although the record is delivered again for free.
SaveKeeping ==
    /\ daemon # Idle
    /\ NoFault /\ loop' = daemon.next
    /\ queue' \in {queue, queue \ {daemon.rec}}
    /\ daemon' = Idle
    /\ UNCHANGED <<policy, pushes, edits>>

\* WritePRState, the webhook and the removal of the record.  The write can fail, which
\* nobody notices; when a later step fails the record stays and is delivered again.
Save ==
    /\ daemon # Idle
    /\ \/ NoFault /\ loop' = daemon.next /\ queue' = queue \ {daemon.rec}
       \/ Fault /\ UNCHANGED loop /\ queue' = queue \ {daemon.rec}
       \/ Fault /\ loop' = daemon.next /\ UNCHANGED queue
    /\ daemon' = Idle
    /\ UNCHANGED <<policy, pushes, edits>>

\* A clean push closes the loop and drops the rejects that are still queued.
Accepted ==
    /\ loop # NoLoop
    /\ Edit
    /\ loop' = NoLoop
    /\ queue' = {}
    /\ UNCHANGED <<policy, pushes, daemon, faults>>

\* "Reset loop" in the feed.
ResetLoop ==
    /\ loop # NoLoop
    /\ Edit
    /\ loop' = NoLoop
    /\ UNCHANGED <<policy, pushes, queue, daemon, faults>>

Next ==
    \/ \E cfg \in Configs : EditPolicy(cfg)
    \/ \E findings \in SUBSET Fingerprints : Reject(findings)
    \/ \E rec \in queue : Begin(rec)
    \/ Abandon \/ Save \/ Accepted \/ ResetLoop

Spec == Init /\ [][Next]_vars

-----------------------------------------------------------------------------
EntryType == [push : Nat, bot : Handles,
              reason : {"none", "same-finding", "attempt-threshold"}, cfg : Configs]
LoopState == [n : Nat \ {0}, max : Nat \ {0}, exhausted : BOOLEAN, bot : Handles,
              count : [Handles -> Nat], index : Nat, fallback : BOOLEAN,
              previous : SUBSET Fingerprints, history : Seq(EntryType)]
Record == [push : Nat, findings : SUBSET Fingerprints, cfg : Configs]

\* The type invariant: the mention is never the empty handle.
TypeOK ==
    /\ policy \in Configs
    /\ pushes \in 0 .. MaxPushes
    /\ queue \subseteq Record
    /\ loop \in LoopState \cup {NoLoop}
    /\ daemon \in {Idle} \cup [busy : {TRUE}, rec : Record, next : LoopState]
    /\ edits \in 0 .. MaxEdits /\ faults \in 0 .. MaxFaults

\* The configuration did not change during the loop s.
Steady(s) == \A i \in DOMAIN s.history : s.history[i].cfg = s.history[1].cfg
ConfigOf(s) == s.history[1].cfg

\* The definition Transition is checked against: whom attempt n mentions, and whether
\* the loop is exhausted, when only the number of attempts counts.  The first reject
\* never exhausts a loop.
PastLast(cfg, n) == cfg.bots # <<>> /\ cfg.fallback # NoHandle
                    /\ n > cfg.perBot * Len(cfg.bots)
AtLimit(cfg, n) == n > 1 /\ n >= cfg.max
Mentioned(cfg, n) ==
    CASE cfg.fallback # NoHandle /\ (AtLimit(cfg, n) \/ PastLast(cfg, n)) -> cfg.fallback
      [] ~(cfg.fallback # NoHandle /\ (AtLimit(cfg, n) \/ PastLast(cfg, n))) /\ cfg.bots = <<>> ->
           cfg.default
      [] OTHER -> cfg.bots[(((n - 1) \div cfg.perBot) % Len(cfg.bots)) + 1]

\* Without the same-finding trigger the loop follows the attempt count alone, also
\* when deliveries are repeated or the limit and the rotation fall together.
FollowsCount ==
    loop # NoLoop /\ Steady(loop) /\ ~ConfigOf(loop).onRepeat =>
       LET cfg == ConfigOf(loop)
       IN  /\ loop.bot = Mentioned(cfg, loop.n)
           /\ loop.exhausted <=> AtLimit(cfg, loop.n) \/ PastLast(cfg, loop.n)

\* The human is called only after every bot had its turn, or at the attempt limit.
EveryBotTried ==
    loop # NoLoop /\ Steady(loop) =>
       LET cfg == ConfigOf(loop)
       IN  loop.fallback =>
              \/ AtLimit(cfg, loop.n)
              \/ \A b \in 1 .. Len(cfg.bots) :
                    \E i \in DOMAIN loop.history : loop.history[i].bot = cfg.bots[b]

\* Until the loop is exhausted no bot gets more attempts in a row than attempts-per-bot.
QuotaKept ==
    loop # NoLoop /\ Steady(loop) =>
       LET cfg == ConfigOf(loop)
       IN  ~loop.exhausted /\ cfg.bots # <<>> =>
              \A i \in DOMAIN loop.history : i > cfg.perBot =>
                 \E j \in i - cfg.perBot + 1 .. i : loop.history[j].reason # "none"

\* An attempt beyond one per rejected push is paid for by a failure, although resets,
\* clean pushes and stale writes of the loop come in between.
CountPaidFor ==
    loop # NoLoop => loop.n <= pushes + (MaxFaults - faults)

\* Once the human is called the mention stays, until the loop is closed or starts over.
HumanStays ==
    [][loop # NoLoop /\ loop' # NoLoop /\ loop.fallback /\ Steady(loop') /\ loop'.n > 1 =>
          loop'.bot = ConfigOf(loop').fallback]_loop

\* fingerprint.go: "when the gateway sees the same fingerprint in consecutive rejected
\* pushes on a PR, the agent has not actually fixed the issue".
SameFindingMeansTwoPushes ==
    loop # NoLoop =>
       \A i \in DOMAIN loop.history :
          loop.history[i].reason = "same-finding" =>
             loop.history[i].push # loop.history[i - 1].push
=============================================================================
