--------------------------- MODULE FixLoopProofs ---------------------------
(***************************************************************************)
(* Proofs about FixLoop for every set of configurations and findings and   *)
(* any number of pushes, edits and failures: what Transition does to each  *)
(* field of the loop, the type invariant, and the safety properties.       *)
(***************************************************************************)
EXTENDS FixLoop, FiniteSetTheorems, SequenceTheorems, TLAPS

-----------------------------------------------------------------------------
(* The operators Transition is built from.                                 *)

\* What a configuration holds.
LEMMA ConfigFields ==
    ASSUME NEW cfg \in Configs
    PROVE  /\ cfg.max \in Nat \ {0} /\ cfg.perBot \in Nat \ {0}
           /\ cfg.bots \in Seq(Handles) /\ Len(cfg.bots) \in Nat
           /\ \A i \in 1 .. Len(cfg.bots) : cfg.bots[i] \in Handles
           /\ cfg.fallback \in Handles \cup {NoHandle} /\ cfg.default \in Handles
BY FixLoopAssumption DEF LoopConfig

\* Seat changes the index, the bot and the bot's count, nothing else.
LEMMA SeatFields ==
    ASSUME NEW s \in LoopState, NEW cfg \in Configs, NEW i \in Nat, i < Len(cfg.bots),
           NEW t, t = Seat(s, i, cfg)
    PROVE  /\ t \in LoopState
           /\ t.n = s.n /\ t.history = s.history
           /\ t.exhausted = s.exhausted /\ t.fallback = s.fallback
           /\ t.index = i /\ t.bot = cfg.bots[i + 1] /\ t.count[t.bot] = 1
<1> DEFINE b == cfg.bots[i + 1]
<1>1. b \in Handles
  BY ConfigFields
<1>2. [s.count EXCEPT ![b] = 1] \in [Handles -> Nat]
  BY <1>1 DEF LoopState
<1>3. Seat(s, i, cfg) = [s EXCEPT !.index = i, !.bot = b,
                                  !.count = [s.count EXCEPT ![b] = 1]]
  BY <1>1 DEF Seat, LoopState
<1>4. [s.count EXCEPT ![b] = 1][b] = 1
  BY <1>1 DEF LoopState
<1> HIDE DEF b
<1>5. Seat(s, i, cfg) \in LoopState
  BY <1>1, <1>2, <1>3 DEF LoopState
<1>6. /\ Seat(s, i, cfg).bot = b
      /\ Seat(s, i, cfg).count = [s.count EXCEPT ![b] = 1]
      /\ Seat(s, i, cfg).index = i
  BY <1>3 DEF LoopState
<1>7. /\ Seat(s, i, cfg).n = s.n /\ Seat(s, i, cfg).history = s.history
      /\ Seat(s, i, cfg).exhausted = s.exhausted /\ Seat(s, i, cfg).fallback = s.fallback
  BY <1>3 DEF LoopState
<1> QED BY <1>4, <1>5, <1>6, <1>7 DEF b

\* HandOver gives the mention to the human and exhausts the loop.
LEMMA HandOverFields ==
    ASSUME NEW s \in LoopState, NEW cfg \in Configs, cfg.fallback # NoHandle,
           NEW t, t = HandOver(s, cfg)
    PROVE  /\ t \in LoopState
           /\ t.n = s.n /\ t.history = s.history /\ t.index = s.index
           /\ t.count = s.count
           /\ t.exhausted /\ t.fallback /\ t.bot = cfg.fallback
<1>1. cfg.fallback \in Handles
  BY ConfigFields
<1> QED BY <1>1 DEF HandOver, LoopState

\* A rotation seats the next bot, calls the human, or starts over.
LEMMA RotateFields ==
    ASSUME NEW s \in LoopState, NEW cfg \in Configs, cfg.bots # <<>>,
           NEW t, t = Rotate(s, cfg)
    PROVE  /\ t \in LoopState
           /\ t.n = s.n /\ t.history = s.history
           /\ \/ /\ s.index + 1 < Len(cfg.bots) /\ t.index = s.index + 1
                 /\ t.bot = cfg.bots[t.index + 1] /\ t.count[t.bot] = 1
                 /\ t.exhausted = s.exhausted /\ t.fallback = s.fallback
              \/ /\ s.index + 1 >= Len(cfg.bots) /\ cfg.fallback # NoHandle
                 /\ t.index = s.index /\ t.bot = cfg.fallback
                 /\ t.exhausted /\ t.fallback
              \/ /\ s.index + 1 >= Len(cfg.bots) /\ cfg.fallback = NoHandle
                 /\ t.index = 0 /\ t.bot = cfg.bots[1] /\ t.count[t.bot] = 1
                 /\ t.exhausted = s.exhausted /\ t.fallback = s.fallback
<1>1. Len(cfg.bots) \in Nat \ {0} /\ s.index \in Nat
  BY ConfigFields DEF LoopState
<1>2. CASE s.index + 1 < Len(cfg.bots)
  <2>1. Rotate(s, cfg) = Seat(s, s.index + 1, cfg)
    BY <1>2 DEF Rotate
  <2> QED BY <1>1, <1>2, <2>1, SeatFields
<1>3. CASE ~(s.index + 1 < Len(cfg.bots)) /\ cfg.fallback # NoHandle
  <2>1. Rotate(s, cfg) = HandOver(s, cfg)
    BY <1>3 DEF Rotate
  <2> QED BY <1>1, <1>3, <2>1, HandOverFields
<1>4. CASE ~(s.index + 1 < Len(cfg.bots)) /\ cfg.fallback = NoHandle
  <2>1. Rotate(s, cfg) = Seat(s, 0, cfg)
    BY <1>4 DEF Rotate
  <2> QED BY <1>1, <1>4, <2>1, SeatFields
<1> QED BY <1>2, <1>3, <1>4

\* The limit touches the mention and the two flags only.
LEMMA LimitFields ==
    ASSUME NEW s \in LoopState, NEW cfg \in Configs,
           NEW t, t = Limit(s, cfg)
    PROVE  /\ t \in LoopState
           /\ t.n = s.n /\ t.history = s.history /\ t.index = s.index
           /\ t.count = s.count
           /\ \/ s.n < cfg.max /\ t = s
              \/ /\ s.n >= cfg.max /\ cfg.fallback # NoHandle
                 /\ t.exhausted /\ t.fallback /\ t.bot = cfg.fallback
              \/ /\ s.n >= cfg.max /\ cfg.fallback = NoHandle
                 /\ t.exhausted /\ t.fallback = s.fallback /\ t.bot = s.bot
<1>1. s.n \in Nat /\ cfg.max \in Nat
  BY ConfigFields DEF LoopState
<1>2. CASE s.n < cfg.max
  <2>1. Limit(s, cfg) = s
    BY <1>1, <1>2 DEF Limit
  <2> QED BY <1>2, <2>1
<1>3. CASE s.n >= cfg.max /\ cfg.fallback # NoHandle
  <2>1. Limit(s, cfg) = HandOver(s, cfg)
    BY <1>1, <1>3 DEF Limit
  <2> QED BY <1>3, <2>1, HandOverFields
<1>4. CASE s.n >= cfg.max /\ cfg.fallback = NoHandle
  <2>1. Limit(s, cfg) = [s EXCEPT !.exhausted = TRUE]
    BY <1>1, <1>4 DEF Limit
  <2> QED BY <1>4, <2>1 DEF LoopState
<1> QED BY <1>1, <1>2, <1>3, <1>4

\* A rotation presupposes a list of bots.
LEMMA RotationReason ==
    ASSUME NEW s \in LoopState, NEW rec \in Record
    PROVE  /\ Rotation(s, rec) \in {"none", "same-finding", "attempt-threshold"}
           /\ Rotation(s, rec) # "none" => rec.cfg.bots # <<>>
           /\ Rotation(s, rec) = "none" /\ rec.cfg.bots # <<>> =>
                 s.count[s.bot] < rec.cfg.perBot
<1>1. rec.cfg.perBot \in Nat /\ s.count[s.bot] \in Nat
  BY ConfigFields DEF Record, LoopState
<1> QED BY <1>1 DEF Rotation

\* One entry of the history.
LEMMA EntryFields ==
    ASSUME NEW rec \in Record, NEW bot \in Handles,
           NEW reason \in {"none", "same-finding", "attempt-threshold"},
           NEW e, e = Entry(rec, bot, reason)
    PROVE  /\ e \in EntryType
           /\ e.bot = bot /\ e.reason = reason /\ e.cfg = rec.cfg /\ e.push = rec.push
BY DEF Entry, EntryType, Record

\* The loop opened by a first reject.
LEMMA FreshFields ==
    ASSUME NEW rec \in Record, NEW t, t = Fresh(rec)
    PROVE  /\ t \in LoopState
           /\ t.n = 1 /\ t.index = 0 /\ ~t.exhausted /\ ~t.fallback
           /\ rec.cfg.bots # <<>> => t.bot = rec.cfg.bots[1]
           /\ t.count[t.bot] = 1
           /\ t.history = <<Entry(rec, t.bot, "none")>>
<1> DEFINE bot == IF rec.cfg.bots = <<>> THEN rec.cfg.default ELSE rec.cfg.bots[1]
           count == [h \in Handles |-> IF h = bot THEN 1 ELSE 0]
           hist == <<Entry(rec, bot, "none")>>
<1>1. rec.cfg \in Configs /\ rec.findings \in SUBSET Fingerprints
  BY DEF Record
<1>2. bot \in Handles /\ rec.cfg.max \in Nat \ {0}
  BY <1>1, ConfigFields
<1>3. count \in [Handles -> Nat] /\ count[bot] = 1
  BY <1>2
<1>4. hist \in Seq(EntryType)
  BY <1>2, EntryFields
<1>5. t = [n |-> 1, max |-> rec.cfg.max, exhausted |-> FALSE, bot |-> bot,
           count |-> count, index |-> 0, fallback |-> FALSE, previous |-> rec.findings,
           history |-> hist]
  BY DEF Fresh
<1>6. rec.cfg.bots # <<>> => bot = rec.cfg.bots[1]
  OBVIOUS
<1> HIDE DEF bot, count, hist
<1>7. t \in LoopState
  BY <1>1, <1>2, <1>3, <1>4, <1>5 DEF LoopState
<1>8. t.bot = bot /\ t.count = count /\ t.history = hist
      /\ t.n = 1 /\ t.index = 0 /\ ~t.exhausted /\ ~t.fallback
  BY <1>5
<1> QED BY <1>3, <1>6, <1>7, <1>8 DEF hist

\* The counted attempt after the rotation, before the limit.
LEMMA MovedFields ==
    ASSUME NEW s \in LoopState, NEW rec \in Record, NEW t, t = Moved(s, rec)
    PROVE  /\ t \in LoopState
           /\ t.n = s.n + 1 /\ t.history = s.history
           /\ \/ /\ Rotation(s, rec) = "none"
                 /\ t.index = s.index /\ t.bot = s.bot /\ t.count[t.bot] = s.count[t.bot] + 1
                 /\ t.exhausted = s.exhausted /\ t.fallback = s.fallback
              \/ /\ Rotation(s, rec) # "none"
                 /\ s.index + 1 < Len(rec.cfg.bots) /\ t.index = s.index + 1
                 /\ t.bot = rec.cfg.bots[t.index + 1] /\ t.count[t.bot] = 1
                 /\ t.exhausted = s.exhausted /\ t.fallback = s.fallback
              \/ /\ Rotation(s, rec) # "none"
                 /\ s.index + 1 >= Len(rec.cfg.bots) /\ rec.cfg.fallback # NoHandle
                 /\ t.index = s.index /\ t.bot = rec.cfg.fallback
                 /\ t.exhausted /\ t.fallback
              \/ /\ Rotation(s, rec) # "none"
                 /\ s.index + 1 >= Len(rec.cfg.bots) /\ rec.cfg.fallback = NoHandle
                 /\ t.index = 0 /\ t.bot = rec.cfg.bots[1] /\ t.count[t.bot] = 1
                 /\ t.exhausted = s.exhausted /\ t.fallback = s.fallback
<1> DEFINE c == [s EXCEPT !.n = @ + 1]
<1>1. /\ c \in LoopState
      /\ c.n = s.n + 1 /\ c.history = s.history /\ c.index = s.index /\ c.bot = s.bot
      /\ c.count = s.count /\ c.exhausted = s.exhausted /\ c.fallback = s.fallback
  <2>1. c \in LoopState
    <3> DEFINE k == s.n + 1
    <3>1. k \in Nat \ {0} /\ c = [s EXCEPT !.n = k]
      BY DEF LoopState
    <3> HIDE DEF k, c
    <3> QED BY <3>1 DEF LoopState
  <2>2. c.n = s.n + 1 /\ c.history = s.history /\ c.index = s.index /\ c.bot = s.bot
    BY DEF LoopState
  <2>3. c.count = s.count /\ c.exhausted = s.exhausted /\ c.fallback = s.fallback
    BY DEF LoopState
  <2> QED BY <2>1, <2>2, <2>3
<1>2. rec.cfg \in Configs
  BY DEF Record
<1>3. CASE Rotation(s, rec) = "none"
  <2> DEFINE k == [s.count EXCEPT ![s.bot] = @ + 1]
  <2>1. t = [c EXCEPT !.count[s.bot] = @ + 1]
    BY <1>3 DEF Moved
  <2>2. k \in [Handles -> Nat] /\ k[s.bot] = s.count[s.bot] + 1
    BY DEF LoopState
  <2>3. t = [c EXCEPT !.count = k]
    BY <1>1, <2>1 DEF LoopState
  <2> HIDE DEF k, c
  <2>4. /\ t \in LoopState
        /\ t.n = c.n /\ t.history = c.history /\ t.index = c.index /\ t.bot = c.bot
        /\ t.count = k /\ t.exhausted = c.exhausted /\ t.fallback = c.fallback
    BY <1>1, <2>2, <2>3 DEF LoopState
  <2> QED BY <1>1, <1>3, <2>2, <2>4
<1>4. CASE Rotation(s, rec) # "none"
  <2>1. t = Rotate(c, rec.cfg) /\ rec.cfg.bots # <<>>
    BY <1>4, RotationReason DEF Moved
  <2> HIDE DEF c
  <2> QED BY <1>1, <1>2, <1>4, <2>1, RotateFields
<1> QED BY <1>3, <1>4

\* A subsequent reject, in terms of the attempt before the limit.
LEMMA AdvanceFields ==
    ASSUME NEW s \in LoopState, NEW rec \in Record, NEW t, t = Advance(s, rec),
           NEW m, m = Limit(Moved(s, rec), rec.cfg)
    PROVE  /\ t \in LoopState
           /\ t.n = m.n /\ t.index = m.index /\ t.bot = m.bot /\ t.count = m.count
           /\ t.exhausted = m.exhausted /\ t.fallback = m.fallback
           /\ t.history = Append(s.history, Entry(rec, t.bot, Rotation(s, rec)))
<1> DEFINE e == Entry(rec, m.bot, Rotation(s, rec))
<1>1. rec.cfg \in Configs /\ rec.findings \in SUBSET Fingerprints
  BY DEF Record
<1>2. m \in LoopState /\ m.history = s.history
  BY <1>1, MovedFields, LimitFields
<1>3. m.bot \in Handles /\ s.history \in Seq(EntryType)
  BY <1>2 DEF LoopState
<1>4. e \in EntryType
  BY <1>3, RotationReason, EntryFields
<1>5. t = [m EXCEPT !.previous = rec.findings, !.history = Append(@, e)]
  BY DEF Advance
<1>6. Append(s.history, e) \in Seq(EntryType)
  BY <1>3, <1>4
<1>7. t = [m EXCEPT !.previous = rec.findings, !.history = Append(s.history, e)]
  BY <1>2, <1>5 DEF LoopState
<1> HIDE DEF e
<1>8. /\ t \in LoopState
      /\ t.n = m.n /\ t.index = m.index /\ t.bot = m.bot /\ t.count = m.count
      /\ t.exhausted = m.exhausted /\ t.fallback = m.fallback
      /\ t.history = Append(s.history, e)
  BY <1>1, <1>2, <1>6, <1>7 DEF LoopState
<1> QED BY <1>8 DEF e

\* The fallback is never taken back by a subsequent reject.
LEMMA FallbackKept ==
    ASSUME NEW s \in LoopState, NEW rec \in Record, s.fallback
    PROVE  Advance(s, rec).fallback
<1> DEFINE moved == Moved(s, rec)
           m == Limit(moved, rec.cfg)
<1>1. moved \in LoopState /\ moved.fallback
  BY MovedFields
<1>2. rec.cfg \in Configs
  BY DEF Record
<1> HIDE DEF moved
<1>3. m.fallback
  BY <1>1, <1>2, LimitFields
<1> QED BY <1>3, AdvanceFields DEF moved

LEMMA TransitionType ==
    ASSUME NEW s \in LoopState \cup {NoLoop}, NEW rec \in Record
    PROVE  Transition(s, rec) \in LoopState
BY FreshFields, AdvanceFields DEF Transition

-----------------------------------------------------------------------------
(* The type invariant.                                                     *)

LEMMA IdleIsFree == ASSUME NEW d \in [busy : {TRUE}, rec : Record, next : LoopState]
                    PROVE  d # Idle
<1>1. d.busy = TRUE /\ Idle.busy = FALSE
  BY DEF Idle
<1> QED BY <1>1

LEMMA BoundsType ==
    ASSUME TypeOK
    PROVE  /\ Fault \/ NoFault => faults' \in 0 .. MaxFaults
           /\ Edit => edits' \in 0 .. MaxEdits
BY FixLoopAssumption DEF TypeOK, Fault, NoFault, Edit

LEMMA TypeInit == Init => TypeOK
BY FixLoopAssumption DEF Init, TypeOK

LEMMA TypeStep == TypeOK /\ [Next]_vars => TypeOK'
<1> SUFFICES ASSUME TypeOK, [Next]_vars
             PROVE  TypeOK'
  OBVIOUS
<1>1. CASE UNCHANGED vars
  BY <1>1 DEF vars, TypeOK
<1>2. ASSUME NEW cfg \in Configs, EditPolicy(cfg)
      PROVE  TypeOK'
  BY <1>2, BoundsType DEF EditPolicy, TypeOK
<1>3. ASSUME NEW findings \in SUBSET Fingerprints, Reject(findings)
      PROVE  TypeOK'
  <2>1. [push |-> pushes + 1, findings |-> findings, cfg |-> policy] \in Record
    BY FixLoopAssumption DEF TypeOK, Record
  <2>2. pushes' \in 0 .. MaxPushes
    BY <1>3, FixLoopAssumption DEF Reject, TypeOK
  <2> QED BY <1>3, <2>1, <2>2 DEF Reject, TypeOK
<1>4. ASSUME NEW rec \in queue, Begin(rec)
      PROVE  TypeOK'
  <2>1. rec \in Record /\ loop \in LoopState \cup {NoLoop}
    BY DEF TypeOK
  <2>2. Transition(loop, rec) \in LoopState /\ Transition(NoLoop, rec) \in LoopState
    BY <2>1, TransitionType
  <2>3. PICK x \in LoopState : daemon' = [busy |-> TRUE, rec |-> rec, next |-> x]
    BY <1>4, <2>2 DEF Begin
  <2>4. daemon' \in [busy : {TRUE}, rec : Record, next : LoopState]
    BY <2>1, <2>3
  <2> QED BY <1>4, <2>4, BoundsType DEF Begin, TypeOK
<1>5. CASE Abandon
  BY <1>5, BoundsType DEF Abandon, TypeOK
<1>6. CASE Save
  <2>1. daemon.next \in LoopState
    BY <1>6 DEF Save, TypeOK
  <2>2. loop' \in LoopState \cup {NoLoop} /\ queue' \subseteq Record
    BY <1>6, <2>1 DEF Save, TypeOK
  <2> QED BY <1>6, <2>2, BoundsType DEF Save, TypeOK
<1>7. CASE Accepted
  BY <1>7, BoundsType DEF Accepted, TypeOK
<1>8. CASE ResetLoop
  BY <1>8, BoundsType DEF ResetLoop, TypeOK
<1> QED BY <1>1, <1>2, <1>3, <1>4, <1>5, <1>6, <1>7, <1>8 DEF Next

\* Every value Transition and the rail compute is of its type, for every set of
\* configurations; in particular the mention is a handle, never the empty fallback.
THEOREM TypeCorrect == Spec => []TypeOK
BY TypeInit, TypeStep, PTL DEF Spec

-----------------------------------------------------------------------------
(* What a loop remembers: an invariant of Transition, whatever it is given. *)

\* The bot was mentioned by some attempt.
Tried(s, bot) == \E i \in 1 .. s.n : s.history[i].bot = bot

\* Under one configuration the bots up to the index had their turn; the human stays
\* because there is no next bot or the limit is reached; the bot's count is the number
\* of attempts since the last rotation.
LoopInv(s) ==
    /\ Len(s.history) = s.n
    /\ Steady(s) =>
       LET cfg == ConfigOf(s)
       IN  /\ AtLimit(cfg, s.n)
              \/ \A b \in 1 .. Len(cfg.bots) : b <= s.index + 1 => Tried(s, cfg.bots[b])
           /\ s.fallback => /\ cfg.fallback # NoHandle /\ s.bot = cfg.fallback
                            /\ AtLimit(cfg, s.n) \/ s.index + 1 >= Len(cfg.bots)
           /\ ~s.exhausted /\ cfg.bots # <<>> =>
                 /\ s.count[s.bot] \in 1 .. cfg.perBot
                 /\ s.count[s.bot] <= s.n
                 /\ s.count[s.bot] < s.n => s.history[s.n - s.count[s.bot] + 1].reason # "none"
                 /\ \A i \in 1 .. s.n : i > cfg.perBot =>
                       \E j \in i - cfg.perBot + 1 .. i : s.history[j].reason # "none"

LEMMA FreshInv ==
    ASSUME NEW rec \in Record, NEW s, s = Fresh(rec)
    PROVE  LoopInv(s)
<1>1. /\ s \in LoopState
      /\ s.n = 1 /\ s.index = 0 /\ ~s.exhausted /\ ~s.fallback
      /\ rec.cfg.bots # <<>> => s.bot = rec.cfg.bots[1]
      /\ s.count[s.bot] = 1
  BY FreshFields
<1>2. PICK e \in EntryType : e.bot = s.bot /\ e.cfg = rec.cfg /\ s.history = <<e>>
  BY <1>1, FreshFields, EntryFields DEF LoopState
<1>3. Len(s.history) = 1 /\ s.history[1] = e
  BY <1>2
<1>4. ConfigOf(s) = rec.cfg /\ rec.cfg \in Configs
  BY <1>2, <1>3 DEF ConfigOf, Record
<1>5. rec.cfg.perBot \in Nat \ {0} /\ Len(rec.cfg.bots) \in Nat
  BY <1>4, ConfigFields
<1>6. \A b \in 1 .. Len(rec.cfg.bots) : b <= s.index + 1 => Tried(s, rec.cfg.bots[b])
  <2> SUFFICES ASSUME NEW b \in 1 .. Len(rec.cfg.bots), b <= 1
               PROVE  s.history[1].bot = rec.cfg.bots[b]
    BY <1>1 DEF Tried
  <2>1. b = 1 /\ rec.cfg.bots # <<>>
    BY <1>5
  <2> QED BY <1>1, <1>2, <1>3, <2>1
<1>7. \A i \in 1 .. s.n : ~(i > rec.cfg.perBot)
  BY <1>1, <1>5
<1> QED BY <1>1, <1>3, <1>4, <1>5, <1>6, <1>7 DEF LoopInv

\* The history of a later attempt extends the history of the earlier one.
LEMMA HistoryGrows ==
    ASSUME NEW s \in LoopState, NEW rec \in Record, NEW t, t = Advance(s, rec),
           Len(s.history) = s.n
    PROVE  /\ t.n = s.n + 1 /\ Len(t.history) = t.n
           /\ \A i \in 1 .. s.n : t.history[i] = s.history[i]
           /\ t.history[t.n].bot = t.bot /\ t.history[t.n].reason = Rotation(s, rec)
           /\ t.history[t.n].cfg = rec.cfg
           /\ Steady(t) => /\ Steady(s)
                           /\ ConfigOf(t) = ConfigOf(s) /\ rec.cfg = ConfigOf(s)
<1>1. rec.cfg \in Configs /\ s.n \in Nat \ {0} /\ s.history \in Seq(EntryType)
  BY DEF Record, LoopState
<1> DEFINE moved == Moved(s, rec)
           m == Limit(moved, rec.cfg)
<1>2. t \in LoopState /\ t.n = s.n + 1
  <2>1. moved \in LoopState /\ moved.n = s.n + 1
    BY MovedFields
  <2>2. m.n = moved.n
    BY <1>1, <2>1, LimitFields
  <2> QED BY <2>1, <2>2, AdvanceFields
<1>3. PICK e \in EntryType : /\ e.bot = t.bot /\ e.reason = Rotation(s, rec) /\ e.cfg = rec.cfg
                             /\ t.history = Append(s.history, e)
  <2> DEFINE e == Entry(rec, t.bot, Rotation(s, rec))
  <2>1. t.bot \in Handles
    BY <1>2 DEF LoopState
  <2>2. /\ e \in EntryType
        /\ e.bot = t.bot /\ e.reason = Rotation(s, rec) /\ e.cfg = rec.cfg
    BY <2>1, RotationReason, EntryFields
  <2>3. t.history = Append(s.history, e)
    BY AdvanceFields
  <2> QED BY <2>2, <2>3
<1>4. /\ Len(t.history) = t.n
      /\ \A i \in 1 .. s.n : t.history[i] = s.history[i]
      /\ t.history[t.n] = e
  BY <1>1, <1>2, <1>3
<1>5. ASSUME Steady(t)
      PROVE  Steady(s) /\ ConfigOf(t) = ConfigOf(s) /\ rec.cfg = ConfigOf(s)
  <2>1. DOMAIN s.history = 1 .. s.n /\ DOMAIN t.history = 1 .. t.n
    BY <1>1, <1>2, <1>3, <1>4
  <2>2. t.history[1] = s.history[1] /\ 1 \in 1 .. s.n
    BY <1>1, <1>4
  <2>3. \A i \in 1 .. t.n : t.history[i].cfg = t.history[1].cfg
    BY <1>5, <2>1 DEF Steady
  <2>4. t.n \in 1 .. t.n /\ \A i \in 1 .. s.n : i \in 1 .. t.n
    BY <1>1, <1>2
  <2>5. \A i \in 1 .. s.n : s.history[i].cfg = s.history[1].cfg
    BY <1>4, <2>2, <2>3, <2>4
  <2>6. e.cfg = s.history[1].cfg
    BY <1>4, <2>2, <2>3, <2>4
  <2> QED BY <1>3, <2>1, <2>2, <2>5, <2>6 DEF Steady, ConfigOf
<1> QED BY <1>2, <1>3, <1>4, <1>5

LEMMA AdvanceInv ==
    ASSUME NEW s \in LoopState, NEW rec \in Record, NEW t, t = Advance(s, rec), LoopInv(s)
    PROVE  LoopInv(t)
<1> DEFINE cfg == rec.cfg
           moved == Moved(s, rec)
           m == Limit(moved, cfg)
<1>1. /\ t.n = s.n + 1 /\ Len(t.history) = t.n
      /\ \A i \in 1 .. s.n : t.history[i] = s.history[i]
      /\ t.history[t.n].bot = t.bot /\ t.history[t.n].reason = Rotation(s, rec)
      /\ Steady(t) => Steady(s) /\ ConfigOf(t) = cfg /\ ConfigOf(s) = cfg
  BY HistoryGrows DEF LoopInv
<1> SUFFICES ASSUME Steady(t)
             PROVE  /\ AtLimit(cfg, t.n)
                       \/ \A b \in 1 .. Len(cfg.bots) :
                             b <= t.index + 1 => Tried(t, cfg.bots[b])
                    /\ t.fallback => /\ cfg.fallback # NoHandle /\ t.bot = cfg.fallback
                                     /\ AtLimit(cfg, t.n) \/ t.index + 1 >= Len(cfg.bots)
                    /\ ~t.exhausted /\ cfg.bots # <<>> =>
                          /\ t.count[t.bot] \in 1 .. cfg.perBot
                          /\ t.count[t.bot] <= t.n
                          /\ t.count[t.bot] < t.n =>
                                t.history[t.n - t.count[t.bot] + 1].reason # "none"
                          /\ \A i \in 1 .. t.n : i > cfg.perBot =>
                                \E j \in i - cfg.perBot + 1 .. i : t.history[j].reason # "none"
  BY <1>1 DEF LoopInv
<1>2. Steady(s) /\ ConfigOf(s) = cfg
  BY <1>1
<1>3. /\ cfg \in Configs /\ cfg.max \in Nat \ {0} /\ cfg.perBot \in Nat \ {0}
      /\ Len(cfg.bots) \in Nat
  BY ConfigFields DEF Record
<1>4. s.n \in Nat \ {0} /\ s.index \in Nat /\ s.bot \in Handles
      /\ s.count \in [Handles -> Nat] /\ s.fallback \in BOOLEAN /\ s.exhausted \in BOOLEAN
  BY DEF LoopState
\* The values before the limit, by the outcome of the rotation.
<1>5. /\ moved.n = t.n
      /\ \/ /\ Rotation(s, rec) = "none" /\ moved.index = s.index /\ moved.bot = s.bot
            /\ moved.count[moved.bot] = s.count[s.bot] + 1
            /\ moved.exhausted = s.exhausted /\ moved.fallback = s.fallback
         \/ /\ Rotation(s, rec) # "none"
            /\ s.index + 1 < Len(cfg.bots) /\ moved.index = s.index + 1
            /\ moved.bot = cfg.bots[moved.index + 1] /\ moved.count[moved.bot] = 1
            /\ moved.exhausted = s.exhausted /\ moved.fallback = s.fallback
         \/ /\ Rotation(s, rec) # "none"
            /\ s.index + 1 >= Len(cfg.bots) /\ cfg.fallback # NoHandle
            /\ moved.index = s.index /\ moved.bot = cfg.fallback
            /\ moved.exhausted /\ moved.fallback
         \/ /\ Rotation(s, rec) # "none"
            /\ s.index + 1 >= Len(cfg.bots) /\ cfg.fallback = NoHandle
            /\ moved.index = 0 /\ moved.bot = cfg.bots[1] /\ moved.count[moved.bot] = 1
            /\ moved.exhausted = s.exhausted /\ moved.fallback = s.fallback
  BY <1>1, MovedFields
\* The values after it.
<1>6. moved \in LoopState
  BY MovedFields
<1>7. /\ t.index = moved.index /\ t.count = moved.count
      /\ \/ /\ t.n < cfg.max /\ t.bot = moved.bot
            /\ t.exhausted = moved.exhausted /\ t.fallback = moved.fallback
         \/ /\ t.n >= cfg.max /\ cfg.fallback # NoHandle
            /\ t.exhausted /\ t.fallback /\ t.bot = cfg.fallback
         \/ /\ t.n >= cfg.max /\ cfg.fallback = NoHandle
            /\ t.exhausted /\ t.fallback = moved.fallback /\ t.bot = moved.bot
  <2>1. /\ t.index = m.index /\ t.bot = m.bot /\ t.count = m.count
        /\ t.exhausted = m.exhausted /\ t.fallback = m.fallback
    BY AdvanceFields
  <2> HIDE DEF moved
  <2> QED BY <1>3, <1>5, <1>6, <2>1, LimitFields
<1>8. moved.index \in Nat /\ t.n \in Nat /\ t.n > 1
  BY <1>1, <1>4, <1>6 DEF LoopState
<1> HIDE DEF moved, m
<1>9. AtLimit(cfg, s.n) => AtLimit(cfg, t.n)
  BY <1>1, <1>3, <1>4 DEF AtLimit
<1>10. t.n >= cfg.max => AtLimit(cfg, t.n)
  BY <1>8 DEF AtLimit
<1>11. \A bot : Tried(s, bot) => Tried(t, bot)
  BY <1>1, <1>4 DEF Tried
<1>12. Tried(t, t.bot)
  BY <1>1, <1>8 DEF Tried
<1>13. AtLimit(cfg, t.n)
       \/ \A b \in 1 .. Len(cfg.bots) : b <= t.index + 1 => Tried(t, cfg.bots[b])
  <2> SUFFICES ASSUME ~AtLimit(cfg, t.n), NEW b \in 1 .. Len(cfg.bots), b <= t.index + 1
               PROVE  Tried(t, cfg.bots[b])
    OBVIOUS
  <2>1. \A x \in 1 .. Len(cfg.bots) : x <= s.index + 1 => Tried(t, cfg.bots[x])
    BY <1>2, <1>9, <1>11 DEF LoopInv
  <2>2. t.bot = moved.bot
    BY <1>7, <1>10
  <2>3. b <= s.index + 1 \/ cfg.bots[b] = t.bot
    <3>1. \/ moved.index = s.index
          \/ moved.index = s.index + 1 /\ moved.bot = cfg.bots[moved.index + 1]
          \/ moved.index = 0 /\ moved.bot = cfg.bots[1]
      BY <1>5
    <3>2. b \in Nat \ {0} /\ b <= moved.index + 1
      BY <1>3, <1>7
    <3>3. CASE moved.index = s.index
      BY <3>2, <3>3
    <3>4. CASE moved.index = s.index + 1 /\ moved.bot = cfg.bots[moved.index + 1]
      <4>1. b <= s.index + 1 \/ b = moved.index + 1
        BY <1>4, <3>2, <3>4
      <4> QED BY <2>2, <3>4, <4>1
    <3>5. CASE moved.index = 0 /\ moved.bot = cfg.bots[1]
      <4>1. b = 1
        BY <3>2, <3>5
      <4> QED BY <2>2, <3>5, <4>1
    <3> QED BY <3>1, <3>3, <3>4, <3>5
  <2> QED BY <1>12, <2>1, <2>3
<1>14. ASSUME t.fallback
       PROVE  /\ cfg.fallback # NoHandle /\ t.bot = cfg.fallback
              /\ AtLimit(cfg, t.n) \/ t.index + 1 >= Len(cfg.bots)
  <2>1. s.fallback => /\ cfg.fallback # NoHandle /\ s.bot = cfg.fallback
                      /\ AtLimit(cfg, t.n) \/ s.index + 1 >= Len(cfg.bots)
    BY <1>2, <1>9 DEF LoopInv
  <2>2. moved.fallback => cfg.fallback # NoHandle
    <3>1. (moved.fallback = s.fallback) \/ cfg.fallback # NoHandle
      BY <1>5
    <3> QED BY <2>1, <3>1
  <2>3. CASE t.n >= cfg.max
    <3>1. cfg.fallback # NoHandle
      BY <1>7, <1>14, <2>2
    <3>2. t.bot = cfg.fallback
      BY <1>3, <1>7, <1>8, <2>3, <3>1
    <3> QED BY <1>10, <2>3, <3>1, <3>2
  <2>4. CASE t.n < cfg.max
    <3>1. ~(t.n >= cfg.max)
      BY <1>3, <1>8, <2>4
    <3>2. t.bot = moved.bot /\ t.fallback = moved.fallback /\ t.index = moved.index
      BY <1>7, <3>1
    <3>3. cfg.fallback # NoHandle
      BY <1>14, <2>2, <3>2
    <3>4. ~AtLimit(cfg, t.n)
      BY <3>1 DEF AtLimit
    <3>5. CASE moved.fallback = s.fallback
      <4>1. s.bot = cfg.fallback /\ s.index + 1 >= Len(cfg.bots)
        BY <1>14, <2>1, <3>2, <3>4, <3>5
      <4>2. ~(s.index + 1 < Len(cfg.bots))
        BY <1>3, <1>4, <4>1
      <4>3. moved.bot = cfg.fallback /\ moved.index = s.index
        BY <1>5, <3>3, <4>1, <4>2
      <4> QED BY <3>2, <3>3, <4>1, <4>3
    <3>6. CASE moved.fallback # s.fallback
      <4>1. moved.bot = cfg.fallback /\ moved.index = s.index /\ s.index + 1 >= Len(cfg.bots)
        BY <1>5, <3>6
      <4> QED BY <3>2, <3>3, <4>1
    <3> QED BY <3>5, <3>6
  <2> QED BY <1>3, <1>8, <2>3, <2>4
<1>15. ASSUME ~t.exhausted, cfg.bots # <<>>
       PROVE  /\ t.count[t.bot] \in 1 .. cfg.perBot
              /\ t.count[t.bot] <= t.n
              /\ t.count[t.bot] < t.n =>
                    t.history[t.n - t.count[t.bot] + 1].reason # "none"
              /\ \A i \in 1 .. t.n : i > cfg.perBot =>
                    \E j \in i - cfg.perBot + 1 .. i : t.history[j].reason # "none"
  <2>1. t.n = s.n + 1 /\ s.count[s.bot] \in Nat
    BY <1>1, <1>4
  <2>2. t.bot = moved.bot /\ ~s.exhausted /\ t.n < cfg.max
    BY <1>5, <1>7, <1>15
  <2>3. /\ s.count[s.bot] \in 1 .. cfg.perBot /\ s.count[s.bot] <= s.n
        /\ s.count[s.bot] < s.n => s.history[s.n - s.count[s.bot] + 1].reason # "none"
        /\ \A i \in 1 .. s.n : i > cfg.perBot =>
              \E j \in i - cfg.perBot + 1 .. i : s.history[j].reason # "none"
    BY <1>2, <1>15, <2>2 DEF LoopInv
  <2>4. \/ /\ Rotation(s, rec) = "none" /\ t.count[t.bot] = s.count[s.bot] + 1
           /\ s.count[s.bot] < cfg.perBot
        \/ Rotation(s, rec) # "none" /\ t.count[t.bot] = 1
    BY <1>5, <1>7, <1>15, <2>2, RotationReason
  <2>5. t.count[t.bot] \in 1 .. cfg.perBot /\ t.count[t.bot] <= t.n
    BY <1>3, <1>4, <2>1, <2>3, <2>4
  <2>6. ASSUME t.count[t.bot] < t.n
        PROVE  t.history[t.n - t.count[t.bot] + 1].reason # "none"
    <3>1. CASE Rotation(s, rec) # "none"
      <4>1. t.n - t.count[t.bot] + 1 = t.n
        BY <1>8, <2>4, <3>1
      <4> QED BY <1>1, <3>1, <4>1
    <3>2. CASE Rotation(s, rec) = "none"
      <4>1. /\ t.n - t.count[t.bot] + 1 = s.n - s.count[s.bot] + 1
            /\ s.n - s.count[s.bot] + 1 \in 1 .. s.n /\ s.count[s.bot] < s.n
        <5>1. t.count[t.bot] = s.count[s.bot] + 1
          BY <2>4, <3>2
        <5>2. s.count[s.bot] >= 1
          BY <1>3, <2>1, <2>3
        <5> QED BY <1>4, <2>1, <2>6, <5>1, <5>2
      <4>2. t.history[s.n - s.count[s.bot] + 1] = s.history[s.n - s.count[s.bot] + 1]
        BY <1>1, <4>1
      <4>3. s.history[s.n - s.count[s.bot] + 1].reason # "none"
        BY <2>3, <4>1
      <4> QED BY <4>1, <4>2, <4>3
    <3> QED BY <3>1, <3>2
  <2>7. ASSUME NEW i \in 1 .. t.n, i > cfg.perBot
        PROVE  \E j \in i - cfg.perBot + 1 .. i : t.history[j].reason # "none"
    <3>1. CASE i <= s.n
      <4>1. PICK j \in i - cfg.perBot + 1 .. i : s.history[j].reason # "none"
        BY <1>3, <1>4, <2>3, <2>7, <3>1
      <4>2. j \in 1 .. s.n
        BY <1>3, <1>4, <2>7, <3>1
      <4> QED BY <1>1, <4>1, <4>2
    <3>2. CASE i = t.n
      <4> DEFINE j == t.n - t.count[t.bot] + 1
      <4>1. j \in i - cfg.perBot + 1 .. i /\ t.count[t.bot] < t.n
        BY <1>3, <1>8, <2>5, <2>7, <3>2, SMTT(30)
      <4> QED BY <2>6, <4>1
    <3> QED BY <1>1, <1>4, <3>1, <3>2
  <2> QED BY <2>5, <2>6, <2>7
<1> QED BY <1>13, <1>14, <1>15

-----------------------------------------------------------------------------
(* The loop on disk and the one in flight.                                 *)

\* Both remember what LoopInv says; the one in flight comes from the one on disk, or
\* starts over, unless the loop was closed meanwhile.
RailInv ==
    /\ loop # NoLoop => LoopInv(loop)
    /\ daemon # Idle => LoopInv(daemon.next)
    /\ daemon # Idle /\ loop # NoLoop =>
          daemon.next = Advance(loop, daemon.rec) \/ daemon.next = Fresh(daemon.rec)

LEMMA LoopInvTransition ==
    ASSUME NEW s \in LoopState \cup {NoLoop}, NEW rec \in Record,
           s # NoLoop => LoopInv(s)
    PROVE  LoopInv(Transition(s, rec))
BY FreshInv, AdvanceInv DEF Transition

LEMMA RailStep == TypeOK /\ RailInv /\ [Next]_vars => RailInv'
<1> SUFFICES ASSUME TypeOK, RailInv, [Next]_vars
             PROVE  RailInv'
  OBVIOUS
<1>1. CASE UNCHANGED <<loop, daemon>>
  BY <1>1, SMTT(30) DEF RailInv, LoopInv, Steady, ConfigOf, Tried
<1>2. ASSUME NEW rec \in queue, Begin(rec)
      PROVE  RailInv'
  <2>1. rec \in Record /\ loop \in LoopState \cup {NoLoop} /\ loop' = loop
    BY <1>2 DEF TypeOK, Begin
  <2>2. PICK x \in {Transition(loop, rec), Transition(NoLoop, rec)} :
           daemon' = [busy |-> TRUE, rec |-> rec, next |-> x]
    BY <1>2 DEF Begin
  <2>3. daemon'.next = x /\ daemon'.rec = rec
    BY <2>2
  <2>4. LoopInv(x)
    BY <2>1, <2>2, LoopInvTransition DEF RailInv
  <2>5. loop # NoLoop => x = Advance(loop, rec) \/ x = Fresh(rec)
    BY <2>2 DEF Transition
  <2>6. loop' # NoLoop => LoopInv(loop')
    BY <2>1 DEF RailInv
  <2>7. daemon' # Idle => LoopInv(daemon'.next)
    BY <2>3, <2>4
  <2>8. daemon' # Idle /\ loop' # NoLoop =>
           daemon'.next = Advance(loop', daemon'.rec) \/ daemon'.next = Fresh(daemon'.rec)
    BY <2>1, <2>3, <2>5
  <2> QED BY <2>6, <2>7, <2>8 DEF RailInv, LoopInv, Steady, ConfigOf, Tried
<1>3. CASE Abandon \/ Save
  <2>1. daemon # Idle /\ daemon' = Idle /\ loop' \in {loop, daemon.next}
    BY <1>3 DEF Abandon, Save
  <2>2. loop' # NoLoop => LoopInv(loop')
    BY <2>1 DEF RailInv
  <2> QED BY <2>1, <2>2 DEF RailInv, LoopInv, Steady, ConfigOf, Tried
<1>4. CASE Accepted \/ ResetLoop
  <2>1. loop' = NoLoop /\ daemon' = daemon
    BY <1>4 DEF Accepted, ResetLoop
  <2> QED BY <2>1 DEF RailInv, LoopInv, Steady, ConfigOf, Tried
<1> QED BY <1>1, <1>2, <1>3, <1>4 DEF Next, vars, EditPolicy, Reject

LEMMA RailInvariant == Spec => [](TypeOK /\ RailInv)
<1>1. Init => TypeOK /\ RailInv
  BY TypeInit DEF Init, RailInv
<1>2. TypeOK /\ RailInv /\ [Next]_vars => (TypeOK /\ RailInv)'
  BY TypeStep, RailStep
<1> QED BY <1>1, <1>2, PTL DEF Spec

LEMMA LoopFacts ==
    ASSUME TypeOK, RailInv, loop # NoLoop
    PROVE  /\ loop \in LoopState /\ LoopInv(loop)
           /\ loop.n \in Nat \ {0} /\ DOMAIN loop.history = 1 .. loop.n
           /\ ConfigOf(loop) \in Configs
<1>1. loop \in LoopState /\ LoopInv(loop)
  BY DEF TypeOK, RailInv
<1>2. loop.n \in Nat \ {0} /\ loop.history \in Seq(EntryType) /\ Len(loop.history) = loop.n
  BY <1>1 DEF LoopState, LoopInv
<1>3. loop.history[1] \in EntryType
  BY <1>2
<1> QED BY <1>1, <1>2, <1>3 DEF ConfigOf, EntryType

\* Whatever was rejected, edited, reset, delivered twice or written late: under one
\* configuration the human is called only after every bot of the list, or at the limit.
THEOREM EveryBotTriedCorrect == Spec => []EveryBotTried
<1>1. TypeOK /\ RailInv => EveryBotTried
  <2> SUFFICES ASSUME TypeOK, RailInv, loop # NoLoop, Steady(loop), loop.fallback,
                      ~AtLimit(ConfigOf(loop), loop.n),
                      NEW b \in 1 .. Len(ConfigOf(loop).bots)
               PROVE  \E i \in DOMAIN loop.history :
                         loop.history[i].bot = ConfigOf(loop).bots[b]
    BY DEF EveryBotTried
  <2> DEFINE cfg == ConfigOf(loop)
  <2>1. /\ loop.index + 1 >= Len(cfg.bots)
        /\ \A x \in 1 .. Len(cfg.bots) : x <= loop.index + 1 => Tried(loop, cfg.bots[x])
    BY LoopFacts DEF LoopInv
  <2>2. Len(cfg.bots) \in Nat /\ loop.index \in Nat
    BY LoopFacts, ConfigFields DEF LoopState
  <2>3. Tried(loop, cfg.bots[b])
    BY <2>1, <2>2
  <2> QED BY <2>3, LoopFacts DEF Tried
<1> QED BY <1>1, RailInvariant, PTL

\* Until the loop is exhausted no bot gets more than attempts-per-bot attempts in a row.
THEOREM QuotaKeptCorrect == Spec => []QuotaKept
<1>1. TypeOK /\ RailInv => QuotaKept
  BY LoopFacts DEF QuotaKept, LoopInv
<1> QED BY <1>1, RailInvariant, PTL

\* Once the human is called the mention stays until the loop is closed or starts over.
THEOREM HumanStaysCorrect == Spec => HumanStays
<1> DEFINE Stays == loop # NoLoop /\ loop' # NoLoop /\ loop.fallback /\ Steady(loop')
                    /\ loop'.n > 1 => loop'.bot = ConfigOf(loop').fallback
<1>1. TypeOK /\ RailInv /\ (TypeOK /\ RailInv)' /\ [Next]_vars => [Stays]_loop
  <2> SUFFICES ASSUME TypeOK, RailInv, TypeOK', RailInv', [Next]_vars, loop' # loop,
                      loop # NoLoop, loop' # NoLoop, loop.fallback, Steady(loop'),
                      loop'.n > 1
               PROVE  loop'.bot = ConfigOf(loop').fallback
    OBVIOUS
  <2>1. Save /\ loop' = daemon.next
    BY DEF Next, vars, EditPolicy, Reject, Begin, Abandon, Save, Accepted, ResetLoop
  <2>2. daemon # Idle /\ daemon.rec \in Record /\ loop \in LoopState
    BY <2>1 DEF Save, TypeOK
  <2>3. loop' = Advance(loop, daemon.rec)
    <3>1. Fresh(daemon.rec).n = 1
      BY <2>2, FreshFields
    <3> QED BY <2>1, <2>2, <3>1 DEF RailInv
  <2>4. loop'.fallback
    BY <2>2, <2>3, FallbackKept
  <2>5. LoopInv(loop')
    BY DEF RailInv
  <2> QED BY <2>4, <2>5 DEF LoopInv
<1> QED BY <1>1, RailInvariant, PTL DEF Spec, HumanStays

-----------------------------------------------------------------------------
(* The price of an attempt.                                                *)

\* Rejected pushes and failures so far.
Paid == pushes + (MaxFaults - faults)

\* What the loop counts, the attempts that are still queued, and the same for the loop
\* in flight once its record is removed.
PaidInv ==
    /\ IsFiniteSet(queue)
    /\ loop.n + Cardinality(queue) <= Paid
    /\ daemon # Idle => daemon.next.n + Cardinality(queue \ {daemon.rec}) <= Paid

LEMMA CountType ==
    ASSUME TypeOK
    PROVE  loop.n \in Nat /\ Paid \in Int /\ (daemon # Idle => daemon.next.n \in Nat)
<1>1. NoLoop.n = 0 /\ \A s \in LoopState : s.n \in Nat
  BY DEF NoLoop, LoopState
<1>2. Paid \in Int
  BY FixLoopAssumption DEF TypeOK, Paid
<1>3. loop \in LoopState \cup {NoLoop} /\ (daemon # Idle => daemon.next \in LoopState)
  BY DEF TypeOK
<1> QED BY <1>1, <1>2, <1>3

\* A failure raises what is paid, everything but a rejected push leaves it alone.
LEMMA FaultPays ==
    ASSUME TypeOK, UNCHANGED pushes
    PROVE  (Fault => Paid' = Paid + 1) /\ (NoFault => Paid' = Paid)
BY FixLoopAssumption DEF TypeOK, Fault, NoFault, Paid

\* A delivery counts one attempt, however it reads the loop.
LEMMA TransitionCounts ==
    ASSUME NEW s \in LoopState \cup {NoLoop}, NEW rec \in Record
    PROVE  Transition(s, rec).n = s.n + 1
<1>1. CASE s = NoLoop
  BY <1>1, FreshFields DEF Transition, NoLoop
<1>2. CASE s # NoLoop
  <2>1. Moved(s, rec) \in LoopState /\ Moved(s, rec).n = s.n + 1 /\ rec.cfg \in Configs
    BY <1>2, MovedFields DEF Record
  <2>2. Limit(Moved(s, rec), rec.cfg).n = s.n + 1
    BY <2>1, LimitFields
  <2> QED BY <1>2, <2>2, AdvanceFields DEF Transition
<1> QED BY <1>1, <1>2

\* What removing one element does to a cardinality.
LEMMA OneLess ==
    ASSUME NEW S, IsFiniteSet(S), NEW x
    PROVE  /\ IsFiniteSet(S \ {x}) /\ Cardinality(S) \in Nat /\ Cardinality(S \ {x}) \in Nat
           /\ Cardinality(S) <= Cardinality(S \ {x}) + 1
           /\ Cardinality(S \ {x}) <= Cardinality(S)
           /\ x \in S => Cardinality(S \ {x}) = Cardinality(S) - 1
<1>1. Cardinality(S) \in Nat
  BY FS_CardinalityType
<1>2. /\ IsFiniteSet(S \ {x})
      /\ Cardinality(S \ {x}) = IF x \in S THEN Cardinality(S) - 1 ELSE Cardinality(S)
  BY FS_RemoveElement
<1>3. Cardinality(S \ {x}) \in Nat
  BY <1>2, FS_CardinalityType
<1> QED BY <1>1, <1>2, <1>3

\* What adding one element does to it.
LEMMA OneMore ==
    ASSUME NEW S, IsFiniteSet(S), NEW x
    PROVE  /\ IsFiniteSet(S \cup {x}) /\ Cardinality(S \cup {x}) \in Nat
           /\ Cardinality(S \cup {x}) <= Cardinality(S) + 1
<1>1. Cardinality(S) \in Nat
  BY FS_CardinalityType
<1>2. /\ IsFiniteSet(S \cup {x})
      /\ Cardinality(S \cup {x}) = IF x \in S THEN Cardinality(S) ELSE Cardinality(S) + 1
  BY FS_AddElement
<1> QED BY <1>1, <1>2

LEMMA PaidStep == TypeOK /\ PaidInv /\ [Next]_vars => PaidInv'
<1> SUFFICES ASSUME TypeOK, PaidInv, [Next]_vars
             PROVE  PaidInv'
  OBVIOUS
<1>1. IsFiniteSet(queue) /\ Cardinality(queue) \in Nat
  BY OneLess DEF PaidInv
<1>2. CASE UNCHANGED <<pushes, faults, queue, loop, daemon>>
  BY <1>2 DEF PaidInv, Paid
<1>3. ASSUME NEW findings \in SUBSET Fingerprints, Reject(findings)
      PROVE  PaidInv'
  <2> DEFINE r == [push |-> pushes + 1, findings |-> findings, cfg |-> policy]
  <2>1. queue' = queue \cup {r} /\ loop' = loop /\ daemon' = daemon /\ Paid' = Paid + 1
    BY <1>3, FixLoopAssumption DEF Reject, Paid, TypeOK
  <2> HIDE DEF r
  <2>2. IsFiniteSet(queue') /\ Cardinality(queue') <= Cardinality(queue) + 1
        /\ Cardinality(queue') \in Nat
    BY <1>1, <2>1, OneMore
  <2>3. ASSUME daemon # Idle
        PROVE  daemon.next.n + Cardinality(queue' \ {daemon.rec}) <= Paid'
    <3> DEFINE rest == queue \ {daemon.rec}
    <3>1. IsFiniteSet(rest) /\ Cardinality(rest) \in Nat
      BY <1>1, OneLess
    <3>2. /\ IsFiniteSet(rest \cup {r}) /\ Cardinality(rest \cup {r}) \in Nat
          /\ Cardinality(rest \cup {r}) <= Cardinality(rest) + 1
      BY <3>1, OneMore
    <3>3. queue' \ {daemon.rec} \subseteq rest \cup {r}
      BY <2>1
    <3>4. Cardinality(queue' \ {daemon.rec}) <= Cardinality(rest) + 1
          /\ Cardinality(queue' \ {daemon.rec}) \in Nat
      <4>1. Cardinality(queue' \ {daemon.rec}) <= Cardinality(rest \cup {r})
        BY <3>2, <3>3, FS_Subset
      <4>2. Cardinality(queue' \ {daemon.rec}) \in Nat
        BY <2>2, OneLess
      <4> QED BY <3>1, <3>2, <4>1, <4>2
    <3> QED BY <2>1, <2>3, <3>1, <3>4, CountType DEF PaidInv
  <2> QED BY <1>1, <2>1, <2>2, <2>3, CountType DEF PaidInv
<1>4. ASSUME NEW rec \in queue, Begin(rec)
      PROVE  PaidInv'
  <2>1. rec \in Record /\ loop \in LoopState \cup {NoLoop} /\ loop' = loop /\ queue' = queue
    BY <1>4 DEF TypeOK, Begin
  <2>2. Paid' \in {Paid, Paid + 1}
    BY <1>4, FaultPays DEF Begin
  <2>3. PICK x \in {Transition(loop, rec), Transition(NoLoop, rec)} :
           daemon' = [busy |-> TRUE, rec |-> rec, next |-> x]
    BY <1>4 DEF Begin
  <2>4. x.n \in {loop.n + 1, 1}
    BY <2>1, <2>3, TransitionCounts DEF NoLoop
  <2>5. Cardinality(queue \ {rec}) = Cardinality(queue) - 1
    BY <1>1, OneLess
  <2>6. daemon'.next = x /\ daemon'.rec = rec
    BY <2>3
  <2>7. x.n + Cardinality(queue \ {rec}) <= Paid
    BY <1>1, <2>4, <2>5, CountType DEF PaidInv
  <2>8. daemon'.next.n + Cardinality(queue' \ {daemon'.rec}) <= Paid'
    BY <1>1, <2>1, <2>2, <2>4, <2>5, <2>6, <2>7, CountType
  <2>9. loop'.n + Cardinality(queue') <= Paid'
    BY <1>1, <2>1, <2>2, CountType DEF PaidInv
  <2> QED BY <1>1, <2>1, <2>8, <2>9 DEF PaidInv
<1>5. CASE Abandon
  <2>1. daemon' = Idle /\ loop' = loop /\ queue' = queue /\ Paid' = Paid + 1
    BY <1>5, FaultPays DEF Abandon
  <2> QED BY <1>1, <2>1, CountType DEF PaidInv
<1>6. CASE Save
  <2> DEFINE rest == queue \ {daemon.rec}
  <2>1. daemon' = Idle /\ daemon # Idle
    BY <1>6 DEF Save
  <2>2. /\ IsFiniteSet(rest) /\ Cardinality(rest) \in Nat
        /\ Cardinality(rest) <= Cardinality(queue)
        /\ Cardinality(queue) <= Cardinality(rest) + 1
    BY <1>1, OneLess
  <2>3. /\ loop.n + Cardinality(queue) <= Paid
        /\ daemon.next.n + Cardinality(rest) <= Paid
    BY <2>1 DEF PaidInv
  <2>4. \/ Paid' = Paid /\ loop' = daemon.next /\ queue' = rest
        \/ Paid' = Paid + 1 /\ loop' = loop /\ queue' = rest
        \/ Paid' = Paid + 1 /\ loop' = daemon.next /\ queue' = queue
    BY <1>6, FaultPays DEF Save
  <2> HIDE DEF rest
  <2>5. IsFiniteSet(queue') /\ loop'.n + Cardinality(queue') <= Paid'
    BY <1>1, <2>1, <2>2, <2>3, <2>4, CountType
  <2> QED BY <2>1, <2>5 DEF PaidInv
<1>7. CASE Accepted
  <2>1. queue' = {} /\ loop' = NoLoop /\ daemon' = daemon /\ Paid' = Paid
    BY <1>7 DEF Accepted, Paid
  <2>2. IsFiniteSet({}) /\ Cardinality({}) = 0
    BY FS_EmptySet
  <2>3. daemon # Idle => daemon.next.n <= Paid
    BY <1>1, OneLess, CountType DEF PaidInv
  <2>4. queue' \ {daemon'.rec} = {}
    BY <2>1
  <2>5. 0 <= Paid
    BY <1>1, CountType DEF PaidInv
  <2> QED BY <2>1, <2>2, <2>3, <2>4, <2>5, CountType DEF PaidInv, NoLoop
<1>8. CASE ResetLoop
  <2>1. queue' = queue /\ loop' = NoLoop /\ daemon' = daemon /\ Paid' = Paid
    BY <1>8 DEF ResetLoop, Paid
  <2>2. Cardinality(queue) <= Paid
    BY <1>1, CountType DEF PaidInv
  <2> QED BY <1>1, <2>1, <2>2 DEF PaidInv, NoLoop
<1> QED BY <1>2, <1>3, <1>4, <1>5, <1>6, <1>7, <1>8 DEF Next, vars, EditPolicy

\* However often records are delivered again, loops closed and stale loops written, the
\* attempts a loop counts are covered by rejected pushes and failures.
THEOREM CountPaidForCorrect == Spec => []CountPaidFor
<1>1. Init => PaidInv
  BY FS_EmptySet, FixLoopAssumption DEF Init, PaidInv, Paid, NoLoop
<1>2. TypeOK /\ PaidInv /\ [Next]_vars => PaidInv'
  BY PaidStep
<1>3. TypeOK /\ PaidInv => CountPaidFor
  <2> SUFFICES ASSUME TypeOK, PaidInv
               PROVE  loop.n <= Paid
    BY DEF CountPaidFor, Paid
  <2>1. Cardinality(queue) \in Nat
    BY OneLess DEF PaidInv
  <2> QED BY <2>1, CountType DEF PaidInv
<1> QED BY <1>1, <1>2, <1>3, TypeCorrect, PTL DEF Spec
=============================================================================
