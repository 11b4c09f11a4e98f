----------------------------- MODULE LogProofs -----------------------------
(***************************************************************************)
(* The files that are read and rewritten line by line, and the index made  *)
(* of them, for any number of processes, lines and failures.  Retention    *)
(* removes only what it may and the index has every decision up to its     *)
(* offset; a record of the queue is readable, buried or settled; an answer *)
(* from the index is at most an interval old and its reports agree; the    *)
(* user's lines of an rc file are there.                                   *)
(***************************************************************************)
EXTENDS LogRetention, QueueFile, GateStats, UserInstall, SequenceTheorems,
        FiniteSetTheorems, WellFoundedInduction, TLAPS

-----------------------------------------------------------------------------
(* What FlattenSeq returns, of which the lines that stay are made.         *)

LEMMA CountingUp ==
    ASSUME NEW S \in SUBSET Nat, 0 \in S, \A n \in S : n + 1 \in S
    PROVE  S = Nat
<1> DEFINE Before == {ss \in Nat \X Nat : ss[1] < ss[2]}
           Rest == Nat \ S
<1>1. IsWellFoundedOn(Before, Nat)
  BY NatLessThanWellFounded DEF OpToRel
<1>2. ASSUME Rest # {} PROVE FALSE
  <2> HIDE DEF Before
  <2>1. PICK x \in Rest : \A y \in Rest : <<y, x>> \notin Before
    BY <1>1, <1>2, WFMin
  <2>2. x # 0 /\ x - 1 \in Nat /\ x - 1 \notin S
    OBVIOUS
  <2>3. <<x - 1, x>> \in Before
    BY <2>2 DEF Before
  <2> QED
    BY <2>1, <2>2, <2>3
<1> QED
  BY <1>2

\* f has the first i of the sequences, one behind the other, for each i up to m.
Flattens(seqs, m, f) ==
    f = [i \in 1 .. m |-> IF i = 1 THEN seqs[i] ELSE f[i - 1] \o seqs[i]]

LEMMA FlattensGrow ==
    ASSUME NEW seqs, NEW m \in Nat, NEW f, Flattens(seqs, m, f)
    PROVE  \E g : Flattens(seqs, m + 1, g)
<1> DEFINE next == IF m + 1 = 1 THEN seqs[m + 1] ELSE f[m] \o seqs[m + 1]
           g == [i \in 1 .. m + 1 |-> IF i = m + 1 THEN next ELSE f[i]]
<1>1. \A i \in 1 .. m : f[i] = IF i = 1 THEN seqs[i] ELSE f[i - 1] \o seqs[i]
  <2>1. f = [i \in 1 .. m |-> IF i = 1 THEN seqs[i] ELSE f[i - 1] \o seqs[i]]
    BY Zenon DEF Flattens
  <2> QED BY <2>1, Zenon
<1> HIDE DEF next
<1>2. \A i \in 1 .. m : g[i] = f[i]
  OBVIOUS
<1>3. g[m + 1] = next
  OBVIOUS
<1>4. g = [i \in 1 .. m + 1 |-> g[i]]
  OBVIOUS
<1> HIDE DEF g
<1>5. ASSUME NEW i \in 1 .. m + 1
      PROVE  g[i] = IF i = 1 THEN seqs[i] ELSE g[i - 1] \o seqs[i]
  <2>1. CASE i = m + 1
    <3>1. CASE i = 1
      BY <1>3, <2>1, <3>1 DEF next
    <3>2. CASE i # 1
      <4>1. m \in 1 .. m /\ i - 1 = m
        BY <2>1, <3>2
      <4>2. g[i - 1] = f[m]
        BY <1>2, <4>1
      <4> QED
        BY <1>3, <2>1, <3>2, <4>2 DEF next
    <3> QED BY <3>1, <3>2
  <2>2. CASE i # m + 1
    <3>1. i \in 1 .. m
      BY <2>2
    <3>2. CASE i = 1
      BY <1>1, <1>2, <3>1, <3>2
    <3>3. CASE i # 1
      <4>1. i - 1 \in 1 .. m
        BY <3>1, <3>3
      <4>2. g[i - 1] = f[i - 1] /\ g[i] = f[i]
        BY <1>2, <3>1, <4>1
      <4> QED
        BY <1>1, <3>1, <3>3, <4>2
    <3> QED BY <3>2, <3>3
  <2> QED BY <2>1, <2>2
<1>6. Flattens(seqs, m + 1, g)
  <2>1. g = [i \in 1 .. m + 1 |-> IF i = 1 THEN seqs[i] ELSE g[i - 1] \o seqs[i]]
    BY <1>4, <1>5
  <2> QED BY <2>1, Zenon DEF Flattens
<1> QED BY <1>6

LEMMA FlattensExist ==
    ASSUME NEW seqs, NEW n \in Nat
    PROVE  \E f : Flattens(seqs, n, f)
<1> DEFINE S == {m \in Nat : \E f : Flattens(seqs, m, f)}
<1>1. 0 \in S
  <2> DEFINE g == [i \in 1 .. 0 |-> <<>>]
  <2>1. g = [i \in 1 .. 0 |-> IF i = 1 THEN seqs[i] ELSE g[i - 1] \o seqs[i]]
    OBVIOUS
  <2> HIDE DEF g
  <2>2. Flattens(seqs, 0, g)
    BY <2>1, Zenon DEF Flattens
  <2> QED BY <2>2
<1>2. ASSUME NEW m \in S PROVE m + 1 \in S
  BY FlattensGrow
<1>3. S \in SUBSET Nat
  OBVIOUS
<1> HIDE DEF S
<1>4. S = Nat
  BY <1>1, <1>2, <1>3, CountingUp
<1> QED
  BY <1>4 DEF S

LEMMA FlattenUnfolds ==
    ASSUME NEW E, NEW seqs \in Seq(Seq(E)), Len(seqs) # 0
    PROVE  \E f : /\ FlattenSeq(seqs) = f[Len(seqs)]
                  /\ f[1] = seqs[1]
                  /\ \A i \in 2 .. Len(seqs) : f[i] = f[i - 1] \o seqs[i]
<1> DEFINE n == Len(seqs)
<1>1. n \in Nat \ {0}
  BY LenProperties
<1>2. \E f : Flattens(seqs, n, f)
  BY <1>1, FlattensExist
<1> DEFINE c == CHOOSE f : Flattens(seqs, n, f)
<1>3. Flattens(seqs, n, c)
  BY <1>2, Zenon
<1>4. FlattenSeq(seqs) = c[n]
  BY <1>1, Zenon DEF FlattenSeq, Flattens
<1> HIDE DEF c, n
<1>5. c = [i \in 1 .. n |-> IF i = 1 THEN seqs[i] ELSE c[i - 1] \o seqs[i]]
  BY <1>3, Zenon DEF Flattens
<1>6. \A i \in 1 .. n : c[i] = IF i = 1 THEN seqs[i] ELSE c[i - 1] \o seqs[i]
  BY <1>5, Zenon
<1>7. c[1] = seqs[1] /\ \A i \in 2 .. n : c[i] = c[i - 1] \o seqs[i]
  <2>1. 1 \in 1 .. n /\ \A i \in 2 .. n : i \in 1 .. n /\ i # 1
    BY <1>1
  <2> QED BY <1>6, <2>1, Zenon
<1> QED BY <1>4, <1>7 DEF n

InSeq(s, x) == \E i \in DOMAIN s : s[i] = x

LEMMA ConcatHolds ==
    ASSUME NEW E, NEW s \in Seq(E), NEW t \in Seq(E)
    PROVE  /\ s \o t \in Seq(E) /\ Len(s \o t) = Len(s) + Len(t)
           /\ \A x : InSeq(s \o t, x) <=> InSeq(s, x) \/ InSeq(t, x)
<1> DEFINE u == s \o t
<1>1. /\ u \in Seq(E) /\ Len(u) = Len(s) + Len(t) /\ Len(s) \in Nat /\ Len(t) \in Nat
      /\ DOMAIN u = 1 .. Len(s) + Len(t) /\ DOMAIN s = 1 .. Len(s) /\ DOMAIN t = 1 .. Len(t)
      /\ \A i \in 1 .. Len(s) : u[i] = s[i]
      /\ \A i \in 1 .. Len(t) : u[Len(s) + i] = t[i]
  OBVIOUS
<1> HIDE DEF u
<1>2. ASSUME NEW x, InSeq(u, x) PROVE InSeq(s, x) \/ InSeq(t, x)
  <2>1. PICK i \in 1 .. Len(s) + Len(t) : u[i] = x
    BY <1>1, <1>2 DEF InSeq
  <2>2. CASE i <= Len(s)
    BY <1>1, <2>1, <2>2 DEF InSeq
  <2>3. CASE i > Len(s)
    <3>1. i - Len(s) \in 1 .. Len(t) /\ Len(s) + (i - Len(s)) = i
      BY <1>1, <2>1, <2>3
    <3>2. t[i - Len(s)] = x
      BY <1>1, <2>1, <3>1
    <3> QED BY <1>1, <3>1, <3>2 DEF InSeq
  <2> QED BY <1>1, <2>1, <2>2, <2>3
<1>3. ASSUME NEW x, InSeq(s, x) PROVE InSeq(u, x)
  <2>1. PICK i \in 1 .. Len(s) : s[i] = x
    BY <1>1, <1>3 DEF InSeq
  <2>2. i \in DOMAIN u /\ u[i] = x
    BY <1>1, <2>1
  <2> QED BY <2>2 DEF InSeq
<1>4. ASSUME NEW x, InSeq(t, x) PROVE InSeq(u, x)
  <2>1. PICK i \in 1 .. Len(t) : t[i] = x
    BY <1>1, <1>4 DEF InSeq
  <2>2. Len(s) + i \in DOMAIN u /\ u[Len(s) + i] = x
    BY <1>1, <2>1
  <2> QED BY <2>2 DEF InSeq
<1>5. \A x : InSeq(u, x) <=> InSeq(s, x) \/ InSeq(t, x)
  BY <1>2, <1>3, <1>4
<1> QED BY <1>1, <1>5 DEF u

\* What is in the sequences, and nothing else, is in the one they make.
LEMMA FlattenHolds ==
    ASSUME NEW E, NEW seqs \in Seq(Seq(E))
    PROVE  /\ FlattenSeq(seqs) \in Seq(E)
           /\ \A x : InSeq(FlattenSeq(seqs), x) <=> \E i \in DOMAIN seqs : InSeq(seqs[i], x)
           /\ (\A i \in DOMAIN seqs : Len(seqs[i]) <= 1) => Len(FlattenSeq(seqs)) <= Len(seqs)
<1> DEFINE n == Len(seqs)
<1>1. n \in Nat /\ DOMAIN seqs = 1 .. n /\ \A i \in 1 .. n : seqs[i] \in Seq(E)
  BY LenProperties, ElementOfSeq
<1>2. CASE n = 0
  <2>1. seqs = <<>> /\ FlattenSeq(seqs) = <<>>
    BY <1>2, EmptySeq DEF FlattenSeq
  <2>2. <<>> \in Seq(E) /\ Len(<<>>) = 0 /\ \A x : ~InSeq(<<>>, x)
    BY DEF InSeq
  <2>3. DOMAIN seqs = {}
    BY <1>1, <1>2
  <2>4. \A x : InSeq(FlattenSeq(seqs), x) <=> \E i \in DOMAIN seqs : InSeq(seqs[i], x)
    BY <2>1, <2>2, <2>3
  <2>5. FlattenSeq(seqs) \in Seq(E) /\ Len(FlattenSeq(seqs)) <= Len(seqs)
    <3>1. Len(seqs) = 0 /\ FlattenSeq(seqs) = <<>> /\ 0 <= 0
      BY <1>2, <2>1
    <3>2. FlattenSeq(seqs) \in Seq(E)
      BY <2>2, <3>1, Zenon
    <3>3. Len(FlattenSeq(seqs)) <= Len(seqs)
      BY <2>2, <3>1, Zenon
    <3> QED BY <3>2, <3>3
  <2> QED BY <2>4, <2>5
<1>3. CASE n # 0
  <2>1. PICK f : /\ FlattenSeq(seqs) = f[n]
                 /\ f[1] = seqs[1]
                 /\ \A i \in 2 .. n : f[i] = f[i - 1] \o seqs[i]
    BY <1>3, FlattenUnfolds
  <2> HIDE DEF n
  <2> DEFINE Short == \A i \in 1 .. n : Len(seqs[i]) <= 1
             Good(m) == /\ f[m] \in Seq(E)
                        /\ \A x : InSeq(f[m], x) <=> \E i \in 1 .. m : InSeq(seqs[i], x)
                        /\ Short => Len(f[m]) <= m
             S == {k \in Nat : k < n => Good(k + 1)}
  <2>2. 0 \in S
    <3>1. 1 .. 1 = {1} /\ 1 \in 1 .. n
      BY <1>1, <1>3
    <3>2. Good(1)
      BY <1>1, <2>1, <3>1
    <3> QED BY <3>2
  <2>3. ASSUME NEW k \in Nat, Good(k), k + 1 <= n, k # 0 PROVE Good(k + 1)
    <3>1. k + 1 \in 2 .. n /\ (k + 1) - 1 = k /\ k + 1 \in 1 .. n
      BY <1>1, <2>3
    <3>2. f[k + 1] = f[k] \o seqs[k + 1]
      BY <2>1, <3>1
    <3>3. seqs[k + 1] \in Seq(E)
      BY <1>1, <3>1
    <3>4. /\ f[k + 1] \in Seq(E) /\ Len(f[k + 1]) = Len(f[k]) + Len(seqs[k + 1])
          /\ \A x : InSeq(f[k + 1], x) <=> InSeq(f[k], x) \/ InSeq(seqs[k + 1], x)
      BY <2>3, <3>2, <3>3, ConcatHolds
    <3>5. \A x : (\E i \in 1 .. k + 1 : InSeq(seqs[i], x))
                   <=> (\E i \in 1 .. k : InSeq(seqs[i], x)) \/ InSeq(seqs[k + 1], x)
      <4>1. \A i : i \in 1 .. k + 1 <=> i \in 1 .. k \/ i = k + 1
        OBVIOUS
      <4> QED BY <4>1, Zenon
    <3>6. Short => Len(f[k + 1]) <= k + 1
      <4> SUFFICES ASSUME Short PROVE Len(f[k + 1]) <= k + 1
        OBVIOUS
      <4>1. Len(seqs[k + 1]) <= 1 /\ Len(f[k]) <= k
        BY <2>3, <3>1
      <4>2. Len(f[k]) \in Nat /\ Len(seqs[k + 1]) \in Nat
        BY <2>3, <3>3, LenProperties
      <4>3. Len(f[k + 1]) = Len(f[k]) + Len(seqs[k + 1])
        BY <3>4
      <4> DEFINE a == Len(f[k])
                 b == Len(seqs[k + 1])
                 c == Len(f[k + 1])
      <4>4. c = a + b /\ a \in Nat /\ b \in Nat /\ b <= 1 /\ a <= k
        BY <4>1, <4>2, <4>3
      <4> HIDE DEF Short, a, b, c
      <4>5. c <= k + 1
        BY <4>4
      <4> QED BY <4>5 DEF c
    <3>7. \A x : InSeq(f[k + 1], x) <=> \E i \in 1 .. k + 1 : InSeq(seqs[i], x)
      BY <2>3, <3>4, <3>5
    <3> QED BY <3>4, <3>6, <3>7
  <2>4. S = Nat
    <3>1. \A k \in S : k + 1 \in S
      <4> TAKE k \in S
      <4>1. k \in Nat /\ (k < n => Good(k + 1))
        OBVIOUS
      <4> HIDE DEF Good
      <4>2. k + 1 \in Nat /\ k + 1 # 0 /\ (k + 1 < n => k < n /\ (k + 1) + 1 <= n)
        BY <1>1, <4>1
      <4> QED BY <2>3, <4>1, <4>2
    <3>2. S \in SUBSET Nat
      OBVIOUS
    <3> HIDE DEF S
    <3> QED BY <2>2, <3>1, <3>2, CountingUp
  <2>5. Good(n)
    <3> HIDE DEF Good
    <3>1. n - 1 \in Nat /\ (n - 1) + 1 = n /\ n - 1 < n
      BY <1>1, <1>3
    <3>2. n - 1 < n => Good((n - 1) + 1)
      BY <2>4, <3>1
    <3> QED BY <3>1, <3>2
  <2> QED BY <1>1, <2>1, <2>5 DEF n
<1> QED BY <1>2, <1>3

-----------------------------------------------------------------------------
(* A log.                                                                  *)

EndedLine(line) == [line EXCEPT !.ended = TRUE]

LEMMA EndedLineTyped ==
    ASSUME NEW line \in Lines
    PROVE  /\ EndedLine(line) \in Lines /\ EndedLine(line).nos = line.nos
           /\ EndedLine(line).kind = line.kind /\ EndedLine(line).ended
  BY DEF EndedLine, Lines

\* A rewrite keeps the lines that are not expendable, and ends each.
LEMMA KeptOfHolds ==
    ASSUME NEW lines \in Seq(Lines)
    PROVE  /\ KeptOf(lines) \in Seq(Lines) /\ Len(KeptOf(lines)) <= Len(lines)
           /\ \A x : InSeq(KeptOf(lines), x) <=>
                 \E n \in DOMAIN lines : ~Expendable(lines[n]) /\ x = EndedLine(lines[n])
<1> DEFINE kept == [n \in DOMAIN lines |-> IF Expendable(lines[n]) THEN <<>> ELSE <<EndedLine(lines[n])>>]
<1>1. KeptOf(lines) = FlattenSeq(kept)
  BY Zenon DEF KeptOf, EndedLine
<1>2. /\ Len(lines) \in Nat /\ DOMAIN lines = 1 .. Len(lines)
      /\ \A n \in DOMAIN lines : lines[n] \in Lines /\ EndedLine(lines[n]) \in Lines
  BY EndedLineTyped
<1>3. ASSUME NEW n \in DOMAIN lines
      PROVE  /\ kept[n] \in Seq(Lines) /\ Len(kept[n]) <= 1
             /\ \A x : InSeq(kept[n], x) <=> ~Expendable(lines[n]) /\ x = EndedLine(lines[n])
  <2>1. CASE Expendable(lines[n])
    BY <2>1 DEF InSeq
  <2>2. CASE ~Expendable(lines[n])
    <3>1. kept[n] = <<EndedLine(lines[n])>>
      BY <2>2
    <3> DEFINE y == EndedLine(lines[n])
    <3>2. y \in Lines
      BY <1>2
    <3> HIDE DEF y
    <3>3. <<y>> \in Seq(Lines) /\ Len(<<y>>) = 1 /\ \A x : InSeq(<<y>>, x) <=> x = y
      BY <3>2 DEF InSeq
    <3> QED BY <2>2, <3>1, <3>3 DEF y
  <2> QED BY <2>1, <2>2
<1>4. DOMAIN kept = DOMAIN lines
  OBVIOUS
<1>5. kept = [n \in 1 .. Len(lines) |-> kept[n]]
  BY <1>2
<1> HIDE DEF kept
<1>6. kept \in Seq(Seq(Lines)) /\ Len(kept) = Len(lines)
  BY <1>2, <1>3, <1>5
<1>7. /\ FlattenSeq(kept) \in Seq(Lines) /\ Len(FlattenSeq(kept)) <= Len(kept)
      /\ \A x : InSeq(FlattenSeq(kept), x) <=> \E n \in DOMAIN kept : InSeq(kept[n], x)
  BY <1>3, <1>4, <1>6, FlattenHolds
<1> QED BY <1>1, <1>3, <1>4, <1>6, <1>7

\* A line that parses is one entry of its kind; what shares a line is known to be glued.
Faithful(some) ==
    \A n \in DOMAIN some :
       /\ some[n].nos \subseteq 1 .. Len(kinds)
       /\ some[n].kind = "garbled" => some[n].nos \subseteq glued
       /\ some[n].kind # "garbled" => \E m \in 1 .. Len(kinds) : some[n].nos = {m} /\ some[n].kind = kinds[m]

LogTyped ==
    /\ which \in {"audit", "deadletter", "events"}
    /\ log \in Seq(Lines) /\ Len(log) <= Len(kinds)
    /\ pruner = [at |-> pruner.at, kept |-> pruner.kept]
    /\ pruner.at \in {"idle", "rename"}
    /\ pruner.kept \in Seq(Lines) /\ Len(pruner.kept) <= Len(kinds)
    /\ kinds \in Seq({"accept", "reject"}) /\ Len(kinds) <= MaxLogEntries
    /\ aged \in 0 .. Len(kinds)
    /\ hook \in [Hooks -> {"none", "live", "gone"}]
    /\ raced \subseteq 1 .. Len(kinds) /\ glued \subseteq 1 .. Len(kinds)

\* Each replacement was paid for by a rewrite.
Epochs ==
    /\ epoch \in Nat /\ pruneCount \in 0 .. MaxPrunes
    /\ epoch <= pruneCount
    /\ pruner.at = "rename" => epoch < pruneCount

\* Only the last line may lack its newline.
LinesStand ==
    /\ Faithful(log) /\ Faithful(pruner.kept)
    /\ \A n \in DOMAIN log : n < Len(log) => log[n].ended
    /\ \A n \in DOMAIN pruner.kept : pruner.kept[n].ended

\* What no rewrite may lose.
Evidence(n) ==
    /\ \/ n > aged
       \/ which = "audit" /\ kinds[n] = "reject"
    /\ n \notin raced
    /\ which = "deadletter" => n \notin glued
HasEvidence(some) == \A n \in 1 .. Len(kinds) : Evidence(n) => n \in EntriesIn(some)
EvidenceInHand == pruner.at = "rename" => HasEvidence(pruner.kept)

IndexTyped ==
    /\ index = [rows |-> index.rows, offset |-> index.offset, epoch |-> index.epoch]
    /\ index.rows \subseteq 1 .. Len(kinds) /\ index.offset \in 0 .. MaxLogEntries
    /\ index.epoch \in 0 .. epoch
    /\ blind \in BOOLEAN
    /\ ingester = [i \in Ingesters |-> [at |-> ingester[i].at, offset |-> ingester[i].offset,
                                        epoch |-> ingester[i].epoch, batch |-> ingester[i].batch,
                                        seen |-> ingester[i].seen]]
    /\ \A i \in Ingesters : /\ ingester[i].at \in {"idle", "stat", "read", "commit"}
                            /\ ingester[i].offset \in 0 .. MaxLogEntries
                            /\ ingester[i].epoch \in 0 .. epoch /\ ingester[i].seen \in 0 .. epoch
                            /\ ingester[i].batch \subseteq 1 .. Len(kinds)

\* Of the file of that number: the lines up to the offset are in the rows, if they parse.
Covered(offset, number, held) ==
    number = epoch =>
       /\ offset <= Len(log)
       /\ \A n \in DOMAIN log : n <= offset /\ log[n].kind # "garbled" => log[n].nos \subseteq held

IngestSound(e) ==
    /\ e.at = "stat" => Covered(e.offset, e.epoch, index.rows)
    /\ e.at = "read" => e.offset = 0 \/ Covered(e.offset, e.seen, index.rows)
    /\ e.at = "commit" => Covered(e.offset, e.epoch, index.rows \cup e.batch)
IndexSound ==
    ~blind => /\ Covered(index.offset, index.epoch, index.rows)
              /\ \A i \in Ingesters : IngestSound(ingester[i])

FileInv == LogTyped /\ Epochs /\ LinesStand /\ HasEvidence(log) /\ EvidenceInHand
IndexInv == IndexTyped /\ IndexSound


LEMMA InEntries ==
    ASSUME NEW some, NEW n
    PROVE  n \in EntriesIn(some) <=> \E k \in DOMAIN some : n \in some[k].nos
  BY DEF EntriesIn

LEMMA LogStarts == LogRetentionInit => FileInv /\ IndexInv
<1> SUFFICES ASSUME LogRetentionInit PROVE FileInv /\ IndexInv
  OBVIOUS
<1> USE LogRetentionAssumption DEF LogRetentionAssumption
<1>1. LogTyped
  BY DEF LogRetentionInit, LogTyped
<1>2. Epochs
  BY DEF LogRetentionInit, Epochs
<1>3. LinesStand
  BY DEF LogRetentionInit, LinesStand, Faithful
<1>4. HasEvidence(log) /\ EvidenceInHand
  BY DEF LogRetentionInit, HasEvidence, EvidenceInHand
<1>5. IndexTyped
  <2>1. /\ index.rows = {} /\ index.offset = 0 /\ index.epoch = 0
        /\ index = [rows |-> index.rows, offset |-> index.offset, epoch |-> index.epoch]
        /\ blind = FALSE /\ epoch = 0
    BY DEF LogRetentionInit, EmptyIndex
  <2>2. ingester = [i \in Ingesters |-> [at |-> "idle", offset |-> 0, epoch |-> 0, batch |-> {}, seen |-> 0]]
    BY DEF LogRetentionInit, IdleIngest
  <2>3. MaxLogEntries \in Nat /\ 0 \in 0 .. MaxLogEntries /\ 0 \in 0 .. 0
    OBVIOUS
  <2>4. \A i \in Ingesters : /\ ingester[i].at = "idle" /\ ingester[i].offset = 0 /\ ingester[i].epoch = 0
                             /\ ingester[i].batch = {} /\ ingester[i].seen = 0
    BY <2>2
  <2>5. ingester = [i \in Ingesters |-> [at |-> ingester[i].at, offset |-> ingester[i].offset,
                                        epoch |-> ingester[i].epoch, batch |-> ingester[i].batch,
                                        seen |-> ingester[i].seen]]
    BY <2>2, <2>4
  <2> QED BY <2>1, <2>3, <2>4, <2>5 DEF IndexTyped
<1>6. IndexSound
  BY DEF LogRetentionInit, IndexSound, Covered, IngestSound, EmptyIndex, IdleIngest
<1> QED BY <1>1, <1>2, <1>3, <1>4, <1>5, <1>6 DEF FileInv, IndexInv

\* What the readers do leaves the file alone, and what the writers do the readers.
LEMMA FileSame ==
    ASSUME FileInv, UNCHANGED <<rigidVars, fileVars, aged, hook, pruner, pruneCount>>
    PROVE  FileInv'
<1>1. /\ which' = which /\ log' = log /\ kinds' = kinds /\ epoch' = epoch /\ raced' = raced
      /\ glued' = glued /\ aged' = aged /\ hook' = hook /\ pruner' = pruner /\ pruneCount' = pruneCount
  BY DEF rigidVars, fileVars
<1>2. LogTyped' /\ Epochs'
  BY <1>1 DEF FileInv, LogTyped, Epochs
<1>3. LinesStand'
  BY <1>1 DEF FileInv, LinesStand, Faithful
<1>4. HasEvidence(log)' /\ EvidenceInHand'
  BY <1>1 DEF FileInv, HasEvidence, EvidenceInHand, Evidence, EntriesIn
<1> QED BY <1>2, <1>3, <1>4 DEF FileInv

LEMMA IndexSame ==
    ASSUME IndexInv, UNCHANGED readVars, log' = log, epoch' = epoch, kinds' = kinds
    PROVE  IndexInv'
<1>1. index' = index /\ ingester' = ingester /\ blind' = blind
  BY DEF readVars
<1>2. IndexTyped'
  BY <1>1 DEF IndexInv, IndexTyped
<1>3. IndexSound'
  BY <1>1 DEF IndexInv, IndexSound, IngestSound, Covered
<1> QED BY <1>2, <1>3 DEF IndexInv

LEMMA OpenLogStep == ASSUME FileInv, IndexInv, NEW h \in Hooks, OpenLog(h) PROVE FileInv' /\ IndexInv'
<1>1. /\ which' = which /\ log' = log /\ kinds' = kinds /\ epoch' = epoch /\ raced' = raced
      /\ glued' = glued /\ aged' = aged /\ pruner' = pruner /\ pruneCount' = pruneCount
      /\ hook' = [hook EXCEPT ![h] = "live"] /\ UNCHANGED readVars
  BY DEF OpenLog, rigidVars, fileVars
<1>2. LogTyped' /\ Epochs'
  BY <1>1 DEF FileInv, LogTyped, Epochs
<1>3. LinesStand'
  BY <1>1 DEF FileInv, LinesStand, Faithful
<1>4. HasEvidence(log)' /\ EvidenceInHand'
  BY <1>1 DEF FileInv, HasEvidence, EvidenceInHand, Evidence, EntriesIn
<1> QED BY <1>1, <1>2, <1>3, <1>4, IndexSame DEF FileInv

LEMMA AgeStep == ASSUME FileInv, IndexInv, Age PROVE FileInv' /\ IndexInv'
<1>1. /\ which' = which /\ log' = log /\ kinds' = kinds /\ epoch' = epoch /\ raced' = raced
      /\ glued' = glued /\ aged < Len(kinds) /\ aged' = aged + 1 /\ pruner' = pruner
      /\ pruneCount' = pruneCount /\ hook' = hook /\ UNCHANGED readVars
  BY DEF Age, rigidVars, fileVars
<1>2. LogTyped' /\ Epochs'
  <2>1. Len(kinds) \in Nat
    BY LenProperties DEF FileInv, LogTyped
  <2>2. aged' \in 0 .. Len(kinds)
    BY <1>1, <2>1 DEF FileInv, LogTyped
  <2> QED BY <1>1, <2>2 DEF FileInv, LogTyped, Epochs
<1>3. LinesStand'
  BY <1>1 DEF FileInv, LinesStand, Faithful
<1>4. \A n \in 1 .. Len(kinds) : Evidence(n)' => Evidence(n)
  <2>1. aged \in Nat
    BY DEF FileInv, LogTyped
  <2> QED BY <1>1, <2>1 DEF Evidence
<1>5. HasEvidence(log)' /\ EvidenceInHand'
  BY <1>1, <1>4 DEF FileInv, HasEvidence, EvidenceInHand, EntriesIn
<1> QED BY <1>1, <1>2, <1>3, <1>5, IndexSame DEF FileInv

\* A line behind the others, or, behind one without its newline, part of that one.
AddedLine(new, line) ==
    /\ new \in Seq(Lines)
    /\ \/ /\ Len(new) = Len(log) + 1 /\ new[Len(log) + 1] = line
          /\ \A n \in DOMAIN log : new[n] = log[n]
          /\ \A n \in DOMAIN log : n = Len(log) => log[n].ended
       \/ /\ Len(new) = Len(log) /\ Len(log) # 0
          /\ new[Len(log)].nos = log[Len(log)].nos \cup line.nos
          /\ new[Len(log)].kind = "garbled"
          /\ new[Len(log)].ended = line.ended
          /\ \A n \in DOMAIN log : n # Len(log) => new[n] = log[n]

LEMMA AppendedIs ==
    ASSUME log \in Seq(Lines), NEW line \in Lines
    PROVE  AddedLine(Appended(line), line)
<1>1. /\ Len(log) \in Nat /\ DOMAIN log = 1 .. Len(log)
      /\ log = <<>> <=> Len(log) = 0
  BY EmptySeq
<1>2. CASE log # <<>> /\ ~Last(log).ended
  <2> DEFINE k == Len(log)
             glue == [nos |-> log[k].nos \union line.nos, kind |-> "garbled", ended |-> line.ended]
             new == [log EXCEPT ![k] = glue]
  <2>1. Appended(line) = new
    BY <1>2, Zenon DEF Appended
  <2>2. k \in 1 .. Len(log) /\ log[k] \in Lines
    BY <1>1, <1>2
  <2>3. glue \in Lines /\ glue.nos = log[k].nos \cup line.nos /\ glue.kind = "garbled" /\ glue.ended = line.ended
    BY <2>2 DEF Lines
  <2> HIDE DEF glue
  <2>4. new \in Seq(Lines) /\ Len(new) = Len(log) /\ new[k] = glue /\ \A n \in DOMAIN log : n # k => new[n] = log[n]
    BY <2>2, <2>3
  <2> HIDE DEF new
  <2> QED BY <1>1, <1>2, <2>1, <2>3, <2>4 DEF AddedLine
<1>3. CASE ~(log # <<>> /\ ~Last(log).ended)
  <2> DEFINE new == Append(log, line)
  <2>1. Appended(line) = new
    BY <1>3, Zenon DEF Appended
  <2>2. \A n \in DOMAIN log : n = Len(log) => log[n].ended
    BY <1>1, <1>3 DEF Last
  <2>3. new \in Seq(Lines) /\ Len(new) = Len(log) + 1 /\ new[Len(log) + 1] = line /\ \A n \in DOMAIN log : new[n] = log[n]
    BY <1>1
  <2> HIDE DEF new
  <2> QED BY <2>1, <2>2, <2>3 DEF AddedLine
<1> QED BY <1>2, <1>3

\* The index of what was there covers it still.
LEMMA CoveredStill ==
    ASSUME log \in Seq(Lines), NEW line \in Lines, AddedLine(log', line), epoch' = epoch,
           NEW offset \in Nat, NEW number, NEW held, Covered(offset, number, held)
    PROVE  Covered(offset, number, held)'
<1> SUFFICES ASSUME number = epoch
             PROVE  /\ offset <= Len(log')
                    /\ \A n \in DOMAIN log' : n <= offset /\ log'[n].kind # "garbled" => log'[n].nos \subseteq held
  BY DEF Covered
<1>1. /\ offset <= Len(log)
      /\ \A n \in DOMAIN log : n <= offset /\ log[n].kind # "garbled" => log[n].nos \subseteq held
  BY DEF Covered
<1>2. /\ Len(log) \in Nat /\ DOMAIN log = 1 .. Len(log) /\ log' \in Seq(Lines)
      /\ Len(log') \in Nat /\ DOMAIN log' = 1 .. Len(log')
  BY DEF AddedLine
<1>3. Len(log) <= Len(log')
  <2>1. Len(log') = Len(log) + 1 \/ Len(log') = Len(log)
    BY DEF AddedLine
  <2>2. PICK a \in Nat, b \in Nat : a = Len(log) /\ b = Len(log')
    BY <1>2
  <2>3. b = a + 1 \/ b = a
    BY <2>1, <2>2
  <2>4. a <= b
    BY <2>3
  <2> QED BY <2>2, <2>4
<1>4. ASSUME NEW n \in DOMAIN log', n <= offset, log'[n].kind # "garbled" PROVE log'[n] = log[n] /\ n \in DOMAIN log
  <2>1. n \in 1 .. Len(log)
    BY <1>1, <1>2, <1>4
  <2> QED BY <1>2, <1>4, <2>1 DEF AddedLine
<1> QED BY <1>1, <1>2, <1>3, <1>4

LEMMA IndexSurvives ==
    ASSUME IndexInv, log \in Seq(Lines), NEW line \in Lines, AddedLine(log', line), epoch' = epoch,
           UNCHANGED readVars, Len(kinds) \in Nat, Len(kinds') \in Nat, Len(kinds) <= Len(kinds')
    PROVE  IndexInv'
<1>1. index' = index /\ ingester' = ingester /\ blind' = blind
  BY DEF readVars
<1>2. IndexTyped'
  <2>1. \A s : s \subseteq 1 .. Len(kinds) => s \subseteq 1 .. Len(kinds')
    OBVIOUS
  <2> QED BY <1>1, <2>1 DEF IndexInv, IndexTyped
<1>3. ASSUME ~blind PROVE Covered(index.offset, index.epoch, index.rows)'
  <2>1. index.offset \in Nat /\ Covered(index.offset, index.epoch, index.rows)
    BY <1>3 DEF IndexInv, IndexTyped, IndexSound
  <2> DEFINE o == index.offset
             p == index.epoch
             q == index.rows
  <2>2. o' = o /\ p' = p /\ q' = q
    BY <1>1
  <2> QED BY <1>1, <2>1, CoveredStill DEF Covered
<1>4. ASSUME ~blind, NEW i \in Ingesters PROVE IngestSound(ingester[i])'
  <2> DEFINE e == ingester[i]
  <2>1. e.offset \in Nat /\ IngestSound(e)
    BY <1>4 DEF IndexInv, IndexTyped, IndexSound
  <2>2. e.at = "stat" => Covered(e.offset, e.epoch, index.rows)'
    <3> SUFFICES ASSUME e.at = "stat" PROVE Covered(e.offset, e.epoch, index.rows)'
      OBVIOUS
    <3>1. Covered(e.offset, e.epoch, index.rows)
      BY <2>1 DEF IngestSound
    <3>2. PICK o, p, q : o \in Nat /\ o = e.offset /\ p = e.epoch /\ q = index.rows
      BY <2>1
    <3>3. Covered(o, p, q)'
      BY <3>1, <3>2, CoveredStill
    <3> QED BY <1>1, <3>2, <3>3
  <2>3. e.at = "read" => e.offset = 0 \/ Covered(e.offset, e.seen, index.rows)'
    <3> SUFFICES ASSUME e.at = "read", e.offset # 0 PROVE Covered(e.offset, e.seen, index.rows)'
      OBVIOUS
    <3>1. Covered(e.offset, e.seen, index.rows)
      BY <2>1 DEF IngestSound
    <3>2. PICK o, p, q : o \in Nat /\ o = e.offset /\ p = e.seen /\ q = index.rows
      BY <2>1
    <3>3. Covered(o, p, q)'
      BY <3>1, <3>2, CoveredStill
    <3> QED BY <1>1, <3>2, <3>3
  <2>4. e.at = "commit" => Covered(e.offset, e.epoch, index.rows \cup e.batch)'
    <3> SUFFICES ASSUME e.at = "commit" PROVE Covered(e.offset, e.epoch, index.rows \cup e.batch)'
      OBVIOUS
    <3>1. Covered(e.offset, e.epoch, index.rows \cup e.batch)
      BY <2>1 DEF IngestSound
    <3>2. PICK o, p, q : o \in Nat /\ o = e.offset /\ p = e.epoch /\ q = index.rows \cup e.batch
      BY <2>1
    <3>3. Covered(o, p, q)'
      BY <3>1, <3>2, CoveredStill
    <3> QED BY <1>1, <3>2, <3>3
  <2> QED BY <1>1, <2>2, <2>3, <2>4 DEF IngestSound
<1> QED BY <1>1, <1>2, <1>3, <1>4 DEF IndexInv, IndexSound

\* What a set of lines was, it is still, when an entry is written somewhere else.
LEMMA FaithfulStill ==
    ASSUME NEW some \in Seq(Lines), Faithful(some), glued \subseteq glued',
           Len(kinds) \in Nat, Len(kinds') = Len(kinds) + 1,
           \A m \in 1 .. Len(kinds) : kinds'[m] = kinds[m]
    PROVE  \A n \in DOMAIN some :
              /\ some[n].nos \subseteq 1 .. Len(kinds')
              /\ some[n].kind = "garbled" => some[n].nos \subseteq glued'
              /\ some[n].kind # "garbled" => \E m \in 1 .. Len(kinds') : some[n].nos = {m} /\ some[n].kind = kinds'[m]
<1>1. 1 .. Len(kinds) \subseteq 1 .. Len(kinds')
  OBVIOUS
<1> QED BY <1>1 DEF Faithful

LEMMA WriteLineStep ==
    ASSUME FileInv, IndexInv, NEW h \in Hooks, NEW kind \in {"accept", "reject"}, NEW short \in BOOLEAN,
           WriteLine(h, kind, short)
    PROVE  FileInv' /\ IndexInv'
<1> USE LogRetentionAssumption DEF LogRetentionAssumption
<1>0. Len(kinds) \in Nat /\ kinds \in Seq({"accept", "reject"}) /\ log \in Seq(Lines) /\ MaxLogEntries \in Nat
  BY LenProperties DEF FileInv, LogTyped
<1>a. PICK n \in Nat : n = Len(kinds) + 1
  BY <1>0
<1>b. PICK line : line = [nos |-> {n}, kind |-> IF short THEN "garbled" ELSE kind, ended |-> ~short]
  OBVIOUS
<1>1. /\ hook[h] # "none" /\ Len(kinds) < MaxLogEntries
      /\ kinds' = Append(kinds, kind)
      /\ log' = IF hook[h] = "live" THEN Appended(line) ELSE log
      /\ raced' = IF hook[h] = "live" /\ pruner.at = "idle" THEN raced ELSE raced \union {n}
      /\ glued' = IF log' # log /\ Last(log').kind = "garbled" THEN glued \union Last(log').nos ELSE glued
      /\ hook' = [hook EXCEPT ![h] = "none"]
      /\ which' = which /\ aged' = aged /\ epoch' = epoch /\ pruner' = pruner /\ pruneCount' = pruneCount
      /\ UNCHANGED readVars
  BY <1>a, <1>b DEF WriteLine, rigidVars
<1>2. n \in 1 .. MaxLogEntries
  BY <1>0, <1>1, <1>a
<1>3. /\ line \in Lines /\ line.nos = {n} /\ line.kind = (IF short THEN "garbled" ELSE kind)
      /\ line.ended = ~short
  BY <1>2, <1>b DEF Lines
<1>4. /\ kinds' \in Seq({"accept", "reject"}) /\ Len(kinds') = n /\ kinds'[n] = kind
      /\ \A m \in 1 .. Len(kinds) : kinds'[m] = kinds[m]
  BY <1>0, <1>1, <1>a
<1>5. n \notin 1 .. Len(kinds) /\ n \in 1 .. n /\ 1 .. n = (1 .. Len(kinds)) \cup {n} /\ Len(kinds) <= n
  BY <1>0, <1>a
<1>6. hook[h] = "live" => AddedLine(log', line)
  BY <1>0, <1>1, <1>3, AppendedIs
<1>7. Len(log) \in Nat /\ DOMAIN log = 1 .. Len(log) /\ Len(log) <= Len(kinds)
  BY <1>0 DEF FileInv, LogTyped
<1>8. log' \in Seq(Lines) /\ Len(log') \in Nat /\ DOMAIN log' = 1 .. Len(log')
  BY <1>0, <1>1, <1>6 DEF AddedLine
<1>9. /\ Len(log') = Len(log) + 1 \/ Len(log') = Len(log)
      /\ Len(log') <= n
  <2>1. Len(log') = Len(log) + 1 \/ Len(log') = Len(log)
    BY <1>1, <1>6 DEF AddedLine
  <2>2. PICK a \in Nat, b \in Nat, c \in Nat : a = Len(log) /\ b = Len(log') /\ c = Len(kinds)
    BY <1>0, <1>7, <1>8
  <2>3. (b = a + 1 \/ b = a) /\ a <= c /\ n = c + 1
    BY <2>1, <2>2, <1>7, <1>a
  <2>4. b <= n
    BY <2>3
  <2> QED BY <2>1, <2>2, <2>4
<1>10. ASSUME NEW k \in DOMAIN log PROVE log[k].nos \subseteq 1 .. Len(kinds) /\ n \notin log[k].nos
  BY <1>5, <1>10 DEF FileInv, LinesStand, Faithful
\* What the last line of the log is, when the write reached it.
<1>11. ASSUME hook[h] = "live"
       PROVE  /\ log' # log /\ Len(log') # 0 /\ n \in log'[Len(log')].nos
              /\ log'[Len(log')].ended = ~short
              /\ log'[Len(log')].nos \subseteq 1 .. n
              /\ log'[Len(log')].kind # "garbled" => log'[Len(log')].nos = {n} /\ log'[Len(log')].kind = kind
              /\ \A k \in DOMAIN log' : k # Len(log') => k \in DOMAIN log /\ log'[k] = log[k] /\ log[k].ended
              /\ \A k \in DOMAIN log : k \in DOMAIN log' /\ log[k].nos \subseteq log'[k].nos
  <2>0. AddedLine(log', line) /\ (\A k \in DOMAIN log : k < Len(log) => log[k].ended)
    BY <1>6, <1>11 DEF FileInv, LinesStand
  <2>1. CASE Len(log') = Len(log) + 1
    <3>1. /\ log'[Len(log')] = line /\ \A k \in DOMAIN log : log'[k] = log[k]
          /\ \A k \in DOMAIN log : k = Len(log) => log[k].ended
      <4>1. Len(log') # Len(log) /\ log'[Len(log')] = log'[Len(log) + 1]
        <5>1. log'[Len(log')] = log'[Len(log) + 1]
          BY <2>1, Zenon
        <5>2. PICK a \in Nat : a = Len(log)
          BY <1>7
        <5>3. a + 1 # a
          OBVIOUS
        <5>4. Len(log') # Len(log)
          BY <2>1, <5>2, <5>3, Zenon
        <5> QED BY <5>1, <5>4
      <4>2. /\ log'[Len(log) + 1] = line /\ \A k \in DOMAIN log : log'[k] = log[k]
            /\ \A k \in DOMAIN log : k = Len(log) => log[k].ended
        BY <2>0, <4>1, Zenon DEF AddedLine
      <4> QED BY <4>1, <4>2
    <3>2. \A k \in DOMAIN log' : k # Len(log') => k \in DOMAIN log
      BY <1>7, <1>8, <2>1
    <3>3. \A k \in DOMAIN log : log[k].ended
      BY <1>7, <2>0, <3>1
    <3>4. log' # log /\ Len(log') # 0 /\ (\A k \in DOMAIN log : k \in DOMAIN log')
      BY <1>7, <1>8, <2>1
    <3> QED BY <1>3, <1>5, <3>1, <3>2, <3>3, <3>4
  <2>2. CASE Len(log') # Len(log) + 1
    <3>1. /\ Len(log') = Len(log) /\ Len(log) # 0
          /\ log'[Len(log)].nos = log[Len(log)].nos \cup line.nos
          /\ log'[Len(log)].kind = "garbled"
          /\ log'[Len(log)].ended = line.ended
          /\ \A k \in DOMAIN log : k # Len(log) => log'[k] = log[k]
      BY <1>7, <2>0, <2>2 DEF AddedLine
    <3>2. Len(log) \in DOMAIN log /\ DOMAIN log' = DOMAIN log /\ \A k \in DOMAIN log : k # Len(log) => log[k].ended
      BY <1>7, <1>8, <2>0, <3>1
    <3>3. log'[Len(log)].nos # log[Len(log)].nos /\ log'[Len(log)].nos \subseteq 1 .. n
      BY <1>3, <1>5, <1>10, <3>1, <3>2
    <3> QED BY <1>3, <3>1, <3>2, <3>3
  <2> QED BY <2>1, <2>2
<1>12. /\ glued \subseteq glued' /\ glued' \subseteq 1 .. n
       /\ hook[h] = "live" /\ log'[Len(log')].kind = "garbled" => log'[Len(log')].nos \subseteq glued'
  <2>1. glued \subseteq 1 .. n
    BY <1>5 DEF FileInv, LogTyped
  <2>2. CASE hook[h] = "live"
    BY <1>1, <1>11, <2>1, <2>2 DEF Last
  <2>3. CASE hook[h] # "live"
    BY <1>1, <2>1, <2>3
  <2> QED BY <2>2, <2>3
<1>13. LogTyped'
  <2>1. raced' \subseteq 1 .. Len(kinds')
    BY <1>1, <1>4, <1>5 DEF FileInv, LogTyped
  <2>2. aged' \in 0 .. Len(kinds') /\ Len(kinds') <= MaxLogEntries
    BY <1>0, <1>1, <1>2, <1>4, <1>5 DEF FileInv, LogTyped
  <2>3. Len(pruner'.kept) <= Len(kinds') /\ pruner'.kept \in Seq(Lines)
    <3>1. PICK a \in Nat, c \in Nat : a = Len(pruner.kept) /\ c = Len(kinds) /\ a <= c
      BY <1>0, LenProperties DEF FileInv, LogTyped
    <3>2. a <= n
      BY <3>1, <1>5
    <3> QED BY <1>1, <1>4, <3>1, <3>2 DEF FileInv, LogTyped
  <2>4. hook' \in [Hooks -> {"none", "live", "gone"}]
    BY <1>1 DEF FileInv, LogTyped
  <2> QED BY <1>1, <1>4, <1>8, <1>9, <1>12, <2>1, <2>2, <2>3, <2>4 DEF FileInv, LogTyped
<1>14. Epochs'
  BY <1>1 DEF FileInv, Epochs
<1>15. LinesStand'
  <2>1. Len(kinds') = Len(kinds) + 1
    BY <1>4, <1>a
  <2>2. Faithful(pruner.kept)'
    <3>1. pruner.kept \in Seq(Lines) /\ Faithful(pruner.kept)
      BY DEF FileInv, LogTyped, LinesStand
    <3> QED BY <1>0, <1>1, <1>4, <1>12, <2>1, <3>1, FaithfulStill DEF Faithful
  <2>3. \A k \in DOMAIN log :
              /\ log[k].nos \subseteq 1 .. Len(kinds')
              /\ log[k].kind = "garbled" => log[k].nos \subseteq glued'
              /\ log[k].kind # "garbled" => \E m \in 1 .. Len(kinds') : log[k].nos = {m} /\ log[k].kind = kinds'[m]
    <3>1. Faithful(log)
      BY DEF FileInv, LinesStand
    <3> QED BY <1>0, <1>4, <1>12, <2>1, <3>1, FaithfulStill
  <2>4. Faithful(log)' /\ \A k \in DOMAIN log' : k < Len(log') => log'[k].ended
    <3>1. CASE hook[h] # "live"
      BY <1>1, <2>3, <3>1 DEF Faithful, FileInv, LinesStand
    <3>2. CASE hook[h] = "live"
      <4>1. ASSUME NEW k \in DOMAIN log', k # Len(log')
            PROVE  /\ log'[k].nos \subseteq 1 .. Len(kinds')
                   /\ log'[k].kind = "garbled" => log'[k].nos \subseteq glued'
                   /\ log'[k].kind # "garbled" => \E m \in 1 .. Len(kinds') : log'[k].nos = {m} /\ log'[k].kind = kinds'[m]
                   /\ log'[k].ended
        BY <1>11, <2>3, <3>2, <4>1
      <4>2. ASSUME NEW k \in DOMAIN log', k = Len(log')
            PROVE  /\ log'[k].nos \subseteq 1 .. Len(kinds')
                   /\ log'[k].kind = "garbled" => log'[k].nos \subseteq glued'
                   /\ log'[k].kind # "garbled" => \E m \in 1 .. Len(kinds') : log'[k].nos = {m} /\ log'[k].kind = kinds'[m]
        BY <1>4, <1>5, <1>11, <1>12, <3>2, <4>2
      <4>3. \A k \in DOMAIN log' : k < Len(log') => k # Len(log')
        BY <1>8
      <4> QED BY <4>1, <4>2, <4>3 DEF Faithful
    <3> QED BY <3>1, <3>2
  <2>5. \A k \in DOMAIN pruner'.kept : pruner'.kept[k].ended
    BY <1>1 DEF FileInv, LinesStand
  <2> QED BY <2>2, <2>4, <2>5 DEF LinesStand
<1>16. ASSUME NEW m \in 1 .. Len(kinds), Evidence(m)' PROVE Evidence(m)
  BY <1>1, <1>4, <1>12, <1>16 DEF Evidence
<1>17. ASSUME Evidence(n)' PROVE hook[h] = "live" /\ pruner.at = "idle"
  BY <1>1, <1>17 DEF Evidence
<1>18. ASSUME NEW m, m \in EntriesIn(log) PROVE m \in EntriesIn(log')
  <2>1. PICK k \in DOMAIN log : m \in log[k].nos
    BY <1>18, InEntries
  <2>2. k \in DOMAIN log' /\ log[k].nos \subseteq log'[k].nos
    BY <1>1, <1>11
  <2> QED BY <2>1, <2>2, InEntries
<1>19. HasEvidence(log)'
  <2>1. ASSUME NEW m \in 1 .. n, Evidence(m)' PROVE m \in EntriesIn(log')
    <3>1. CASE m = n
      <4>1. n \in log'[Len(log')].nos /\ Len(log') \in DOMAIN log'
        BY <1>8, <1>11, <1>17, <2>1, <3>1
      <4> QED BY <3>1, <4>1, InEntries
    <3>2. CASE m # n
      <4>1. m \in 1 .. Len(kinds)
        BY <1>5, <3>2
      <4>2. m \in EntriesIn(log)
        BY <1>16, <2>1, <4>1 DEF FileInv, HasEvidence
      <4> QED BY <1>18, <4>2
    <3> QED BY <3>1, <3>2
  <2> QED BY <1>4, <2>1 DEF HasEvidence
<1>20. EvidenceInHand'
  <2>1. ASSUME pruner.at = "rename", NEW m \in 1 .. n, Evidence(m)' PROVE m \in EntriesIn(pruner.kept)
    <3>1. m # n
      BY <1>17, <2>1
    <3>2. m \in 1 .. Len(kinds)
      BY <1>5, <3>1
    <3> QED BY <1>16, <2>1, <3>2 DEF FileInv, EvidenceInHand, HasEvidence
  <2>2. EntriesIn(pruner.kept)' = EntriesIn(pruner.kept)
    BY <1>1 DEF EntriesIn
  <2> QED BY <1>1, <1>4, <2>1, <2>2 DEF EvidenceInHand, HasEvidence
<1>21. IndexInv'
  <2>1. CASE hook[h] = "live"
    <3>1. Len(kinds') \in Nat /\ Len(kinds) <= Len(kinds')
      BY <1>4, <1>5
    <3> QED BY <1>0, <1>1, <1>3, <1>6, <2>1, <3>1, IndexSurvives
  <2>2. CASE hook[h] # "live"
    <3>1. /\ index' = index /\ ingester' = ingester /\ blind' = blind /\ log' = log /\ epoch' = epoch
      BY <1>1, <2>2 DEF readVars
    <3>2. \A s : s \subseteq 1 .. Len(kinds) => s \subseteq 1 .. Len(kinds')
      BY <1>4, <1>5
    <3>3. IndexTyped'
      BY <3>1, <3>2 DEF IndexInv, IndexTyped
    <3>4. IndexSound'
      BY <3>1 DEF IndexInv, IndexSound, IngestSound, Covered
    <3> QED BY <3>3, <3>4 DEF IndexInv
  <2> QED BY <2>1, <2>2
<1> QED BY <1>13, <1>14, <1>15, <1>19, <1>20, <1>21 DEF FileInv

\* A rewrite drops no evidence, whatever it is about to drop.
LEMMA EvidenceSpared ==
    ASSUME FileInv, NEW m \in 1 .. Len(kinds), Evidence(m), NEW k \in DOMAIN log, m \in log[k].nos
    PROVE  ~Expendable(log[k])
<1>1. Len(kinds) \in Nat /\ aged \in Nat /\ Faithful(log)
  BY LenProperties DEF FileInv, LogTyped, LinesStand
<1>2. log[k].kind = "garbled" => m \in glued
  BY <1>1 DEF Faithful
<1>3. log[k].kind # "garbled" => log[k].kind = kinds[m]
  BY <1>1 DEF Faithful
<1>4. (\A n \in log[k].nos : n <= aged) => which = "audit" /\ kinds[m] = "reject"
  <2>1. m \in Nat
    BY <1>1
  <2>2. m <= aged => ~(m > aged)
    BY <1>1, <2>1
  <2> QED BY <2>2 DEF Evidence
<1> QED BY <1>2, <1>3, <1>4 DEF Expendable, Evidence

LEMMA ScanLogStep == ASSUME FileInv, IndexInv, ScanLog PROVE FileInv' /\ IndexInv'
<1>1. /\ which' = which /\ log' = log /\ kinds' = kinds /\ epoch' = epoch /\ raced' = raced
      /\ glued' = glued /\ aged' = aged /\ hook' = hook
      /\ pruner' = [at |-> "rename", kept |-> KeptOf(log)]
      /\ pruner'.at = "rename" /\ pruner'.kept = KeptOf(log)
      /\ pruneCount < MaxPrunes /\ pruneCount' = pruneCount + 1 /\ UNCHANGED readVars
  BY DEF ScanLog, rigidVars, fileVars
<1>2. /\ log \in Seq(Lines) /\ Len(log) \in Nat /\ Len(log) <= Len(kinds) /\ Len(kinds) \in Nat
  BY LenProperties DEF FileInv, LogTyped
<1>3. /\ KeptOf(log) \in Seq(Lines) /\ Len(KeptOf(log)) <= Len(log)
      /\ \A x : InSeq(KeptOf(log), x) <=>
            \E n \in DOMAIN log : ~Expendable(log[n]) /\ x = EndedLine(log[n])
  BY <1>2, KeptOfHolds
<1>a. PICK kept : kept = KeptOf(log)
  OBVIOUS
<1>4. Len(kept) <= Len(kinds)
  <2>1. PICK a \in Nat, b \in Nat, c \in Nat : a = Len(kept) /\ b = Len(log) /\ c = Len(kinds)
    BY <1>2, <1>3, <1>a, LenProperties
  <2>2. a <= b /\ b <= c
    BY <1>2, <1>3, <1>a, <2>1
  <2>3. a <= c
    BY <2>2
  <2> QED BY <2>1, <2>3
<1>5. ASSUME NEW k \in DOMAIN kept
      PROVE  \E n \in DOMAIN log : kept[k] = EndedLine(log[n])
  BY <1>3, <1>5, <1>a DEF InSeq
<1>6. ASSUME NEW n \in DOMAIN log
      PROVE  /\ EndedLine(log[n]).nos = log[n].nos /\ EndedLine(log[n]).kind = log[n].kind
             /\ EndedLine(log[n]).ended
  <2>1. log[n] \in Lines
    BY <1>2
  <2> QED BY <2>1, EndedLineTyped
<1>7. LogTyped'
  BY <1>1, <1>3, <1>4, <1>a DEF FileInv, LogTyped
<1>8. Epochs'
  BY <1>1, LogRetentionAssumption DEF FileInv, Epochs, LogRetentionAssumption
<1>9. LinesStand'
  <2>1. Faithful(kept) /\ \A k \in DOMAIN kept : kept[k].ended
    <3>1. Faithful(log)
      BY DEF FileInv, LinesStand
    <3> QED BY <1>5, <1>6, <3>1 DEF Faithful
  <2>2. Faithful(kept)' /\ Faithful(log)'
    BY <1>1, <2>1 DEF FileInv, LinesStand, Faithful
  <2> QED BY <1>1, <1>a, <2>1, <2>2 DEF FileInv, LinesStand, Faithful
<1>10. HasEvidence(kept)
  <2>1. ASSUME NEW m \in 1 .. Len(kinds), Evidence(m) PROVE m \in EntriesIn(kept)
    <3>1. PICK k \in DOMAIN log : m \in log[k].nos
      BY <2>1, InEntries DEF FileInv, HasEvidence
    <3>2. InSeq(kept, EndedLine(log[k]))
      BY <1>3, <1>a, <2>1, <3>1, EvidenceSpared
    <3>3. PICK j \in DOMAIN kept : kept[j] = EndedLine(log[k])
      BY <3>2 DEF InSeq
    <3>4. m \in kept[j].nos
      BY <1>6, <3>1, <3>3
    <3> QED BY <3>4, InEntries
  <2> QED BY <2>1 DEF HasEvidence
<1>11. HasEvidence(log)' /\ EvidenceInHand'
  BY <1>1, <1>a, <1>10 DEF FileInv, HasEvidence, EvidenceInHand, Evidence, EntriesIn
<1> QED BY <1>1, <1>7, <1>8, <1>9, <1>11, IndexSame DEF FileInv

LEMMA RenameLogStep == ASSUME FileInv, IndexInv, RenameLog PROVE FileInv' /\ IndexInv'
<1>1. /\ which' = which /\ log' = pruner.kept /\ kinds' = kinds /\ epoch' = epoch + 1 /\ raced' = raced
      /\ glued' = glued /\ aged' = aged /\ pruner.at = "rename"
      /\ hook' = [h \in Hooks |-> IF hook[h] = "live" THEN "gone" ELSE hook[h]]
      /\ pruner' = [at |-> "idle", kept |-> <<>>] /\ pruner'.at = "idle" /\ pruner'.kept = <<>>
      /\ pruneCount' = pruneCount /\ UNCHANGED readVars
  BY DEF RenameLog, rigidVars
<1>2. LogTyped'
  <2>1. Len(kinds) \in Nat /\ <<>> \in Seq(Lines) /\ Len(<<>>) = 0
    BY LenProperties DEF FileInv, LogTyped
  <2>2. Len(pruner'.kept) <= Len(kinds')
    BY <1>1, <2>1
  <2>3. hook' \in [Hooks -> {"none", "live", "gone"}]
    BY <1>1 DEF FileInv, LogTyped
  <2> QED BY <1>1, <2>1, <2>2, <2>3 DEF FileInv, LogTyped
<1>3. Epochs'
  BY <1>1 DEF FileInv, Epochs
<1>4. LinesStand'
  BY <1>1 DEF FileInv, LinesStand, Faithful
<1>5. HasEvidence(log)' /\ EvidenceInHand'
  BY <1>1 DEF FileInv, HasEvidence, EvidenceInHand, Evidence, EntriesIn
<1>6. index' = index /\ ingester' = ingester /\ blind' = blind /\ epoch \in Nat
  BY <1>1 DEF readVars, FileInv, Epochs
<1>7. IndexTyped'
  <2>1. \A x : x \in 0 .. epoch => x \in 0 .. epoch + 1
    BY <1>6
  <2> QED BY <1>1, <1>6, <2>1 DEF IndexInv, IndexTyped
\* What was known of the file that was replaced says nothing of the one that replaced it.
<1>8. ASSUME NEW offset, NEW number \in 0 .. epoch, NEW held PROVE Covered(offset, number, held)'
  <2>1. number # epoch + 1
    BY <1>6
  <2> QED BY <1>1, <2>1 DEF Covered
<1>9. IndexSound'
  <2>1. Covered(index.offset, index.epoch, index.rows)'
    <3>1. index.epoch \in 0 .. epoch
      BY DEF IndexInv, IndexTyped
    <3>2. PICK o, p, q : o = index.offset /\ p = index.epoch /\ q = index.rows
      OBVIOUS
    <3>3. Covered(o, p, q)'
      BY <1>8, <3>1, <3>2
    <3> QED BY <1>6, <3>2, <3>3
  <2>2. ASSUME NEW i \in Ingesters PROVE IngestSound(ingester[i])'
    <3>1. ingester[i].epoch \in 0 .. epoch /\ ingester[i].seen \in 0 .. epoch
      BY DEF IndexInv, IndexTyped
    <3>2. PICK e : e = ingester[i]
      OBVIOUS
    <3>3. PICK q, r : q = index.rows /\ r = index.rows \cup e.batch
      OBVIOUS
    <3>4. PICK o, p, s : o = e.offset /\ p = e.epoch /\ s = e.seen
      OBVIOUS
    <3>5. Covered(o, p, q)' /\ Covered(o, s, q)' /\ Covered(o, p, r)'
      BY <1>8, <3>1, <3>2, <3>4
    <3> QED BY <1>6, <3>2, <3>3, <3>4, <3>5 DEF IngestSound
  <2> QED BY <1>6, <2>1, <2>2 DEF IndexSound
<1> QED BY <1>2, <1>3, <1>4, <1>5, <1>7, <1>9 DEF FileInv, IndexInv

LEMMA PruneFailsStep == ASSUME FileInv, IndexInv, PruneFails PROVE FileInv' /\ IndexInv'
<1>1. /\ which' = which /\ log' = log /\ kinds' = kinds /\ epoch' = epoch /\ raced' = raced
      /\ glued' = glued /\ aged' = aged /\ hook' = hook
      /\ pruner' = [at |-> "idle", kept |-> <<>>] /\ pruner'.at = "idle" /\ pruner'.kept = <<>>
      /\ pruneCount' = pruneCount /\ UNCHANGED readVars
  BY DEF PruneFails, rigidVars, fileVars
<1>2. LogTyped'
  <2>1. Len(kinds) \in Nat /\ <<>> \in Seq(Lines) /\ Len(<<>>) = 0
    BY LenProperties DEF FileInv, LogTyped
  <2>2. Len(pruner'.kept) <= Len(kinds')
    BY <1>1, <2>1
  <2> QED BY <1>1, <2>1, <2>2 DEF FileInv, LogTyped
<1>3. Epochs'
  BY <1>1 DEF FileInv, Epochs
<1>4. LinesStand'
  BY <1>1 DEF FileInv, LinesStand, Faithful
<1>5. HasEvidence(log)' /\ EvidenceInHand'
  BY <1>1 DEF FileInv, HasEvidence, EvidenceInHand, Evidence, EntriesIn
<1> QED BY <1>1, <1>2, <1>3, <1>4, <1>5, IndexSame DEF FileInv

-----------------------------------------------------------------------------
(* The readers of a log.                                                   *)

IngestTyped(e) ==
    /\ e.at \in {"idle", "stat", "read", "commit"}
    /\ e.offset \in 0 .. MaxLogEntries
    /\ e.epoch \in 0 .. epoch /\ e.seen \in 0 .. epoch
    /\ e.batch \subseteq 1 .. Len(kinds)

LEMMA IngesterTyped ==
    ASSUME IndexTyped, NEW i \in Ingesters
    PROVE  IngestTyped(ingester[i])
  BY DEF IndexTyped, IngestTyped

\* The readers stay records when one of them is replaced by a record.
LEMMA OneRecord ==
    ASSUME ingester = [j \in Ingesters |-> [at |-> ingester[j].at, offset |-> ingester[j].offset,
                                            epoch |-> ingester[j].epoch, batch |-> ingester[j].batch,
                                            seen |-> ingester[j].seen]],
           NEW i \in Ingesters, NEW e,
           e = [at |-> e.at, offset |-> e.offset, epoch |-> e.epoch, batch |-> e.batch, seen |-> e.seen],
           ingester' = [ingester EXCEPT ![i] = e]
    PROVE  ingester' = [j \in Ingesters |-> [at |-> ingester'[j].at, offset |-> ingester'[j].offset,
                                             epoch |-> ingester'[j].epoch, batch |-> ingester'[j].batch,
                                             seen |-> ingester'[j].seen]]
<1>1. /\ DOMAIN ingester = Ingesters /\ ingester'[i] = e
      /\ \A j \in Ingesters : j # i => ingester'[j] = ingester[j]
  OBVIOUS
<1>2. ASSUME NEW j \in Ingesters
      PROVE  ingester'[j] = [at |-> ingester'[j].at, offset |-> ingester'[j].offset,
                             epoch |-> ingester'[j].epoch, batch |-> ingester'[j].batch,
                             seen |-> ingester'[j].seen]
  <2>1. CASE j = i
    BY <1>1, <2>1, Zenon
  <2>2. CASE j # i
    <3>1. ingester[j] = [k \in Ingesters |-> [at |-> ingester[k].at, offset |-> ingester[k].offset,
                                  epoch |-> ingester[k].epoch, batch |-> ingester[k].batch,
                                  seen |-> ingester[k].seen]][j]
      BY Zenon
    <3>2. ingester[j] = [at |-> ingester[j].at, offset |-> ingester[j].offset,
                         epoch |-> ingester[j].epoch, batch |-> ingester[j].batch,
                         seen |-> ingester[j].seen]
      BY <3>1, Zenon
    <3> QED BY <1>1, <2>2, <3>2, Zenon
  <2> QED BY <2>1, <2>2
<1>3. ingester' = [j \in Ingesters |-> ingester'[j]]
  BY <1>1
<1> QED BY <1>2, <1>3, Zenon

\* One reader goes on, and what it goes on with is sound.
LEMMA OneReads ==
    ASSUME FileInv, IndexInv, UNCHANGED <<rigidVars, fileVars, aged, hook, pruner, pruneCount>>,
           index' = index, blind' \in BOOLEAN, ~blind' => ~blind,
           NEW i \in Ingesters, NEW e,
           e = [at |-> e.at, offset |-> e.offset, epoch |-> e.epoch, batch |-> e.batch, seen |-> e.seen],
           IngestTyped(e), ~blind' => IngestSound(e),
           ingester' = [ingester EXCEPT ![i] = e]
    PROVE  FileInv' /\ IndexInv'
<1>1. FileInv'
  BY FileSame
<1>2. log' = log /\ epoch' = epoch /\ kinds' = kinds
  BY DEF fileVars
<1>3. /\ DOMAIN ingester = Ingesters /\ ingester'[i] = e
      /\ \A j \in Ingesters : j # i => ingester'[j] = ingester[j]
  BY DEF IndexInv, IndexTyped
<1>4. \A j \in Ingesters : IngestTyped(ingester'[j])
  BY <1>3, IngesterTyped DEF IndexInv
<1>5. ingester' = [j \in Ingesters |-> [at |-> ingester'[j].at, offset |-> ingester'[j].offset,
                                        epoch |-> ingester'[j].epoch, batch |-> ingester'[j].batch,
                                        seen |-> ingester'[j].seen]]
  BY OneRecord DEF IndexInv, IndexTyped
<1>6. IndexTyped'
  BY <1>2, <1>4, <1>5 DEF IndexInv, IndexTyped, IngestTyped
<1>7. ASSUME ~blind' PROVE Covered(index.offset, index.epoch, index.rows)'
  BY <1>2, <1>7 DEF IndexInv, IndexSound, Covered
<1>8. ASSUME ~blind', NEW j \in Ingesters PROVE IngestSound(ingester[j])'
  <2>1. IngestSound(ingester'[j])
    BY <1>3, <1>8 DEF IndexInv, IndexSound
  <2> QED BY <1>2, <2>1 DEF IngestSound, Covered
<1>9. IndexSound'
  BY <1>7, <1>8 DEF IndexSound
<1> QED BY <1>1, <1>6, <1>9 DEF IndexInv

LEMMA IdleLogReader ==
    ASSUME epoch \in Nat
    PROVE  /\ IdleIngest = [at |-> IdleIngest.at, offset |-> IdleIngest.offset, epoch |-> IdleIngest.epoch,
                            batch |-> IdleIngest.batch, seen |-> IdleIngest.seen]
           /\ IngestTyped(IdleIngest) /\ IngestSound(IdleIngest)
<1> USE LogRetentionAssumption DEF LogRetentionAssumption
<1>1. /\ IdleIngest.at = "idle" /\ IdleIngest.offset = 0 /\ IdleIngest.epoch = 0
      /\ IdleIngest.batch = {} /\ IdleIngest.seen = 0
      /\ IdleIngest = [at |-> "idle", offset |-> 0, epoch |-> 0, batch |-> {}, seen |-> 0]
  BY DEF IdleIngest
<1>2. 0 \in 0 .. MaxLogEntries /\ 0 \in 0 .. epoch
  OBVIOUS
<1> QED BY <1>1, <1>2 DEF IngestTyped, IngestSound

LEMMA LoadOffsetStep ==
    ASSUME FileInv, IndexInv, NEW i \in Ingesters, LoadOffset(i) PROVE FileInv' /\ IndexInv'
<1>1. PICK e : e = [IdleIngest EXCEPT !.at = "stat", !.offset = index.offset, !.epoch = index.epoch]
  OBVIOUS
<1>2. /\ UNCHANGED <<rigidVars, fileVars, aged, hook, pruner, pruneCount>>
      /\ index' = index /\ blind' = blind /\ ingester' = [ingester EXCEPT ![i] = e]
  BY <1>1 DEF LoadOffset
<1>3. e = [at |-> "stat", offset |-> index.offset, epoch |-> index.epoch, batch |-> {}, seen |-> 0]
  BY <1>1 DEF IdleIngest
<1>4. /\ e.at = "stat" /\ e.offset = index.offset /\ e.epoch = index.epoch /\ e.batch = {} /\ e.seen = 0
      /\ e = [at |-> e.at, offset |-> e.offset, epoch |-> e.epoch, batch |-> e.batch, seen |-> e.seen]
  BY <1>3
<1>5. IngestTyped(e)
  <2>1. 0 \in 0 .. epoch
    BY DEF FileInv, Epochs
  <2> QED BY <1>4, <2>1 DEF IndexInv, IndexTyped, IngestTyped
<1>6. ~blind => IngestSound(e)
  BY <1>4 DEF IndexInv, IndexSound, IngestSound
<1>7. blind' \in BOOLEAN
  BY <1>2 DEF IndexInv, IndexTyped
<1> QED BY <1>2, <1>4, <1>5, <1>6, <1>7, OneReads

LEMMA StatLogStep ==
    ASSUME FileInv, IndexInv, NEW i \in Ingesters, StatLog(i) PROVE FileInv' /\ IndexInv'
<1> USE LogRetentionAssumption DEF LogRetentionAssumption
<1>a. PICK d : d = ingester[i]
  OBVIOUS
<1>b. d = [at |-> d.at, offset |-> d.offset, epoch |-> d.epoch, batch |-> d.batch, seen |-> d.seen]
  BY <1>a DEF IndexInv, IndexTyped
<1>1. PICK e : e = [d EXCEPT !.at = "read", !.offset = StartAt(d.offset), !.seen = epoch]
  OBVIOUS
<1>2. /\ UNCHANGED <<rigidVars, fileVars, aged, hook, pruner, pruneCount>>
      /\ d.at = "stat" /\ index' = index /\ ingester' = [ingester EXCEPT ![i] = e]
      /\ blind' = (blind \/ (0 < d.offset /\ d.offset <= Cardinality(Ended) /\ d.epoch # epoch))
  BY <1>a, <1>1 DEF StatLog
<1>3. e = [at |-> "read", offset |-> StartAt(d.offset), epoch |-> d.epoch, batch |-> d.batch, seen |-> epoch]
  BY <1>1, <1>b
<1>4. /\ e.at = "read" /\ e.offset = StartAt(d.offset) /\ e.epoch = d.epoch /\ e.batch = d.batch /\ e.seen = epoch
      /\ e = [at |-> e.at, offset |-> e.offset, epoch |-> e.epoch, batch |-> e.batch, seen |-> e.seen]
  BY <1>3
<1>5. IngestTyped(d) /\ epoch \in Nat
  BY <1>a, IngesterTyped DEF IndexInv, FileInv, Epochs
<1>6. IngestTyped(e)
  BY <1>4, <1>5 DEF IngestTyped, StartAt
<1>7. ASSUME ~blind' PROVE IngestSound(e)
  <2>1. CASE e.offset = 0
    BY <1>4, <2>1 DEF IngestSound
  <2>2. CASE e.offset # 0
    <3>1. e.offset = d.offset /\ ~(Cardinality(Ended) < d.offset) /\ 0 < d.offset
      BY <1>4, <1>5, <2>2 DEF StartAt, IngestTyped
    <3>2. d.offset <= Cardinality(Ended)
      <4>1. Cardinality(Ended) \in Nat
        <5>1. IsFiniteSet(DOMAIN log)
          <6>1. DOMAIN log = 1 .. Len(log) /\ Len(log) \in Nat
            BY LenProperties DEF FileInv, LogTyped
          <6>2. PICK n \in Nat : n = Len(log)
            BY <6>1
          <6>3. IsFiniteSet(1 .. n)
            <7>1. 1 \in Int /\ n \in Int
              OBVIOUS
            <7> QED BY <7>1, FS_Interval
          <6> QED BY <6>1, <6>2, <6>3
        <5>2. Ended \subseteq DOMAIN log
          BY DEF Ended
        <5> QED BY <5>1, <5>2, FS_Subset, FS_CardinalityType
      <4>2. d.offset \in Nat
        BY <1>5 DEF IngestTyped
      <4> QED BY <3>1, <4>1, <4>2
    <3>3. d.epoch = epoch
      BY <1>2, <1>7, <3>1, <3>2
    <3>4. Covered(d.offset, d.epoch, index.rows)
      BY <1>2, <1>7, <1>a DEF IndexInv, IndexSound, IngestSound
    <3>5. Covered(e.offset, e.seen, index.rows)
      BY <1>4, <3>1, <3>3, <3>4
    <3> QED BY <1>4, <3>5 DEF IngestSound
  <2> QED BY <2>1, <2>2
<1>8. blind' \in BOOLEAN /\ (~blind' => ~blind)
  BY <1>2 DEF IndexInv, IndexTyped
<1> QED BY <1>2, <1>4, <1>6, <1>7, <1>8, OneReads

\* A reader sees the first lines, as many as end.
LEMMA EndedFirst ==
    ASSUME FileInv
    PROVE  /\ Cardinality(Ended) \in Nat /\ Cardinality(Ended) <= Len(log)
           /\ Ended = 1 .. Cardinality(Ended)
<1>1. /\ Len(log) \in Nat /\ DOMAIN log = 1 .. Len(log)
      /\ \A n \in DOMAIN log : n < Len(log) => log[n].ended
  BY LenProperties DEF FileInv, LogTyped, LinesStand
<1>2. PICK k \in Nat : k = Len(log)
  BY <1>1
<1>3. PICK m \in Nat : m <= k /\ Ended = 1 .. m
  <2>1. CASE k = 0 \/ log[k].ended
    <3>1. Ended = 1 .. k
      BY <1>1, <1>2, <2>1 DEF Ended
    <3> QED BY <3>1
  <2>2. CASE ~(k = 0 \/ log[k].ended)
    <3>1. k - 1 \in Nat /\ k - 1 <= k
      BY <2>2
    <3>2. Ended = 1 .. k - 1
      BY <1>1, <1>2, <2>2 DEF Ended
    <3> QED BY <3>1, <3>2
  <2> QED BY <2>1, <2>2
<1>4. Cardinality(1 .. m) = m
  <2>1. Cardinality(1 .. m) = IF 1 > m THEN 0 ELSE m - 1 + 1
    BY FS_Interval
  <2> QED BY <2>1
<1> QED BY <1>2, <1>3, <1>4

LEMMA ReadLogStep ==
    ASSUME FileInv, IndexInv, NEW i \in Ingesters, ReadLog(i) PROVE FileInv' /\ IndexInv'
<1> USE LogRetentionAssumption DEF LogRetentionAssumption
<1>a. PICK d : d = ingester[i]
  OBVIOUS
<1>b. PICK new : new = {n \in Ended : n > d.offset}
  OBVIOUS
<1>c. PICK read : read = UNION {log[n].nos : n \in {m \in new : log[m].kind # "garbled"}}
  OBVIOUS
<1>d. PICK far : far = IF new = {} THEN d.offset ELSE Cardinality(Ended)
  OBVIOUS
<1>1. PICK e : e = [at |-> "commit", offset |-> far, epoch |-> epoch, batch |-> read, seen |-> 0]
  OBVIOUS
<1>2. /\ UNCHANGED <<rigidVars, fileVars, aged, hook, pruner, pruneCount>>
      /\ d.at = "read" /\ index' = index /\ ingester' = [ingester EXCEPT ![i] = e]
      /\ blind' = (blind \/ (0 < d.offset /\ d.seen # epoch))
  BY <1>a, <1>b, <1>c, <1>d, <1>1 DEF ReadLog
<1>3. /\ e.at = "commit" /\ e.offset = far /\ e.epoch = epoch /\ e.batch = read /\ e.seen = 0
      /\ e = [at |-> e.at, offset |-> e.offset, epoch |-> e.epoch, batch |-> e.batch, seen |-> e.seen]
  BY <1>1
<1>4. IngestTyped(d) /\ epoch \in Nat
  BY <1>a, IngesterTyped DEF IndexInv, FileInv, Epochs
<1>5. /\ Len(log) \in Nat /\ DOMAIN log = 1 .. Len(log) /\ Faithful(log)
      /\ Len(log) <= MaxLogEntries
  <2>1. Len(log) \in Nat /\ Len(kinds) \in Nat /\ Len(log) <= Len(kinds) /\ Len(kinds) <= MaxLogEntries
    BY LenProperties DEF FileInv, LogTyped
  <2>2. PICK a \in Nat, b \in Nat : a = Len(log) /\ b = Len(kinds)
    BY <2>1
  <2>3. a <= MaxLogEntries
    BY <2>1, <2>2
  <2>4. DOMAIN log = 1 .. Len(log) /\ Faithful(log)
    BY LenProperties DEF FileInv, LogTyped, LinesStand
  <2> QED BY <2>1, <2>2, <2>3, <2>4
<1>6. PICK m \in Nat : m = Cardinality(Ended) /\ m <= Len(log) /\ Ended = 1 .. m
  BY EndedFirst
<1>7. IngestTyped(e)
  <2>1. read \subseteq 1 .. Len(kinds)
    <3>1. ASSUME NEW n \in new PROVE log[n].nos \subseteq 1 .. Len(kinds)
      <4>1. n \in DOMAIN log
        BY <1>b, <3>1 DEF Ended
      <4> QED BY <1>5, <4>1 DEF Faithful
    <3> QED BY <1>c, <3>1
  <2>2. far \in 0 .. MaxLogEntries
    BY <1>4, <1>5, <1>6, <1>d DEF IngestTyped
  <2>3. epoch \in 0 .. epoch /\ 0 \in 0 .. epoch
    BY <1>4
  <2> QED BY <1>3, <2>1, <2>2, <2>3 DEF IngestTyped
<1>8. ASSUME ~blind' PROVE Covered(far, epoch, index.rows \cup read)
  <2>1. Covered(d.offset, epoch, index.rows)
    <3>1. d.offset \in Nat /\ (d.offset = 0 \/ 0 < d.offset)
      BY <1>4 DEF IngestTyped
    <3>2. CASE d.offset = 0
      <4>1. 0 <= Len(log) /\ \A n \in DOMAIN log : ~(n <= 0)
        BY <1>5
      <4> QED BY <3>2, <4>1 DEF Covered
    <3>3. CASE 0 < d.offset
      <4>0. d.offset # 0
        BY <3>1, <3>3
      <4>1. d.seen = epoch /\ ~blind /\ d.offset # 0
        BY <1>2, <1>8, <3>3, <4>0, Zenon
      <4>2. IngestSound(d)
        BY <1>a, <4>1 DEF IndexInv, IndexSound
      <4> QED BY <1>2, <4>1, <4>2 DEF IngestSound
    <3> QED BY <3>1, <3>2, <3>3
  <2>2. /\ d.offset <= Len(log) /\ d.offset \in Nat
        /\ \A n \in DOMAIN log : n <= d.offset /\ log[n].kind # "garbled" => log[n].nos \subseteq index.rows
    BY <1>4, <2>1 DEF Covered, IngestTyped
  <2>3. far <= Len(log)
    BY <1>6, <1>d, <2>2
  <2>4. ASSUME NEW n \in DOMAIN log, n <= far, log[n].kind # "garbled"
        PROVE  log[n].nos \subseteq index.rows \cup read
    <3>1. CASE n <= d.offset
      BY <2>2, <2>4, <3>1
    <3>2. CASE ~(n <= d.offset)
      <4>1. n \in Nat /\ n > d.offset
        BY <1>5, <2>2, <3>2
      <4>2. new # {}
        BY <1>d, <2>4, <3>2
      <4>3. n \in Ended
        <5>1. far = m
          BY <1>6, <1>d, <4>2
        <5>2. n \in 1 .. m
          BY <1>5, <2>4, <4>1, <5>1
        <5> QED BY <1>6, <5>2
      <4>4. n \in new
        BY <1>b, <4>1, <4>3
      <4> QED BY <1>c, <2>4, <4>4
    <3> QED BY <3>1, <3>2
  <2> QED BY <2>3, <2>4 DEF Covered
<1>9. ~blind' => IngestSound(e)
  BY <1>3, <1>8 DEF IngestSound
<1>10. blind' \in BOOLEAN /\ (~blind' => ~blind)
  BY <1>2 DEF IndexInv, IndexTyped
<1> QED BY <1>2, <1>3, <1>7, <1>9, <1>10, OneReads

LEMMA IngestFailsStep ==
    ASSUME FileInv, IndexInv, NEW i \in Ingesters, IngestFails(i) PROVE FileInv' /\ IndexInv'
<1>1. /\ UNCHANGED <<rigidVars, fileVars, aged, hook, pruner, pruneCount>>
      /\ index' = index /\ blind' = blind /\ ingester' = [ingester EXCEPT ![i] = IdleIngest]
  BY DEF IngestFails
<1>2. blind' \in BOOLEAN /\ (~blind' => ~blind) /\ epoch \in Nat
  BY <1>1 DEF IndexInv, IndexTyped, FileInv, Epochs
<1>3. PICK e : e = IdleIngest
  OBVIOUS
<1>4. /\ e = [at |-> e.at, offset |-> e.offset, epoch |-> e.epoch, batch |-> e.batch, seen |-> e.seen]
      /\ IngestTyped(e) /\ IngestSound(e)
  BY <1>2, <1>3, IdleLogReader
<1> QED BY <1>1, <1>2, <1>3, <1>4, OneReads

\* The database holds more, and covers what it covered.
LEMMA CoveredMore ==
    ASSUME NEW offset, NEW number, NEW held, NEW more, held \subseteq more, Covered(offset, number, held)
    PROVE  Covered(offset, number, more)
  BY DEF Covered

LEMMA CommitIndexStep ==
    ASSUME FileInv, IndexInv, NEW i \in Ingesters, CommitIndex(i) PROVE FileInv' /\ IndexInv'
<1>a. PICK d : d = ingester[i]
  OBVIOUS
<1>1. /\ UNCHANGED <<rigidVars, fileVars, aged, hook, pruner, pruneCount>>
      /\ d.at = "commit" /\ blind' = blind /\ ingester' = [ingester EXCEPT ![i] = IdleIngest]
      /\ index' = [rows |-> index.rows \union d.batch, offset |-> d.offset, epoch |-> d.epoch]
      /\ index'.rows = index.rows \cup d.batch /\ index'.offset = d.offset /\ index'.epoch = d.epoch
      /\ index' = [rows |-> index'.rows, offset |-> index'.offset, epoch |-> index'.epoch]
  BY <1>a DEF CommitIndex
<1>2. FileInv'
  BY <1>1, FileSame
<1>3. log' = log /\ epoch' = epoch /\ kinds' = kinds /\ epoch \in Nat
  BY <1>1 DEF fileVars, FileInv, Epochs
<1>4. PICK e : e = IdleIngest
  OBVIOUS
<1>5. /\ e = [at |-> e.at, offset |-> e.offset, epoch |-> e.epoch, batch |-> e.batch, seen |-> e.seen]
      /\ IngestTyped(e) /\ e.at = "idle"
  BY <1>3, <1>4, IdleLogReader DEF IdleIngest
<1>6. IngestTyped(d)
  BY <1>a, IngesterTyped DEF IndexInv
<1>7. IndexTyped'
  <2>1. IndexTyped /\ blind \in BOOLEAN
    BY DEF IndexInv, IndexTyped
  <2>2. /\ DOMAIN ingester = Ingesters /\ ingester'[i] = e
        /\ \A j \in Ingesters : j # i => ingester'[j] = ingester[j]
    BY <1>1, <1>4 DEF IndexInv, IndexTyped
  <2>3. \A j \in Ingesters : IngestTyped(ingester'[j])
    BY <1>5, <2>1, <2>2, IngesterTyped
  <2>4. ingester' = [j \in Ingesters |-> [at |-> ingester'[j].at, offset |-> ingester'[j].offset,
                                        epoch |-> ingester'[j].epoch, batch |-> ingester'[j].batch,
                                        seen |-> ingester'[j].seen]]
    BY <1>1, <1>4, <1>5, OneRecord DEF IndexInv, IndexTyped
  <2> QED BY <1>1, <1>3, <1>6, <2>1, <2>3, <2>4 DEF IndexTyped, IngestTyped
<1>8. IndexSound'
  <2> SUFFICES ASSUME ~blind
               PROVE  /\ Covered(index.offset, index.epoch, index.rows)'
                      /\ \A j \in Ingesters : IngestSound(ingester[j])'
    BY <1>1 DEF IndexSound
  <2>1. Covered(d.offset, d.epoch, index.rows \cup d.batch)
    BY <1>1, <1>a DEF IndexInv, IndexSound, IngestSound
  <2>2. Covered(index.offset, index.epoch, index.rows)'
    BY <1>1, <1>3, <2>1 DEF Covered
  <2>3. ASSUME NEW j \in Ingesters PROVE IngestSound(ingester[j])'
    <3>1. CASE j = i
      <4>1. ingester'[j].at = "idle"
        BY <1>1, <1>4, <1>5, <3>1 DEF IndexInv, IndexTyped
      <4> QED BY <4>1 DEF IngestSound
    <3>2. CASE j # i
      <4>1. PICK f : f = ingester[j]
        OBVIOUS
      <4>2. ingester'[j] = f /\ IngestSound(f)
        BY <1>1, <3>2, <4>1 DEF IndexInv, IndexSound, IndexTyped
      <4>3. PICK rows, more : rows = index.rows /\ more = index'.rows
        OBVIOUS
      <4>4. rows \subseteq more
        BY <1>1, <4>3
      <4>5. /\ f.at = "stat" => Covered(f.offset, f.epoch, more)
            /\ f.at = "read" => f.offset = 0 \/ Covered(f.offset, f.seen, more)
            /\ f.at = "commit" => Covered(f.offset, f.epoch, more \cup f.batch)
        <5>1. rows \cup f.batch \subseteq more \cup f.batch
          BY <4>4
        <5> QED BY <4>2, <4>3, <4>4, <5>1, CoveredMore DEF IngestSound
      <4> QED BY <1>3, <4>2, <4>3, <4>5 DEF IngestSound, Covered
    <3> QED BY <3>1, <3>2
  <2> QED BY <2>2, <2>3
<1> QED BY <1>2, <1>7, <1>8 DEF IndexInv

LEMMA RebuildIndexStep == ASSUME FileInv, IndexInv, RebuildIndex PROVE FileInv' /\ IndexInv'
<1>1. /\ UNCHANGED <<rigidVars, fileVars, aged, hook, pruner, pruneCount>>
      /\ blind' = blind /\ ingester' = [i \in Ingesters |-> IdleIngest] /\ index' = EmptyIndex
  BY DEF RebuildIndex
<1>2. FileInv'
  BY <1>1, FileSame
<1>3. log' = log /\ epoch' = epoch /\ kinds' = kinds /\ epoch \in Nat
  BY <1>1 DEF fileVars, FileInv, Epochs
<1>4. /\ index'.rows = {} /\ index'.offset = 0 /\ index'.epoch = 0
      /\ index' = [rows |-> index'.rows, offset |-> index'.offset, epoch |-> index'.epoch]
  BY <1>1 DEF EmptyIndex
<1>5. PICK e : e = IdleIngest
  OBVIOUS
<1>6. /\ e = [at |-> e.at, offset |-> e.offset, epoch |-> e.epoch, batch |-> e.batch, seen |-> e.seen]
      /\ IngestTyped(e) /\ e.at = "idle"
  BY <1>3, <1>5, IdleLogReader DEF IdleIngest
<1>7. \A j \in Ingesters : ingester'[j] = e
  BY <1>1, <1>5
<1>8. IndexTyped'
  <2>1. blind \in BOOLEAN /\ 0 \in 0 .. epoch /\ 0 \in 0 .. MaxLogEntries
    BY <1>3, LogRetentionAssumption DEF IndexInv, IndexTyped, LogRetentionAssumption
  <2>2. ingester' = [j \in Ingesters |-> [at |-> ingester'[j].at, offset |-> ingester'[j].offset,
                                        epoch |-> ingester'[j].epoch, batch |-> ingester'[j].batch,
                                        seen |-> ingester'[j].seen]]
    <3>1. \A j \in Ingesters : e = [at |-> ingester'[j].at, offset |-> ingester'[j].offset,
                                    epoch |-> ingester'[j].epoch, batch |-> ingester'[j].batch,
                                    seen |-> ingester'[j].seen]
      BY <1>6, <1>7, Zenon
    <3>2. ingester' = [j \in Ingesters |-> e]
      BY <1>1, <1>5, Zenon
    <3> QED BY <3>1, <3>2
  <2> QED BY <1>1, <1>3, <1>4, <1>6, <1>7, <2>1, <2>2 DEF IndexTyped, IngestTyped
<1>9. IndexSound'
  <2>1. Covered(index.offset, index.epoch, index.rows)'
    <3>1. Len(log) \in Nat /\ DOMAIN log = 1 .. Len(log)
      BY LenProperties DEF FileInv, LogTyped
    <3>2. 0 <= Len(log) /\ \A n \in DOMAIN log : ~(n <= 0)
      BY <3>1
    <3> QED BY <1>3, <1>4, <3>2 DEF Covered
  <2>2. \A j \in Ingesters : IngestSound(ingester[j])'
    BY <1>6, <1>7 DEF IngestSound
  <2> QED BY <2>1, <2>2 DEF IndexSound
<1> QED BY <1>2, <1>8, <1>9 DEF IndexInv

LEMMA LogStep == FileInv /\ IndexInv /\ [LogRetentionNext]_logVars => FileInv' /\ IndexInv'
<1> SUFFICES ASSUME FileInv, IndexInv, [LogRetentionNext]_logVars PROVE FileInv' /\ IndexInv'
  OBVIOUS
<1>1. ASSUME NEW h \in Hooks, OpenLog(h) PROVE FileInv' /\ IndexInv'
  BY <1>1, OpenLogStep
<1>2. ASSUME NEW h \in Hooks, NEW kind \in {"accept", "reject"}, NEW short \in BOOLEAN,
             WriteLine(h, kind, short)
      PROVE  FileInv' /\ IndexInv'
  BY <1>2, WriteLineStep
<1>3. CASE Age \/ ScanLog \/ RenameLog \/ PruneFails
  BY <1>3, AgeStep, ScanLogStep, RenameLogStep, PruneFailsStep
<1>4. ASSUME NEW i \in Ingesters, LoadOffset(i) \/ StatLog(i) \/ ReadLog(i) \/ CommitIndex(i) \/ IngestFails(i)
      PROVE  FileInv' /\ IndexInv'
  BY <1>4, LoadOffsetStep, StatLogStep, ReadLogStep, CommitIndexStep, IngestFailsStep
<1>5. CASE RebuildIndex
  BY <1>5, RebuildIndexStep
<1>6. CASE UNCHANGED logVars
  <2>1. /\ UNCHANGED <<rigidVars, fileVars, aged, hook, pruner, pruneCount>> /\ UNCHANGED readVars
        /\ log' = log /\ epoch' = epoch /\ kinds' = kinds
    BY <1>6 DEF logVars, rigidVars, fileVars, readVars
  <2> QED BY <2>1, FileSame, IndexSame
<1> QED BY <1>1, <1>2, <1>3, <1>4, <1>5, <1>6 DEF LogRetentionNext

\* A log, its rewrite and its readers have their types.
THEOREM LogTypeCorrect == LogRetentionSpec => []LogRetentionTypeOK
<1>1. FileInv /\ IndexInv => LogRetentionTypeOK
  <2> SUFFICES ASSUME FileInv, IndexInv PROVE LogRetentionTypeOK
    OBVIOUS
  <2>1. Range(log) \union Range(pruner.kept) \subseteq Lines /\ Range(kinds) \subseteq {"accept", "reject"}
    BY ElementOfSeq DEF FileInv, LogTyped, Range
  <2>2. epoch \in 0 .. MaxPrunes
    BY LogRetentionAssumption DEF FileInv, Epochs, LogRetentionAssumption
  <2>3. raced \union glued \union index.rows \subseteq 1 .. Len(kinds)
    BY DEF FileInv, LogTyped, IndexInv, IndexTyped
  <2> QED BY <2>1, <2>2, <2>3 DEF FileInv, LogTyped, IndexInv, IndexTyped, LogRetentionTypeOK
<1> QED BY <1>1, LogStarts, LogStep, PTL DEF LogRetentionSpec

\* No rewrite of a log loses evidence (internal/gateway/hooks and its retention: what is
\* too young, or a rejection, stays, whoever wrote while the file was being replaced).
THEOREM EvidenceKeptCorrect == LogRetentionSpec => []EvidenceKept
<1>1. FileInv => EvidenceKept
  BY DEF FileInv, HasEvidence, Evidence, EvidenceKept
<1> QED BY <1>1, LogStarts, LogStep, PTL DEF LogRetentionSpec

\* The analytics database has what it says it has of the file it is about (ingest.go),
\* unless a refresh went on at its offset in a file that had been replaced.
THEOREM IndexCompleteCorrect == LogRetentionSpec => []IndexComplete
<1>1. FileInv /\ IndexInv => IndexComplete
  BY LenProperties DEF FileInv, LogTyped, IndexInv, IndexSound, Covered, IndexComplete
<1> QED BY <1>1, LogStarts, LogStep, PTL DEF LogRetentionSpec

-----------------------------------------------------------------------------
(* The queue.                                                              *)

\* A record is read back unless a fragment stands before it.
ReadAt(content, i) == content[i] \in QueueRecords /\ (i > 1 => content[i - 1] # "part")

LEMMA ParsedHolds ==
    ASSUME NEW content \in Seq(Cells)
    PROVE  /\ Parsed(content) \in Seq(QueueRecords)
           /\ \A r : InSeq(Parsed(content), r) <=> \E i \in DOMAIN content : ReadAt(content, i) /\ content[i] = r
<1> DEFINE good == {i \in DOMAIN content : content[i] \in QueueRecords /\ (i > 1 => content[i - 1] # "part")}
           parts == [i \in DOMAIN content |-> IF i \in good THEN <<content[i]>> ELSE <<>>]
<1>1. Parsed(content) = FlattenSeq(parts)
  BY Zenon DEF Parsed
<1>2. \A i \in DOMAIN content : i \in good <=> ReadAt(content, i)
  BY DEF ReadAt
<1>3. Len(content) \in Nat /\ DOMAIN content = 1 .. Len(content)
  BY LenProperties
<1> HIDE DEF good
<1>4. ASSUME NEW i \in DOMAIN content
      PROVE  parts[i] \in Seq(QueueRecords) /\ \A r : InSeq(parts[i], r) <=> ReadAt(content, i) /\ content[i] = r
  <2>1. CASE i \in good
    <3>1. content[i] \in QueueRecords
      BY <1>2, <2>1 DEF ReadAt
    <3>2. PICK y \in QueueRecords : y = content[i]
      BY <3>1
    <3>3. <<y>> \in Seq(QueueRecords) /\ \A r : InSeq(<<y>>, r) <=> y = r
      BY DEF InSeq
    <3>4. parts[i] = <<y>>
      BY <2>1, <3>2
    <3> QED BY <1>2, <2>1, <3>2, <3>3, <3>4
  <2>2. CASE i \notin good
    <3>1. parts[i] = <<>>
      BY <2>2
    <3>2. <<>> \in Seq(QueueRecords) /\ \A r : ~InSeq(<<>>, r)
      BY DEF InSeq
    <3> QED BY <1>2, <2>2, <3>1, <3>2
  <2> QED BY <2>1, <2>2
<1>5. DOMAIN parts = DOMAIN content /\ parts = [i \in 1 .. Len(content) |-> parts[i]]
  BY <1>3
<1> HIDE DEF parts
<1>6. parts \in Seq(Seq(QueueRecords))
  BY <1>3, <1>4, <1>5
<1>7. /\ FlattenSeq(parts) \in Seq(QueueRecords)
      /\ \A r : InSeq(FlattenSeq(parts), r) <=> \E i \in DOMAIN parts : InSeq(parts[i], r)
  BY <1>6, FlattenHolds
<1>8. ASSUME NEW r
      PROVE  InSeq(FlattenSeq(parts), r) <=> \E i \in DOMAIN content : ReadAt(content, i) /\ content[i] = r
  BY <1>4, <1>5, <1>7
<1> QED BY <1>1, <1>7, <1>8, Zenon

LEMMA LeavingHolds ==
    ASSUME NEW read \in Seq(QueueRecords), NEW r
    PROVE  /\ Leaving(r, read) \in Seq(QueueRecords)
           /\ \A s : InSeq(Leaving(r, read), s) <=> InSeq(read, s) /\ s # r
<1> DEFINE parts == [i \in DOMAIN read |-> IF read[i] = r THEN <<>> ELSE <<read[i]>>]
<1>1. Leaving(r, read) = FlattenSeq(parts)
  BY Zenon DEF Leaving
<1>2. Len(read) \in Nat /\ DOMAIN read = 1 .. Len(read) /\ \A i \in DOMAIN read : read[i] \in QueueRecords
  BY LenProperties, ElementOfSeq
<1>3. ASSUME NEW i \in DOMAIN read
      PROVE  parts[i] \in Seq(QueueRecords) /\ \A s : InSeq(parts[i], s) <=> read[i] = s /\ s # r
  <2>1. CASE read[i] # r
    <3>2. PICK y \in QueueRecords : y = read[i]
      BY <1>2
    <3>3. <<y>> \in Seq(QueueRecords) /\ \A s : InSeq(<<y>>, s) <=> y = s
      BY DEF InSeq
    <3>4. parts[i] = <<y>>
      BY <2>1, <3>2
    <3> QED BY <2>1, <3>2, <3>3, <3>4
  <2>2. CASE read[i] = r
    <3>1. parts[i] = <<>>
      BY <2>2
    <3>2. <<>> \in Seq(QueueRecords) /\ \A s : ~InSeq(<<>>, s)
      BY DEF InSeq
    <3> QED BY <2>2, <3>1, <3>2
  <2> QED BY <2>1, <2>2
<1>5. DOMAIN parts = DOMAIN read /\ parts = [i \in 1 .. Len(read) |-> parts[i]]
  BY <1>2
<1> HIDE DEF parts
<1>6. parts \in Seq(Seq(QueueRecords))
  BY <1>2, <1>3, <1>5
<1>7. /\ FlattenSeq(parts) \in Seq(QueueRecords)
      /\ \A s : InSeq(FlattenSeq(parts), s) <=> \E i \in DOMAIN parts : InSeq(parts[i], s)
  BY <1>6, FlattenHolds
<1>8. ASSUME NEW s
      PROVE  InSeq(FlattenSeq(parts), s) <=> (\E i \in DOMAIN read : read[i] = s) /\ s # r
  BY <1>3, <1>5, <1>7
<1> QED BY <1>1, <1>7, <1>8, Zenon DEF InSeq

\* What a rewriter put there is read back, all of it.
LEMMA RecordsParse ==
    ASSUME QueueFileAssumption, NEW content \in Seq(QueueRecords), NEW r, InSeq(content, r)
    PROVE  InSeq(Parsed(content), r)
<1>1. content \in Seq(Cells)
  BY DEF Cells
<1>2. /\ DOMAIN content = 1 .. Len(content) /\ Len(content) \in Nat
      /\ \A i \in DOMAIN content : content[i] \in QueueRecords
  BY LenProperties, ElementOfSeq
<1>3. "part" \notin QueueRecords
  BY DEF QueueFileAssumption
<1>4. \A i \in DOMAIN content : ReadAt(content, i)
  <2>1. ASSUME NEW i \in DOMAIN content, i > 1 PROVE i - 1 \in DOMAIN content
    BY <1>2, <2>1
  <2> QED BY <1>2, <1>3, <2>1 DEF ReadAt
<1>5. PICK i \in DOMAIN content : content[i] = r
  BY DEF InSeq
<1> QED BY <1>1, <1>4, <1>5, ParsedHolds

\* An append takes nothing away, and is read back unless it continues a fragment.
LEMMA AppendParses ==
    ASSUME NEW content \in Seq(Cells), NEW x \in Cells
    PROVE  /\ \A r : InSeq(Parsed(content), r) => InSeq(Parsed(Append(content, x)), r)
           /\ x \in QueueRecords /\ ~(content # <<>> /\ Last(content) = "part")
                 => InSeq(Parsed(Append(content, x)), x)
<1>0. PICK longer : longer = Append(content, x)
  OBVIOUS
<1>1. /\ longer \in Seq(Cells) /\ Len(content) \in Nat
      /\ DOMAIN content = 1 .. Len(content) /\ DOMAIN longer = 1 .. Len(content) + 1
      /\ \A i \in 1 .. Len(content) : longer[i] = content[i]
      /\ longer[Len(content) + 1] = x
      /\ content # <<>> <=> Len(content) # 0
  BY <1>0, EmptySeq
<1>2. PICK n \in Nat : n = Len(content)
  BY <1>1
<1>3. ASSUME NEW i \in 1 .. n, ReadAt(content, i) PROVE ReadAt(longer, i) /\ i \in DOMAIN longer
  <2>1. i > 1 => i - 1 \in 1 .. n
    BY <1>3
  <2>2. i \in 1 .. n + 1
    BY <1>2
  <2> QED BY <1>1, <1>2, <1>3, <2>1, <2>2 DEF ReadAt
<1>4. ASSUME NEW r, InSeq(Parsed(content), r) PROVE InSeq(Parsed(longer), r)
  <2>1. PICK i \in DOMAIN content : ReadAt(content, i) /\ content[i] = r
    BY <1>4, ParsedHolds
  <2>2. i \in 1 .. n
    BY <1>1, <1>2
  <2>3. ReadAt(longer, i) /\ i \in DOMAIN longer /\ longer[i] = r
    BY <1>1, <1>2, <1>3, <2>1, <2>2
  <2> QED BY <1>1, <2>3, ParsedHolds
<1>5. ASSUME x \in QueueRecords, ~(content # <<>> /\ Last(content) = "part")
      PROVE  InSeq(Parsed(longer), x)
  <2>1. n + 1 > 1 => n \in 1 .. n /\ (n + 1) - 1 = n /\ content # <<>>
    BY <1>1, <1>2
  <2>2. content # <<>> => content[n] # "part"
    BY <1>2, <1>5 DEF Last
  <2>3. ReadAt(longer, n + 1)
    BY <1>1, <1>2, <1>5, <2>1, <2>2 DEF ReadAt
  <2>4. n + 1 \in DOMAIN longer /\ longer[n + 1] = x
    BY <1>1, <1>2
  <2> QED BY <1>1, <2>3, <2>4, ParsedHolds
<1> QED BY <1>0, <1>4, <1>5

\* Where a record is that is not among some lines.
Done(r) == r \in buried \cup settled \cup overtaken \cup joined

\* What a rewriter holds has every record it is not itself about to settle or bury.
HeldSafe(w) ==
    rewrite[w].at \in {"bury", "open", "fill", "rename"} =>
        \A r \in QueueRecords : append[r].at = "written" =>
            \/ InSeq(rewrite[w].kept, r)
            \/ Done(r)
            \/ rewrite[w].kind = "remove" /\ r = rewrite[w].record
            \/ rewrite[w].kind = "bury" /\ rewrite[w].at = "bury" /\ r = rewrite[w].record

\* The temporary file is what one rewriter has put there.
OneAtTemp ==
    /\ \A v, w \in AtTemp : v = w
    /\ \A w \in AtTemp : /\ rewrite[w].fd = "temp" /\ hasTemp
                         /\ rewrite[w].at = "fill" => temp = <<>>
                         /\ rewrite[w].at = "rename" => temp = rewrite[w].kept

FileSafe ==
    \A r \in QueueRecords : append[r].at = "written" => InSeq(Parsed(file), r) \/ Done(r)

QueueTyped ==
    /\ file \in Seq(Cells) /\ temp \in Seq(Cells)
    /\ hasTemp \in BOOLEAN /\ tangled \in BOOLEAN
    /\ append \in [QueueRecords -> [at : {"idle", "open", "written", "failed"},
                                    fd : {"none", "queue", "gone"}]]
    /\ rewrite \in [Rewriters -> [at : {"idle", "read", "bury", "open", "fill", "rename"},
                                  kind : {"remove", "bury", "update"},
                                  record : QueueRecords \cup {"part"},
                                  kept : Seq(QueueRecords),
                                  fd : {"none", "temp", "queue", "gone"}]]
    /\ \A w \in Rewriters : rewrite[w].at \notin {"idle", "read"} => rewrite[w].record \in QueueRecords
    /\ \A w \in Rewriters : rewrite[w].at = "read" => rewrite[w].record \in QueueRecords
    /\ \A r \in QueueRecords : append[r].at = "open" => append[r].fd # "none"
    /\ buried \cup settled \cup overtaken \cup joined \subseteq QueueRecords
    /\ rewrites \in 0 .. MaxRewrites /\ queueFaults \in 0 .. MaxQueueFaults

QueueSafe == ~tangled => OneAtTemp /\ FileSafe /\ \A w \in Rewriters : HeldSafe(w)

LEMMA QueueStarts == QueueFileInit => QueueTyped /\ QueueSafe
<1> SUFFICES ASSUME QueueFileInit PROVE QueueTyped /\ QueueSafe
  OBVIOUS
<1> USE QueueFileAssumption DEF QueueFileAssumption
<1>1. \A w \in Rewriters : rewrite[w].at = "idle"
  BY DEF QueueFileInit, NoRewrite
<1>2. QueueTyped
  <2>1. NoRewrite \in [at : {"idle", "read", "bury", "open", "fill", "rename"},
                       kind : {"remove", "bury", "update"},
                       record : QueueRecords \cup {"part"},
                       kept : Seq(QueueRecords),
                       fd : {"none", "temp", "queue", "gone"}]
    BY DEF NoRewrite
  <2> HIDE DEF NoRewrite
  <2>2. <<>> \in Seq(Cells) /\ MaxRewrites \in Nat /\ MaxQueueFaults \in Nat
    OBVIOUS
  <2>3. append \in [QueueRecords -> [at : {"idle", "open", "written", "failed"},
                                     fd : {"none", "queue", "gone"}]]
    BY DEF QueueFileInit
  <2>4. \A r \in QueueRecords : append[r].at # "open"
    BY DEF QueueFileInit
  <2>5. rewrites \in 0 .. MaxRewrites /\ queueFaults \in 0 .. MaxQueueFaults
    BY <2>2 DEF QueueFileInit
  <2>6. /\ file \in Seq(Cells) /\ temp \in Seq(Cells) /\ hasTemp \in BOOLEAN /\ tangled \in BOOLEAN
        /\ buried \cup settled \cup overtaken \cup joined \subseteq QueueRecords
    BY <2>2 DEF QueueFileInit
  <2>7. rewrite = [w \in Rewriters |-> NoRewrite]
    BY DEF QueueFileInit
  <2> QED BY <1>1, <2>1, <2>3, <2>4, <2>5, <2>6, <2>7 DEF QueueTyped
<1>3. AtTemp = {}
  BY <1>1 DEF AtTemp
<1>4. OneAtTemp
  BY <1>3 DEF OneAtTemp
<1>5. FileSafe /\ \A w \in Rewriters : HeldSafe(w)
  BY <1>1 DEF QueueFileInit, FileSafe, HeldSafe
<1> QED BY <1>2, <1>4, <1>5 DEF QueueSafe

\* Records only become done, and what was appended before is where it was.
LEMMA HeldStill ==
    ASSUME NEW w \in Rewriters, HeldSafe(w),
           rewrite'[w].at = rewrite[w].at, rewrite'[w].kind = rewrite[w].kind,
           rewrite'[w].record = rewrite[w].record, rewrite'[w].kept = rewrite[w].kept,
           \A r \in QueueRecords : Done(r) => Done(r)',
           \A r \in QueueRecords : append'[r].at = "written" => append[r].at = "written" \/ Done(r)'
    PROVE  HeldSafe(w)'
  BY DEF HeldSafe

LEMMA FileStill ==
    ASSUME FileSafe,
           \A r \in QueueRecords : Done(r) => Done(r)',
           \A r \in QueueRecords : append'[r].at = "written" => append[r].at = "written" \/ Done(r)',
           \A r : InSeq(Parsed(file), r) => InSeq(Parsed(file'), r)
    PROVE  FileSafe'
  BY DEF FileSafe

\* An append leaves the rewriters and the temporary file alone.
LEMMA AppendsApart ==
    ASSUME OneAtTemp, UNCHANGED <<temp, hasTemp, rewrite>>
    PROVE  OneAtTemp'
<1>1. AtTemp' = AtTemp
  BY DEF AtTemp
<1> QED BY <1>1 DEF OneAtTemp

LEMMA OpenQueueStep ==
    ASSUME QueueTyped, QueueSafe, NEW q \in QueueRecords, OpenQueue(q)
    PROVE  QueueTyped' /\ QueueSafe'
<1>1. /\ append[q].at = "idle" /\ append' = [append EXCEPT ![q] = [at |-> "open", fd |-> "queue"]]
      /\ UNCHANGED <<temp, hasTemp, rewrite>> /\ file' = file /\ temp' = temp /\ hasTemp' = hasTemp
      /\ rewrite' = rewrite /\ buried' = buried /\ settled' = settled /\ overtaken' = overtaken
      /\ joined' = joined /\ tangled' = tangled /\ rewrites' = rewrites /\ queueFaults' = queueFaults
  BY DEF OpenQueue
<1>2. QueueTyped'
  BY <1>1 DEF QueueTyped
<1>3. \A r \in QueueRecords : append'[r].at = "written" => append[r].at = "written"
  BY <1>1 DEF QueueTyped
<1>4. \A r \in QueueRecords : Done(r) => Done(r)'
  BY <1>1 DEF Done
<1>5. ASSUME ~tangled PROVE OneAtTemp' /\ FileSafe' /\ \A w \in Rewriters : HeldSafe(w)'
  BY <1>1, <1>3, <1>4, <1>5, AppendsApart, FileStill, HeldStill DEF QueueSafe
<1> QED BY <1>1, <1>2, <1>5 DEF QueueSafe

LEMMA WriteRecordStep ==
    ASSUME QueueTyped, QueueSafe, NEW q \in QueueRecords, WriteRecord(q)
    PROVE  QueueTyped' /\ QueueSafe'
<1>1. /\ append[q].at = "open" /\ append' = [append EXCEPT ![q] = [at |-> "written", fd |-> "none"]]
      /\ file' = IF append[q].fd = "queue" THEN Append(file, q) ELSE file
      /\ overtaken' = IF append[q].fd = "gone" \/ Rewriting # {} THEN overtaken \cup {q} ELSE overtaken
      /\ joined' = IF file # <<>> /\ Last(file) = "part" THEN joined \cup {q} ELSE joined
      /\ UNCHANGED <<temp, hasTemp, rewrite>> /\ temp' = temp /\ hasTemp' = hasTemp
      /\ rewrite' = rewrite /\ buried' = buried /\ settled' = settled
      /\ tangled' = tangled /\ rewrites' = rewrites /\ queueFaults' = queueFaults
  BY DEF WriteRecord
<1>2. file \in Seq(Cells) /\ q \in Cells
  BY DEF QueueTyped, Cells
<1>3. file' \in Seq(Cells)
  BY <1>1, <1>2
<1>4. QueueTyped'
  BY <1>1, <1>3 DEF QueueTyped
<1>5. \A r \in QueueRecords : r # q => (append'[r].at = "written" => append[r].at = "written")
  BY <1>1 DEF QueueTyped
<1>6. \A r \in QueueRecords : Done(r) => Done(r)'
  BY <1>1 DEF Done
<1>7. \A r : InSeq(Parsed(file), r) => InSeq(Parsed(file'), r)
  BY <1>1, <1>2, AppendParses
<1>8. ASSUME ~tangled PROVE OneAtTemp' /\ FileSafe' /\ \A w \in Rewriters : HeldSafe(w)'
  <2>1. FileSafe'
    <3>1. InSeq(Parsed(file'), q) \/ Done(q)'
      <4>1. append[q].fd \in {"queue", "gone"}
        BY <1>1 DEF QueueTyped
      <4>2. CASE append[q].fd = "gone"
        BY <1>1, <4>2 DEF Done
      <4>3. CASE append[q].fd = "queue" /\ file # <<>> /\ Last(file) = "part"
        BY <1>1, <4>3 DEF Done
      <4>4. CASE append[q].fd = "queue" /\ ~(file # <<>> /\ Last(file) = "part")
        BY <1>1, <1>2, <4>4, AppendParses
      <4> QED BY <4>1, <4>2, <4>3, <4>4
    <3>2. ASSUME NEW r \in QueueRecords, append'[r].at = "written" PROVE InSeq(Parsed(file'), r) \/ Done(r)'
      <4>1. CASE r = q
        BY <3>1, <4>1
      <4>2. CASE r # q
        BY <1>5, <1>6, <1>7, <1>8, <3>2, <4>2 DEF QueueSafe, FileSafe
      <4> QED BY <4>1, <4>2
    <3> QED BY <3>2 DEF FileSafe
  <2>2. ASSUME NEW w \in Rewriters PROVE HeldSafe(w)'
    <3>1. CASE rewrite[w].at \in {"idle", "read"}
      BY <1>1, <3>1 DEF HeldSafe
    <3>2. CASE rewrite[w].at \notin {"idle", "read"}
      <4>1. Done(q)'
        BY <1>1, <3>2 DEF Done, Rewriting
      <4>2. \A r \in QueueRecords : append'[r].at = "written" => append[r].at = "written" \/ Done(r)'
        BY <1>5, <4>1
      <4> QED BY <1>1, <1>6, <1>8, <4>2, HeldStill DEF QueueSafe
    <3> QED BY <3>1, <3>2
  <2> QED BY <1>1, <1>8, <2>1, <2>2, AppendsApart DEF QueueSafe
<1> QED BY <1>1, <1>4, <1>8 DEF QueueSafe

LEMMA WriteFragmentStep ==
    ASSUME QueueTyped, QueueSafe, NEW q \in QueueRecords, WriteFragment(q)
    PROVE  QueueTyped' /\ QueueSafe'
<1>1. /\ append[q].at = "open" /\ append' = [append EXCEPT ![q] = [at |-> "failed", fd |-> "none"]]
      /\ file' = IF append[q].fd = "queue" THEN Append(file, "part") ELSE file
      /\ UNCHANGED <<temp, hasTemp, rewrite>> /\ temp' = temp /\ hasTemp' = hasTemp
      /\ rewrite' = rewrite /\ buried' = buried /\ settled' = settled /\ overtaken' = overtaken
      /\ joined' = joined /\ tangled' = tangled /\ rewrites' = rewrites
      /\ queueFaults < MaxQueueFaults /\ queueFaults' = queueFaults + 1
  BY DEF WriteFragment, QueueFault
<1>2. file \in Seq(Cells) /\ "part" \in Cells
  BY DEF QueueTyped, Cells
<1>3. file' \in Seq(Cells)
  BY <1>1, <1>2
<1>4. QueueTyped'
  <2>1. queueFaults' \in 0 .. MaxQueueFaults
    BY <1>1, QueueFileAssumption DEF QueueTyped, QueueFileAssumption
  <2> QED BY <1>1, <1>3, <2>1 DEF QueueTyped
<1>5. \A r \in QueueRecords : append'[r].at = "written" => append[r].at = "written"
  BY <1>1 DEF QueueTyped
<1>6. \A r \in QueueRecords : Done(r) => Done(r)'
  BY <1>1 DEF Done
<1>7. \A r : InSeq(Parsed(file), r) => InSeq(Parsed(file'), r)
  BY <1>1, <1>2, AppendParses
<1>8. ASSUME ~tangled PROVE OneAtTemp' /\ FileSafe' /\ \A w \in Rewriters : HeldSafe(w)'
  BY <1>1, <1>5, <1>6, <1>7, <1>8, AppendsApart, FileStill, HeldStill DEF QueueSafe
<1> QED BY <1>1, <1>4, <1>8 DEF QueueSafe

RewriteStates == [at : {"idle", "read", "bury", "open", "fill", "rename"},
                  kind : {"remove", "bury", "update"},
                  record : QueueRecords \cup {"part"},
                  kept : Seq(QueueRecords),
                  fd : {"none", "temp", "queue", "gone"}]

LEMMA NoRewriteTyped ==
    /\ NoRewrite \in RewriteStates /\ NoRewrite.at = "idle" /\ NoRewrite.kept = <<>>
    /\ NoRewrite.fd = "none"
<1>1. <<>> \in Seq(QueueRecords)
  OBVIOUS
<1> QED BY <1>1 DEF NoRewrite, RewriteStates

\* A rewriter goes on, outside the temporary file.
LEMMA RewriterTurns ==
    ASSUME QueueTyped, QueueSafe, NEW w \in Rewriters, NEW e \in RewriteStates,
           e.at \notin {"fill", "rename"}, e.at # "idle" => e.record \in QueueRecords,
           rewrite' = [rewrite EXCEPT ![w] = e],
           UNCHANGED <<file, temp, hasTemp, append, settled, overtaken, joined, tangled>>,
           buried \subseteq buried', buried' \subseteq QueueRecords,
           rewrites' \in 0 .. MaxRewrites, queueFaults' \in 0 .. MaxQueueFaults,
           ~tangled => HeldSafe(w)'
    PROVE  QueueTyped' /\ QueueSafe'
<1>1. /\ file' = file /\ temp' = temp /\ hasTemp' = hasTemp /\ append' = append /\ settled' = settled
      /\ overtaken' = overtaken /\ joined' = joined /\ tangled' = tangled
      /\ rewrite'[w] = e /\ \A v \in Rewriters : v # w => rewrite'[v] = rewrite[v]
  BY DEF QueueTyped
<1>2. rewrite' \in [Rewriters -> RewriteStates]
  BY DEF QueueTyped, RewriteStates
<1>3. QueueTyped'
  <2>1. \A v \in Rewriters : rewrite'[v].at # "idle" => rewrite'[v].record \in QueueRecords
    BY <1>1 DEF QueueTyped
  <2>2. \A v \in Rewriters : /\ rewrite'[v].at \notin {"idle", "read"} => rewrite'[v].record \in QueueRecords
                             /\ rewrite'[v].at = "read" => rewrite'[v].record \in QueueRecords
    BY <2>1
  <2> QED BY <1>1, <1>2, <2>2 DEF QueueTyped, RewriteStates
<1>4. ASSUME ~tangled PROVE OneAtTemp' /\ FileSafe' /\ \A v \in Rewriters : HeldSafe(v)'
  <2>1. \A v \in AtTemp' : v \in AtTemp /\ rewrite'[v] = rewrite[v]
    BY <1>1 DEF AtTemp
  <2>2. OneAtTemp'
    BY <1>1, <1>4, <2>1 DEF OneAtTemp, QueueSafe
  <2>3. \A r \in QueueRecords : Done(r) => Done(r)'
    BY <1>1 DEF Done
  <2>4. FileSafe'
    BY <1>1, <1>4, <2>3, FileStill DEF QueueSafe
  <2>5. ASSUME NEW v \in Rewriters PROVE HeldSafe(v)'
    BY <1>1, <1>4, <2>3, HeldStill DEF QueueSafe
  <2> QED BY <2>2, <2>4, <2>5
<1> QED BY <1>1, <1>3, <1>4 DEF QueueSafe

LEMMA StartRewriteStep ==
    ASSUME QueueTyped, QueueSafe, NEW w \in Rewriters, NEW kind \in {"remove", "bury", "update"},
           NEW q \in QueueRecords, StartRewrite(w, kind, q)
    PROVE  QueueTyped' /\ QueueSafe'
<1>1. PICK e : e = [NoRewrite EXCEPT !.at = "read", !.kind = kind, !.record = q]
  OBVIOUS
<1>2. e \in RewriteStates /\ e.at = "read" /\ e.record = q
  <2>1. PICK d \in RewriteStates : d = NoRewrite
    BY NoRewriteTyped
  <2>2. e = [d EXCEPT !.at = "read", !.kind = kind, !.record = q]
    BY <1>1, <2>1
  <2> QED BY <2>2 DEF RewriteStates
<1>3. /\ rewrite' = [rewrite EXCEPT ![w] = e] /\ rewrites < MaxRewrites /\ rewrites' = rewrites + 1
      /\ UNCHANGED <<file, temp, hasTemp, append, settled, overtaken, joined, tangled>>
      /\ buried' = buried /\ queueFaults' = queueFaults
  BY <1>1 DEF StartRewrite
<1>4. rewrites' \in 0 .. MaxRewrites /\ queueFaults' \in 0 .. MaxQueueFaults /\ buried' \subseteq QueueRecords
  BY <1>3, QueueFileAssumption DEF QueueTyped, QueueFileAssumption
<1>5. HeldSafe(w)'
  BY <1>2, <1>3 DEF HeldSafe, QueueTyped
<1> QED BY <1>2, <1>3, <1>4, <1>5, RewriterTurns

LEMMA ReadQueueStep ==
    ASSUME QueueTyped, QueueSafe, NEW w \in Rewriters, ReadQueue(w)
    PROVE  QueueTyped' /\ QueueSafe'
<1>1. PICK d : d = rewrite[w]
  OBVIOUS
<1>2. PICK read : read = Parsed(file)
  OBVIOUS
<1>3. PICK kept : kept = IF d.kind = "update" THEN read ELSE Leaving(d.record, read)
  OBVIOUS
<1>4. PICK e : e = IF ~Contains(read, d.record) THEN NoRewrite
                   ELSE [d EXCEPT !.at = IF d.kind = "bury" THEN "bury" ELSE "open", !.kept = kept]
  OBVIOUS
<1>5. /\ d.at = "read" /\ rewrite' = [rewrite EXCEPT ![w] = e]
      /\ UNCHANGED <<file, temp, hasTemp, append, settled, overtaken, joined, tangled>>
      /\ buried' = buried /\ rewrites' = rewrites /\ queueFaults' = queueFaults
      /\ append' = append /\ settled' = settled /\ overtaken' = overtaken /\ joined' = joined
  BY <1>1, <1>2, <1>3, <1>4 DEF ReadQueue
<1>6. d \in RewriteStates /\ d.record \in QueueRecords
  BY <1>1, <1>5 DEF QueueTyped, RewriteStates
<1>7. file \in Seq(Cells) /\ read \in Seq(QueueRecords)
  BY <1>2, ParsedHolds DEF QueueTyped
<1>8. /\ kept \in Seq(QueueRecords)
      /\ \A r : InSeq(read, r) => InSeq(kept, r) \/ (d.kind # "update" /\ r = d.record)
  BY <1>3, <1>7, LeavingHolds
<1>9. e \in RewriteStates /\ e.at \notin {"fill", "rename"} /\ (e.at # "idle" => e.record \in QueueRecords)
  BY <1>4, <1>6, <1>8, NoRewriteTyped DEF RewriteStates
<1>10. e.at # "idle" => /\ e.kept = kept /\ e.kind = d.kind /\ e.record = d.record
                        /\ d.kind = "bury" => e.at = "bury"
  BY <1>4, <1>6, NoRewriteTyped DEF RewriteStates
<1>11. ASSUME ~tangled PROVE HeldSafe(w)'
  <2>1. rewrite'[w] = e
    BY <1>5 DEF QueueTyped
  <2>2. \A r \in QueueRecords : append[r].at = "written" => InSeq(read, r) \/ Done(r)
    BY <1>2, <1>11 DEF QueueSafe, FileSafe
  <2>3. \A r \in QueueRecords : Done(r) => Done(r)'
    BY <1>5 DEF Done
  <2>4. d.kind \in {"remove", "bury", "update"}
    BY <1>6 DEF RewriteStates
  <2> QED BY <1>5, <1>8, <1>10, <2>1, <2>2, <2>3, <2>4 DEF HeldSafe
<1>12. rewrites' \in 0 .. MaxRewrites /\ queueFaults' \in 0 .. MaxQueueFaults /\ buried' \subseteq QueueRecords
  BY <1>5 DEF QueueTyped
<1> QED BY <1>5, <1>9, <1>11, <1>12, RewriterTurns

LEMMA BuryRecordStep ==
    ASSUME QueueTyped, QueueSafe, NEW w \in Rewriters, BuryRecord(w)
    PROVE  QueueTyped' /\ QueueSafe'
<1>1. PICK d : d = rewrite[w]
  OBVIOUS
<1>2. PICK e : e = [d EXCEPT !.at = "open"]
  OBVIOUS
<1>3. d \in RewriteStates
  BY <1>1 DEF QueueTyped, RewriteStates
<1>4. /\ d.at = "bury" /\ rewrite' = [rewrite EXCEPT ![w] = e]
      /\ UNCHANGED <<file, temp, hasTemp, append, settled, overtaken, joined, tangled>>
      /\ buried' = buried \cup {d.record} /\ rewrites' = rewrites /\ queueFaults' = queueFaults
      /\ append' = append /\ settled' = settled /\ overtaken' = overtaken /\ joined' = joined
  BY <1>1, <1>2 DEF BuryRecord
<1>5. d.record \in QueueRecords
  BY <1>1, <1>4 DEF QueueTyped
<1>6. /\ e \in RewriteStates /\ e.at = "open" /\ e.kind = d.kind /\ e.record = d.record /\ e.kept = d.kept
  BY <1>2, <1>3 DEF RewriteStates
<1>7. ASSUME ~tangled PROVE HeldSafe(w)'
  <2>1. rewrite'[w] = e
    BY <1>4 DEF QueueTyped
  <2>2. HeldSafe(w)
    BY <1>7 DEF QueueSafe
  <2>3. (\A r \in QueueRecords : Done(r) => Done(r)') /\ Done(d.record)'
    BY <1>4 DEF Done
  <2> QED BY <1>1, <1>4, <1>6, <2>1, <2>2, <2>3 DEF HeldSafe
<1>8. rewrites' \in 0 .. MaxRewrites /\ queueFaults' \in 0 .. MaxQueueFaults
      /\ buried' \subseteq QueueRecords /\ buried \subseteq buried'
  BY <1>4, <1>5 DEF QueueTyped
<1>9. e.at \notin {"fill", "rename"} /\ e.record \in QueueRecords
  BY <1>5, <1>6
<1> QED BY <1>4, <1>6, <1>7, <1>8, <1>9, RewriterTurns

LEMMA RewriterDiesStep ==
    ASSUME QueueTyped, QueueSafe, NEW w \in Rewriters, RewriterDies(w)
    PROVE  QueueTyped' /\ QueueSafe'
<1>1. /\ rewrite' = [rewrite EXCEPT ![w] = NoRewrite]
      /\ UNCHANGED <<file, temp, hasTemp, append, settled, overtaken, joined, tangled>>
      /\ buried' = buried /\ rewrites' = rewrites
      /\ queueFaults < MaxQueueFaults /\ queueFaults' = queueFaults + 1
  BY DEF RewriterDies, QueueFault
<1>2. rewrites' \in 0 .. MaxRewrites /\ queueFaults' \in 0 .. MaxQueueFaults /\ buried' \subseteq QueueRecords
  BY <1>1, QueueFileAssumption DEF QueueTyped, QueueFileAssumption
<1>3. HeldSafe(w)'
  BY <1>1, NoRewriteTyped DEF HeldSafe, QueueTyped
<1>4. PICK e \in RewriteStates : e = NoRewrite /\ e.at = "idle"
  BY NoRewriteTyped
<1> QED BY <1>1, <1>2, <1>3, <1>4, RewriterTurns

LEMMA OpenTempStep ==
    ASSUME QueueTyped, QueueSafe, NEW w \in Rewriters, OpenTemp(w)
    PROVE  QueueTyped' /\ QueueSafe'
<1>1. PICK d : d = rewrite[w]
  OBVIOUS
<1>2. PICK e : e = [d EXCEPT !.at = "fill", !.fd = "temp"]
  OBVIOUS
<1>3. d \in RewriteStates
  BY <1>1 DEF QueueTyped, RewriteStates
<1>4. /\ d.at = "open" /\ temp' = <<>> /\ hasTemp' = TRUE
      /\ tangled' = (tangled \/ AtTemp # {})
      /\ file' = file /\ append' = append /\ buried' = buried /\ settled' = settled
      /\ overtaken' = overtaken /\ joined' = joined /\ rewrites' = rewrites /\ queueFaults' = queueFaults
  BY <1>1 DEF OpenTemp
<1>5. rewrite' = [rewrite EXCEPT ![w] = e]
  BY <1>1, <1>2 DEF OpenTemp, QueueTyped
<1>6. /\ e \in RewriteStates /\ e.at = "fill" /\ e.fd = "temp" /\ e.kind = d.kind
      /\ e.record = d.record /\ e.kept = d.kept
  BY <1>2, <1>3 DEF RewriteStates
<1>7. rewrite'[w] = e /\ \A v \in Rewriters : v # w => rewrite'[v] = rewrite[v]
  BY <1>5 DEF QueueTyped
<1>8. QueueTyped'
  <2>1. rewrite' \in [Rewriters -> RewriteStates]
    BY <1>5, <1>6 DEF QueueTyped, RewriteStates
  <2>2. d.record \in QueueRecords
    BY <1>1, <1>4 DEF QueueTyped
  <2>3. \A v \in Rewriters : /\ rewrite'[v].at \notin {"idle", "read"} => rewrite'[v].record \in QueueRecords
                             /\ rewrite'[v].at = "read" => rewrite'[v].record \in QueueRecords
    BY <1>6, <1>7, <2>2 DEF QueueTyped
  <2>4. temp' \in Seq(Cells) /\ hasTemp' \in BOOLEAN /\ tangled' \in BOOLEAN
    BY <1>4 DEF QueueTyped
  <2> QED BY <1>4, <2>1, <2>3, <2>4 DEF QueueTyped, RewriteStates
<1>9. ASSUME ~tangled' PROVE OneAtTemp' /\ FileSafe' /\ \A v \in Rewriters : HeldSafe(v)'
  <2>1. AtTemp = {} /\ ~tangled
    BY <1>4, <1>9
  <2>2. \A v \in AtTemp' : v = w
    BY <1>7, <2>1 DEF AtTemp
  <2>3. OneAtTemp'
    BY <1>4, <1>6, <1>7, <2>2 DEF OneAtTemp
  <2>4. \A r \in QueueRecords : Done(r) => Done(r)'
    BY <1>4 DEF Done
  <2>5. FileSafe'
    BY <1>4, <2>1, <2>4, FileStill DEF QueueSafe
  <2>6. ASSUME NEW v \in Rewriters PROVE HeldSafe(v)'
    <3>1. HeldSafe(v)
      BY <2>1 DEF QueueSafe
    <3>2. CASE v # w
      BY <1>4, <1>7, <2>4, <3>1, <3>2, HeldStill
    <3>3. CASE v = w
      BY <1>1, <1>4, <1>6, <1>7, <2>4, <3>1, <3>3 DEF HeldSafe
    <3> QED BY <3>2, <3>3
  <2> QED BY <2>3, <2>5, <2>6
<1> QED BY <1>8, <1>9 DEF QueueSafe

\* What a rewriter writes is lines, over whatever was there.
LEMMA LaidOverTyped ==
    ASSUME NEW mine \in Seq(Cells), NEW over \in Seq(Cells), NEW s \in LaidOver(mine, over)
    PROVE  s \in Seq(Cells)
<1>1. CASE s = mine
  BY <1>1
<1>2. CASE s # mine
  <2>1. PICK i \in 2 .. Len(over) + 1 : s = mine \o <<"noise">> \o SubSeq(over, i, Len(over))
    BY <1>2 DEF LaidOver
  <2>2. SubSeq(over, i, Len(over)) \in Seq(Cells)
    <3>1. Len(over) \in Nat
      OBVIOUS
    <3>2. \A j \in i .. Len(over) : over[j] \in Cells
      <4>1. \A j \in 1 .. Len(over) : over[j] \in Cells
        BY ElementOfSeq
      <4>2. \A j \in i .. Len(over) : j \in 1 .. Len(over)
        BY <2>1, <3>1
      <4> QED BY <4>1, <4>2
    <3>3. i \in Int /\ Len(over) \in Int
      BY <2>1, <3>1
    <3> QED BY <3>2, <3>3, SubSeqProperties
  <2>3. <<"noise">> \in Seq(Cells)
    <3>1. "noise" \in Cells
      BY DEF Cells
    <3> QED BY <3>1
  <2>4. mine \o <<"noise">> \in Seq(Cells)
    BY <2>3, ConcatProperties
  <2> QED BY <2>1, <2>2, <2>4, ConcatProperties
<1> QED BY <1>1, <1>2

LEMMA FillTempStep ==
    ASSUME QueueTyped, QueueSafe, NEW w \in Rewriters, FillTemp(w)
    PROVE  QueueTyped' /\ QueueSafe'
<1>1. PICK d : d = rewrite[w]
  OBVIOUS
<1>2. PICK e : e = [d EXCEPT !.at = "rename"]
  OBVIOUS
<1>3. d \in RewriteStates
  BY <1>1 DEF QueueTyped, RewriteStates
<1>4. /\ d.at = "fill"
      /\ IF d.fd = "temp" THEN temp' \in LaidOver(d.kept, temp) ELSE temp' = temp
      /\ IF d.fd = "queue" THEN file' \in LaidOver(d.kept, file) ELSE file' = file
      /\ rewrite' = [rewrite EXCEPT ![w] = e]
      /\ hasTemp' = hasTemp /\ tangled' = tangled
      /\ append' = append /\ buried' = buried /\ settled' = settled
      /\ overtaken' = overtaken /\ joined' = joined /\ rewrites' = rewrites /\ queueFaults' = queueFaults
  BY <1>1, <1>2 DEF FillTemp
<1>5. /\ e \in RewriteStates /\ e.at = "rename" /\ e.fd = d.fd /\ e.kind = d.kind
      /\ e.record = d.record /\ e.kept = d.kept /\ d.kept \in Seq(QueueRecords)
  BY <1>2, <1>3 DEF RewriteStates
<1>6. rewrite'[w] = e /\ \A v \in Rewriters : v # w => rewrite'[v] = rewrite[v]
  BY <1>4 DEF QueueTyped
<1>7. QueueTyped'
  <2>1. rewrite' \in [Rewriters -> RewriteStates]
    BY <1>4, <1>5 DEF QueueTyped, RewriteStates
  <2>2. d.record \in QueueRecords
    BY <1>1, <1>4 DEF QueueTyped
  <2>3. \A v \in Rewriters : /\ rewrite'[v].at \notin {"idle", "read"} => rewrite'[v].record \in QueueRecords
                             /\ rewrite'[v].at = "read" => rewrite'[v].record \in QueueRecords
    BY <1>5, <1>6, <2>2 DEF QueueTyped
  <2>4. d.kept \in Seq(Cells)
    BY <1>5 DEF Cells
  <2>5. temp' \in Seq(Cells) /\ file' \in Seq(Cells)
    BY <1>4, <2>4, LaidOverTyped DEF QueueTyped
  <2> QED BY <1>4, <2>1, <2>3, <2>5 DEF QueueTyped, RewriteStates
<1>8. ASSUME ~tangled PROVE OneAtTemp' /\ FileSafe' /\ \A v \in Rewriters : HeldSafe(v)'
  <2>1. w \in AtTemp
    BY <1>1, <1>4 DEF AtTemp
  <2>2. d.fd = "temp" /\ hasTemp /\ temp = <<>> /\ \A v \in AtTemp : v = w
    BY <1>1, <1>4, <1>8, <2>1 DEF QueueSafe, OneAtTemp
  <2>3. temp' = d.kept /\ file' = file
    <3>1. Len(temp) = 0 /\ 2 .. 0 + 1 = {}
      BY <2>2
    <3>2. LaidOver(d.kept, temp) = {d.kept}
      BY <3>1 DEF LaidOver
    <3> QED BY <1>4, <2>2, <3>2
  <2>4. \A v \in AtTemp' : v = w
    BY <1>6, <2>2 DEF AtTemp
  <2>5. OneAtTemp'
    BY <1>4, <1>5, <1>6, <2>2, <2>3, <2>4 DEF OneAtTemp
  <2>6. \A r \in QueueRecords : Done(r) => Done(r)'
    BY <1>4 DEF Done
  <2>7. FileSafe'
    BY <1>4, <1>8, <2>3, <2>6, FileStill DEF QueueSafe
  <2>8. ASSUME NEW v \in Rewriters PROVE HeldSafe(v)'
    <3>1. HeldSafe(v)
      BY <1>8 DEF QueueSafe
    <3>2. CASE v # w
      BY <1>4, <1>6, <2>6, <3>1, <3>2, HeldStill
    <3>3. CASE v = w
      BY <1>1, <1>4, <1>5, <1>6, <2>6, <3>1, <3>3 DEF HeldSafe
    <3> QED BY <3>2, <3>3
  <2> QED BY <2>5, <2>7, <2>8
<1> QED BY <1>4, <1>7, <1>8 DEF QueueSafe

\* A descriptor leads somewhere else, and nothing else changes.
LEMMA Redirected ==
    ASSUME NEW d \in RewriteStates, NEW fd \in {"none", "temp", "queue", "gone"}, NEW e,
           e = [d EXCEPT !.fd = fd]
    PROVE  /\ e \in RewriteStates /\ e.at = d.at /\ e.kind = d.kind /\ e.record = d.record
           /\ e.kept = d.kept
  BY DEF RewriteStates

\* The other rewriters are where they were, and the one is done.
OneEnds(w) ==
    /\ rewrite' \in [Rewriters -> RewriteStates]
    /\ rewrite'[w] = NoRewrite
    /\ \A v \in Rewriters : v # w =>
          /\ rewrite'[v].at = rewrite[v].at /\ rewrite'[v].kind = rewrite[v].kind
          /\ rewrite'[v].record = rewrite[v].record /\ rewrite'[v].kept = rewrite[v].kept

LEMMA OneEndsTyped ==
    ASSUME QueueTyped, NEW w \in Rewriters, OneEnds(w), file' \in Seq(Cells), temp' = temp,
           hasTemp' \in BOOLEAN, tangled' = tangled,
           append' \in [QueueRecords -> [at : {"idle", "open", "written", "failed"},
                                         fd : {"none", "queue", "gone"}]],
           \A r \in QueueRecords : append'[r].at = "open" => append'[r].fd # "none",
           buried' = buried, settled' \subseteq QueueRecords, overtaken' = overtaken, joined' = joined,
           rewrites' = rewrites, queueFaults' \in 0 .. MaxQueueFaults
    PROVE  QueueTyped'
<1>1. \A v \in Rewriters : /\ rewrite'[v].at \notin {"idle", "read"} => rewrite'[v].record \in QueueRecords
                           /\ rewrite'[v].at = "read" => rewrite'[v].record \in QueueRecords
  BY NoRewriteTyped DEF QueueTyped, OneEnds
<1> QED BY <1>1 DEF QueueTyped, OneEnds, RewriteStates

LEMMA OneEndsHeld ==
    ASSUME \A v \in Rewriters : HeldSafe(v), NEW w \in Rewriters, OneEnds(w),
           \A r \in QueueRecords : Done(r) => Done(r)',
           \A r \in QueueRecords : append'[r].at = "written" => append[r].at = "written"
    PROVE  \A v \in Rewriters : HeldSafe(v)'
<1> SUFFICES ASSUME NEW v \in Rewriters PROVE HeldSafe(v)'
  OBVIOUS
<1>1. CASE v = w
  BY <1>1, NoRewriteTyped DEF OneEnds, HeldSafe
<1>2. CASE v # w
  BY <1>2, HeldStill DEF OneEnds
<1> QED BY <1>1, <1>2

\* Nobody else was at the temporary file.
LEMMA OneEndsAlone ==
    ASSUME OneAtTemp, NEW w \in Rewriters, w \in AtTemp, OneEnds(w)
    PROVE  OneAtTemp'
<1>1. \A v \in Rewriters : v \notin AtTemp'
  BY NoRewriteTyped DEF OneEnds, OneAtTemp, AtTemp
<1> QED BY <1>1 DEF OneAtTemp, AtTemp

LEMMA RenameTempStep ==
    ASSUME QueueTyped, QueueSafe, NEW w \in Rewriters, RenameTemp(w)
    PROVE  QueueTyped' /\ QueueSafe'
<1>1. /\ rewrite[w].at = "rename" /\ temp' = temp /\ buried' = buried /\ overtaken' = overtaken
      /\ joined' = joined /\ tangled' = tangled /\ rewrites' = rewrites /\ queueFaults' = queueFaults
  BY DEF RenameTemp
<1>2. \A v \in Rewriters : rewrite[v] \in RewriteStates
  BY DEF QueueTyped, RewriteStates
<1>3. CASE hasTemp
  <2>1. /\ file' = temp /\ hasTemp' = FALSE
        /\ append' = [r \in QueueRecords |-> [append[r] EXCEPT !.fd = IF @ = "queue" THEN "gone" ELSE @]]
        /\ rewrite' = [v \in Rewriters |->
                  IF v = w THEN NoRewrite
                  ELSE [rewrite[v] EXCEPT !.fd = CASE @ = "queue" -> "gone"
                                                   [] @ = "temp" -> "queue" [] OTHER -> @]]
        /\ settled' = IF rewrite[w].kind = "remove" THEN settled \cup {rewrite[w].record} ELSE settled
    BY <1>3 DEF RenameTemp
  <2>2. ASSUME NEW v \in Rewriters, v # w
        PROVE  /\ rewrite'[v] \in RewriteStates
               /\ rewrite'[v].at = rewrite[v].at /\ rewrite'[v].kind = rewrite[v].kind
               /\ rewrite'[v].record = rewrite[v].record /\ rewrite'[v].kept = rewrite[v].kept
    <3>1. PICK d \in RewriteStates : d = rewrite[v]
      BY <1>2
    <3>2. PICK fd : fd = CASE d.fd = "queue" -> "gone" [] d.fd = "temp" -> "queue" [] OTHER -> d.fd
      OBVIOUS
    <3>3. fd \in {"none", "temp", "queue", "gone"}
      BY <3>1, <3>2 DEF RewriteStates
    <3>4. rewrite'[v] = [d EXCEPT !.fd = fd]
      BY <2>1, <2>2, <3>1, <3>2
    <3> QED BY <3>1, <3>3, <3>4, Redirected
  <2>3. rewrite'[w] = NoRewrite /\ rewrite' = [v \in Rewriters |-> rewrite'[v]]
    BY <2>1
  <2>4. OneEnds(w)
    BY <2>2, <2>3, NoRewriteTyped DEF OneEnds
  <2>5. ASSUME NEW r \in QueueRecords
        PROVE  /\ append'[r] \in [at : {"idle", "open", "written", "failed"}, fd : {"none", "queue", "gone"}]
               /\ append'[r].at = append[r].at /\ (append[r].fd # "none" => append'[r].fd # "none")
    <3>1. append[r] \in [at : {"idle", "open", "written", "failed"}, fd : {"none", "queue", "gone"}]
      BY DEF QueueTyped
    <3>2. append'[r] = [append[r] EXCEPT !.fd = IF append[r].fd = "queue" THEN "gone" ELSE append[r].fd]
      BY <2>1
    <3> QED BY <3>1, <3>2
  <2>6. append' \in [QueueRecords -> [at : {"idle", "open", "written", "failed"},
                                      fd : {"none", "queue", "gone"}]]
    <3>1. append' = [r \in QueueRecords |-> append'[r]]
      BY <2>1
    <3> QED BY <2>5, <3>1
  <2>7. \A r \in QueueRecords : append'[r].at = "open" => append'[r].fd # "none"
    BY <2>5 DEF QueueTyped
  <2>8. rewrite[w].record \in QueueRecords
    BY <1>1 DEF QueueTyped
  <2>9. QueueTyped'
    <3>1. file' \in Seq(Cells) /\ hasTemp' \in BOOLEAN /\ settled' \subseteq QueueRecords
          /\ queueFaults' \in 0 .. MaxQueueFaults
      BY <1>1, <2>1, <2>8 DEF QueueTyped
    <3> QED BY <1>1, <2>4, <2>6, <2>7, <3>1, OneEndsTyped
  <2>10. ASSUME ~tangled PROVE OneAtTemp' /\ FileSafe' /\ \A v \in Rewriters : HeldSafe(v)'
    <3>1. w \in AtTemp
      BY <1>1 DEF AtTemp
    <3>2. temp = rewrite[w].kept /\ OneAtTemp
      BY <1>1, <2>10, <3>1 DEF QueueSafe, OneAtTemp
    <3>3. \A r \in QueueRecords : Done(r) => Done(r)'
      BY <1>1, <2>1 DEF Done
    <3>4. ASSUME NEW r \in QueueRecords, append'[r].at = "written" PROVE InSeq(Parsed(file'), r) \/ Done(r)'
      <4>1. append[r].at = "written"
        BY <2>5, <3>4
      <4>2. \/ InSeq(rewrite[w].kept, r) \/ Done(r)
            \/ rewrite[w].kind = "remove" /\ r = rewrite[w].record
        BY <1>1, <2>10, <4>1 DEF QueueSafe, HeldSafe
      <4>3. CASE InSeq(rewrite[w].kept, r)
        <5>1. file' \in Seq(QueueRecords) /\ InSeq(file', r)
          BY <1>2, <2>1, <3>2, <4>3 DEF RewriteStates
        <5>2. PICK content \in Seq(QueueRecords) : content = file' /\ InSeq(content, r)
          BY <5>1
        <5>3. InSeq(Parsed(content), r)
          BY <5>2, QueueFileAssumption, RecordsParse
        <5> QED BY <5>2, <5>3
      <4>4. CASE rewrite[w].kind = "remove" /\ r = rewrite[w].record
        BY <2>1, <4>4 DEF Done
      <4> QED BY <3>3, <4>2, <4>3, <4>4
    <3>5. FileSafe'
      BY <3>4 DEF FileSafe
    <3>6. \A r \in QueueRecords : append'[r].at = "written" => append[r].at = "written"
      BY <2>5
    <3>7. \A v \in Rewriters : HeldSafe(v)
      BY <2>10 DEF QueueSafe
    <3> QED BY <2>4, <3>1, <3>2, <3>3, <3>5, <3>6, <3>7, OneEndsHeld, OneEndsAlone
  <2> QED BY <1>1, <2>9, <2>10 DEF QueueSafe
<1>4. CASE ~hasTemp
  <2>1. /\ rewrite' = [rewrite EXCEPT ![w] = NoRewrite]
        /\ file' = file /\ hasTemp' = hasTemp /\ append' = append /\ settled' = settled
    BY <1>4 DEF RenameTemp
  <2>2. OneEnds(w)
    <3>1. rewrite'[w] = NoRewrite /\ \A v \in Rewriters : v # w => rewrite'[v] = rewrite[v]
      BY <2>1 DEF QueueTyped
    <3>2. rewrite' \in [Rewriters -> RewriteStates]
      BY <2>1, NoRewriteTyped DEF QueueTyped, RewriteStates
    <3> QED BY <3>1, <3>2 DEF OneEnds
  <2>3. QueueTyped'
    BY <1>1, <2>1, <2>2, OneEndsTyped DEF QueueTyped
  <2>4. tangled
    <3>1. w \in AtTemp
      BY <1>1 DEF AtTemp
    <3> QED BY <1>4, <3>1 DEF QueueSafe, OneAtTemp
  <2> QED BY <1>1, <2>3, <2>4 DEF QueueSafe
<1> QED BY <1>3, <1>4

LEMMA AbortRewriteStep ==
    ASSUME QueueTyped, QueueSafe, NEW w \in Rewriters, AbortRewrite(w)
    PROVE  QueueTyped' /\ QueueSafe'
<1>1. /\ rewrite[w].at = "fill" /\ hasTemp' = FALSE
      /\ rewrite' = [v \in Rewriters |->
                IF v = w THEN NoRewrite
                ELSE [rewrite[v] EXCEPT !.fd = IF @ = "temp" /\ hasTemp THEN "gone" ELSE @]]
      /\ file' = file /\ temp' = temp /\ append' = append /\ buried' = buried /\ settled' = settled
      /\ overtaken' = overtaken /\ joined' = joined /\ tangled' = tangled /\ rewrites' = rewrites
      /\ queueFaults < MaxQueueFaults /\ queueFaults' = queueFaults + 1
  BY DEF AbortRewrite, QueueFault
<1>2. ASSUME NEW v \in Rewriters, v # w
      PROVE  /\ rewrite'[v] \in RewriteStates
             /\ rewrite'[v].at = rewrite[v].at /\ rewrite'[v].kind = rewrite[v].kind
             /\ rewrite'[v].record = rewrite[v].record /\ rewrite'[v].kept = rewrite[v].kept
  <2>1. PICK d \in RewriteStates : d = rewrite[v]
    BY DEF QueueTyped, RewriteStates
  <2>2. PICK fd : fd = IF d.fd = "temp" /\ hasTemp THEN "gone" ELSE d.fd
    OBVIOUS
  <2>3. fd \in {"none", "temp", "queue", "gone"}
    BY <2>1, <2>2 DEF RewriteStates
  <2>4. rewrite'[v] = [d EXCEPT !.fd = fd]
    BY <1>1, <1>2, <2>1, <2>2
  <2> QED BY <2>1, <2>3, <2>4, Redirected
<1>3. OneEnds(w)
  <2>1. rewrite'[w] = NoRewrite /\ rewrite' = [v \in Rewriters |-> rewrite'[v]]
    BY <1>1
  <2> QED BY <1>2, <2>1, NoRewriteTyped DEF OneEnds
<1>4. QueueTyped'
  <2>1. queueFaults' \in 0 .. MaxQueueFaults
    BY <1>1, QueueFileAssumption DEF QueueTyped, QueueFileAssumption
  <2> QED BY <1>1, <1>3, <2>1, OneEndsTyped DEF QueueTyped
<1>5. ASSUME ~tangled PROVE OneAtTemp' /\ FileSafe' /\ \A v \in Rewriters : HeldSafe(v)'
  <2>1. w \in AtTemp
    BY <1>1 DEF AtTemp
  <2>2. OneAtTemp'
    BY <1>3, <1>5, <2>1, OneEndsAlone DEF QueueSafe
  <2>3. \A r \in QueueRecords : Done(r) => Done(r)'
    BY <1>1 DEF Done
  <2>4. FileSafe'
    BY <1>1, <1>5, <2>3, FileStill DEF QueueSafe
  <2>5. \A v \in Rewriters : HeldSafe(v)
    BY <1>5 DEF QueueSafe
  <2> QED BY <1>1, <1>3, <2>2, <2>3, <2>4, <2>5, OneEndsHeld
<1> QED BY <1>1, <1>4, <1>5 DEF QueueSafe

LEMMA QueueStep == QueueTyped /\ QueueSafe /\ [QueueFileNext]_queueFileVars => QueueTyped' /\ QueueSafe'
<1> SUFFICES ASSUME QueueTyped, QueueSafe, [QueueFileNext]_queueFileVars PROVE QueueTyped' /\ QueueSafe'
  OBVIOUS
<1>1. ASSUME NEW r \in QueueRecords, OpenQueue(r) \/ WriteRecord(r) \/ WriteFragment(r)
      PROVE  QueueTyped' /\ QueueSafe'
  BY <1>1, OpenQueueStep, WriteRecordStep, WriteFragmentStep
<1>2. ASSUME NEW w \in Rewriters, NEW kind \in {"remove", "bury", "update"}, NEW r \in QueueRecords,
             StartRewrite(w, kind, r)
      PROVE  QueueTyped' /\ QueueSafe'
  BY <1>2, StartRewriteStep
<1>3. ASSUME NEW w \in Rewriters,
             \/ ReadQueue(w) \/ BuryRecord(w) \/ OpenTemp(w) \/ FillTemp(w) \/ RenameTemp(w)
             \/ AbortRewrite(w) \/ RewriterDies(w)
      PROVE  QueueTyped' /\ QueueSafe'
  BY <1>3, ReadQueueStep, BuryRecordStep, OpenTempStep, FillTempStep, RenameTempStep, AbortRewriteStep,
     RewriterDiesStep
<1>4. CASE UNCHANGED queueFileVars
  <2>1. /\ file' = file /\ temp' = temp /\ hasTemp' = hasTemp /\ append' = append /\ rewrite' = rewrite
        /\ buried' = buried /\ settled' = settled /\ overtaken' = overtaken /\ joined' = joined
        /\ tangled' = tangled /\ rewrites' = rewrites /\ queueFaults' = queueFaults
    BY <1>4 DEF queueFileVars
  <2>2. QueueTyped'
    BY <2>1 DEF QueueTyped
  <2>3. OneAtTemp' <=> OneAtTemp
    BY <2>1 DEF OneAtTemp, AtTemp
  <2>4. (FileSafe' <=> FileSafe) /\ \A v \in Rewriters : HeldSafe(v)' <=> HeldSafe(v)
    BY <2>1 DEF FileSafe, HeldSafe, Done
  <2> QED BY <2>1, <2>2, <2>3, <2>4 DEF QueueSafe
<1> QED BY <1>1, <1>2, <1>3, <1>4 DEF QueueFileNext

\* The queue's file, the temporary one and the processes have their types.
THEOREM QueueTypeCorrect == QueueFileSpec => []QueueFileTypeOK
<1>1. QueueTyped => QueueFileTypeOK
  BY DEF QueueTyped, QueueFileTypeOK
<1> QED BY <1>1, QueueStarts, QueueStep, PTL DEF QueueFileSpec

\* A record that was appended is read back, buried or settled (internal/gateway/notification/
\* queue.go), whoever rewrites the file and wherever he dies, but for what QueueKeeps names.
THEOREM QueueKeepsCorrect == QueueFileSpec => []QueueKeeps
<1>1. QueueTyped /\ QueueSafe => QueueKeeps
  <2> SUFFICES ASSUME QueueTyped, QueueSafe, ~tangled, NEW r \in QueueRecords, append[r].at = "written"
               PROVE  Contains(Parsed(file), r) \/ r \in buried \cup settled \cup overtaken \cup joined
    BY DEF QueueKeeps
  <2>1. InSeq(Parsed(file), r) => Contains(Parsed(file), r)
    <3>1. Parsed(file) \in Seq(QueueRecords)
      BY ParsedHolds DEF QueueTyped
    <3> QED BY <3>1, LenProperties DEF InSeq, Contains
  <2> QED BY <2>1 DEF QueueSafe, FileSafe, Done
<1> QED BY <1>1, QueueStarts, QueueStep, PTL DEF QueueFileSpec

-----------------------------------------------------------------------------
(* The answers given from the index.                                       *)

Decisions == {DecisionLine(p, t) : p \in PushKinds, t \in Nat}

\* Indexed, among the first n rows.
RowFor(i, n) == \E k \in 1 .. n : decided[k] = i
Indexed(i) == RowFor(i, Len(decided))

\* The log runs in time, and the index is of it.
LogTimes ==
    /\ logged \in Seq(Decisions) /\ decided \in Seq(DOMAIN logged)
    /\ statClock \in Nat /\ lastIngest \in 0 .. statClock
    /\ \A i \in DOMAIN logged : logged[i].time <= statClock

ReaderStates == [st : {"idle", "refresh", "read"}, report : DOMAIN Statements \cup {"none"},
                 file : 0 .. Len(RepoOrder) + 1, asked : Nat,
                 note : BOOLEAN, excused : BOOLEAN, saw : Seq(Nat)]

ReaderTyped(e) ==
    /\ e \in ReaderStates
    /\ e.asked <= statClock
    /\ \A k \in DOMAIN e.saw : e.saw[k] <= Len(decided)
    /\ e.st = "refresh" => e.file \in DOMAIN RepoOrder /\ e.saw = <<>>
    /\ e.st # "idle" => e.report \in DOMAIN Statements

\* A refresh that is done began when the API says it did, or later.
RefreshSound ==
    /\ refresh = [by |-> refresh.by, done |-> refresh.done] /\ refresh.done \in BOOLEAN
    /\ refresh.done => \A i \in DOMAIN logged : logged[i].time < lastIngest => Indexed(i)
    /\ \A r \in Readers : reader[r].st = "refresh" /\ refresh.by = r => lastIngest <= reader[r].asked

\* What a request has of its own refresh, and what it has from the one it relies on.
ReaderSound(e) ==
    /\ e.st = "refresh" =>
          \A i \in DOMAIN logged : \A f \in DOMAIN RepoOrder :
             logged[i].time < e.asked /\ logged[i].repo = RepoOrder[f] /\ f < e.file => Indexed(i)
    /\ e.st = "read" /\ ~e.note /\ ~e.excused =>
          \A i \in DOMAIN logged :
             logged[i].time + RefreshEvery <= e.asked =>
                /\ Indexed(i)
                /\ e.saw # <<>> => RowFor(i, e.saw[1])

ReadersSound ==
    /\ reader \in [Readers -> ReaderStates]
    /\ \A r \in Readers : ReaderTyped(reader[r]) /\ ReaderSound(reader[r])

StatInv == LogTimes /\ RefreshSound /\ ReadersSound

LEMMA DecisionFields ==
    ASSUME GateStatsAssumption, NEW p \in PushKinds, NEW t
    PROVE  DecisionLine(p, t).time = t /\ DecisionLine(p, t).repo \in GateRepos
BY DEF GateStatsAssumption, GateRepos, DecisionLine

LEMMA DecisionTyped ==
    ASSUME GateStatsAssumption, NEW d \in Decisions
    PROVE  d.time \in Nat /\ d.repo \in GateRepos
<1>1. PICK p \in PushKinds, t \in Nat : d = DecisionLine(p, t)
  BY DEF Decisions
<1> QED BY <1>1, DecisionFields

LEMMA UnindexedHolds ==
    ASSUME LogTimes, NEW repo
    PROVE  /\ Unindexed(repo) \in Seq(DOMAIN logged)
           /\ \A i \in DOMAIN logged : logged[i].repo = repo => Indexed(i) \/ InSeq(Unindexed(repo), i)
<1> DEFINE parts == [i \in DOMAIN logged |->
                        IF logged[i].repo = repo /\ i \notin Range(decided) THEN <<i>> ELSE <<>>]
<1>1. Unindexed(repo) = FlattenSeq(parts)
  BY Zenon DEF Unindexed
<1>2. Len(logged) \in Nat /\ DOMAIN logged = 1 .. Len(logged)
  BY LenProperties DEF LogTimes
<1>3. ASSUME NEW i \in DOMAIN logged
      PROVE  /\ parts[i] \in Seq(DOMAIN logged)
             /\ logged[i].repo = repo /\ i \notin Range(decided) => InSeq(parts[i], i)
  <2>1. CASE logged[i].repo = repo /\ i \notin Range(decided)
    <3>1. parts[i] = <<i>>
      BY <2>1
    <3>2. PICK S : S = DOMAIN logged
      OBVIOUS
    <3>3. <<i>> \in Seq(S) /\ InSeq(<<i>>, i)
      BY <3>2 DEF InSeq
    <3> QED BY <3>1, <3>2, <3>3
  <2>2. CASE ~(logged[i].repo = repo /\ i \notin Range(decided))
    <3>1. parts[i] = <<>>
      BY <2>2
    <3>2. <<>> \in Seq(DOMAIN logged)
      OBVIOUS
    <3> QED BY <2>2, <3>1, <3>2
  <2> QED BY <2>1, <2>2
<1>4. DOMAIN parts = DOMAIN logged /\ parts = [i \in 1 .. Len(logged) |-> parts[i]]
  BY <1>2
<1> HIDE DEF parts
<1>5. parts \in Seq(Seq(DOMAIN logged))
  <2>1. PICK E : E = Seq(DOMAIN logged)
    OBVIOUS
  <2>2. \A i \in 1 .. Len(logged) : parts[i] \in E
    BY <1>2, <1>3, <2>1
  <2>3. parts \in Seq(E)
    BY <1>2, <1>4, <2>2
  <2> QED BY <2>1, <2>3
<1>6. /\ FlattenSeq(parts) \in Seq(DOMAIN logged)
      /\ \A x : InSeq(FlattenSeq(parts), x) <=> \E i \in DOMAIN parts : InSeq(parts[i], x)
  BY <1>5, FlattenHolds
<1>7. ASSUME NEW i \in DOMAIN logged, logged[i].repo = repo PROVE Indexed(i) \/ InSeq(Unindexed(repo), i)
  <2>1. CASE i \in Range(decided)
    <3>1. DOMAIN decided = 1 .. Len(decided)
      BY LenProperties DEF LogTimes
    <3> QED BY <2>1, <3>1 DEF Range, Indexed, RowFor
  <2>2. CASE i \notin Range(decided)
    BY <1>1, <1>3, <1>4, <1>6, <1>7, <2>2
  <2> QED BY <2>1, <2>2
<1> QED BY <1>1, <1>6, <1>7

LEMMA IndexGrows ==
    ASSUME LogTimes, NEW new \in Seq(DOMAIN logged), decided' = decided \o new, logged' = logged
    PROVE  /\ decided' \in Seq(DOMAIN logged') /\ Len(decided) \in Nat /\ Len(decided') \in Nat
           /\ Len(decided) <= Len(decided')
           /\ \A i : \A n \in 0 .. Len(decided) : RowFor(i, n) => RowFor(i, n)'
           /\ \A i : Indexed(i) => Indexed(i)'
           /\ \A i : InSeq(new, i) => Indexed(i)'
<1>1. PICK E : E = DOMAIN logged
  OBVIOUS
<1>2. decided \in Seq(E) /\ new \in Seq(E)
  BY <1>1 DEF LogTimes
<1>3. PICK a \in Nat, b \in Nat : a = Len(decided) /\ b = Len(new)
  BY <1>2, LenProperties
<1>4. /\ decided' \in Seq(E) /\ Len(decided') = a + b
      /\ \A k \in 1 .. a : decided'[k] = decided[k]
      /\ \A k \in 1 .. b : decided'[a + k] = new[k]
      /\ DOMAIN new = 1 .. b
  BY <1>2, <1>3
<1>5. \A i : \A n \in 0 .. a : RowFor(i, n) => RowFor(i, n)'
  <2> SUFFICES ASSUME NEW i, NEW n \in 0 .. a, RowFor(i, n) PROVE \E k \in 1 .. n : decided'[k] = i
    BY DEF RowFor
  <2>1. PICK k \in 1 .. n : decided[k] = i
    BY DEF RowFor
  <2>2. k \in 1 .. a
    BY <1>3
  <2> QED BY <1>4, <2>1, <2>2
<1>6. ASSUME NEW i, Indexed(i) PROVE Indexed(i)'
  <2>1. PICK k \in 1 .. a : decided[k] = i
    BY <1>3, <1>6 DEF Indexed, RowFor
  <2>2. k \in 1 .. a + b /\ decided'[k] = i
    BY <1>4, <2>1
  <2> QED BY <1>4, <2>2 DEF Indexed, RowFor
<1>7. ASSUME NEW i, InSeq(new, i) PROVE Indexed(i)'
  <2>1. PICK k \in 1 .. b : new[k] = i
    BY <1>4, <1>7 DEF InSeq
  <2>2. a + k \in 1 .. a + b /\ decided'[a + k] = i
    BY <1>4, <2>1
  <2> QED BY <1>4, <2>2 DEF Indexed, RowFor
<1>8. a <= a + b /\ a + b \in Nat
  OBVIOUS
<1> QED BY <1>1, <1>3, <1>4, <1>5, <1>6, <1>7, <1>8

LEMMA IdleReaderTyped ==
    ASSUME GateStatsAssumption, statClock \in Nat
    PROVE  /\ ReaderTyped(IdleReader) /\ ReaderSound(IdleReader) /\ IdleReader.st = "idle"
           /\ IdleReader \in ReaderStates
<1>1. <<>> \in Seq(Nat) /\ Len(RepoOrder) \in Nat /\ 0 \in 0 .. Len(RepoOrder) + 1
  <2>1. Len(RepoOrder) \in Nat
    BY LenProperties DEF GateStatsAssumption
  <2> QED BY <2>1
<1>2. IdleReader = [st |-> "idle", report |-> "none", file |-> 0, asked |-> 0, note |-> FALSE,
                    excused |-> FALSE, saw |-> <<>>]
  BY DEF IdleReader
<1>3. IdleReader \in ReaderStates
  BY <1>1, <1>2 DEF ReaderStates
<1>4. IdleReader.st = "idle" /\ IdleReader.asked = 0 /\ IdleReader.saw = <<>>
  BY <1>2
<1> QED BY <1>3, <1>4 DEF ReaderTyped, ReaderSound

LEMMA StatStarts == ASSUME GateStatsAssumption, StatInit PROVE StatInv
<1>1. LogTimes
  <2>1. statClock \in Nat /\ 0 \in 0 .. statClock /\ <<>> \in Seq(Decisions) /\ <<>> \in Seq(DOMAIN <<>>)
    BY DEF StatInit, GateStatsAssumption
  <2> QED BY <2>1 DEF StatInit, LogTimes
<1>2. RefreshSound
  BY IdleReaderTyped, <1>1 DEF StatInit, RefreshSound, LogTimes
<1>3. ReadersSound
  BY IdleReaderTyped, <1>1 DEF StatInit, ReadersSound, LogTimes
<1> QED BY <1>1, <1>2, <1>3 DEF StatInv

LEMMA LogDecisionStep ==
    ASSUME GateStatsAssumption, StatInv, NEW p \in PushKinds, LogDecision(p) PROVE StatInv'
<1>1. PICK d : d = DecisionLine(p, statClock)
  OBVIOUS
<1>2. /\ logged' = Append(logged, d) /\ decided' = decided /\ lastIngest' = lastIngest /\ refresh' = refresh
      /\ reader' = reader /\ statClock' = statClock
  BY <1>1 DEF LogDecision
<1>3. statClock \in Nat /\ logged \in Seq(Decisions) /\ d \in Decisions /\ d.time = statClock
      /\ lastIngest <= statClock /\ RefreshEvery \in Nat \ {0}
  <2>1. statClock \in Nat /\ logged \in Seq(Decisions) /\ lastIngest <= statClock /\ RefreshEvery \in Nat \ {0}
    BY DEF StatInv, LogTimes, GateStatsAssumption
  <2>2. d \in Decisions
    BY <1>1, <2>1 DEF Decisions
  <2> QED BY <1>1, <2>1, <2>2, DecisionFields
<1>4. PICK n \in Nat : n = Len(logged)
  BY <1>3, LenProperties
<1>5. /\ logged' \in Seq(Decisions) /\ DOMAIN logged = 1 .. n /\ DOMAIN logged' = 1 .. n + 1
      /\ logged'[n + 1] = d /\ \A i \in 1 .. n : logged'[i] = logged[i]
  BY <1>2, <1>3, <1>4
<1>6. \A i \in DOMAIN logged' : i = n + 1 \/ (i \in DOMAIN logged /\ logged'[i] = logged[i])
  BY <1>5
<1>7. \A i : \A k : RowFor(i, k)' <=> RowFor(i, k)
  BY <1>2 DEF RowFor
<1>8. \A i : Indexed(i)' <=> Indexed(i)
  BY <1>2 DEF Indexed, RowFor
<1>9. LogTimes'
  <2>1. ASSUME NEW i \in DOMAIN logged' PROVE logged'[i].time <= statClock
    <3>1. CASE i = n + 1
      <4>1. PICK c \in Nat : c = statClock
        BY <1>3
      <4>2. c <= c
        OBVIOUS
      <4>3. logged'[i].time = c
        BY <1>3, <1>5, <3>1, <4>1
      <4> QED BY <4>1, <4>2, <4>3
    <3>2. CASE i \in DOMAIN logged /\ logged'[i] = logged[i]
      <4>1. logged[i].time <= statClock
        BY <3>2 DEF StatInv, LogTimes
      <4> QED BY <3>2, <4>1
    <3> QED BY <1>6, <3>1, <3>2
  <2>2. decided \in Seq(DOMAIN logged')
    <3>1. PICK S, T : S = DOMAIN logged /\ T = DOMAIN logged'
      OBVIOUS
    <3>2. S \subseteq T /\ decided \in Seq(S)
      BY <1>5, <3>1 DEF StatInv, LogTimes
    <3>3. decided \in Seq(T)
      BY <3>2, SeqMonotonic
    <3> QED BY <3>1, <3>3
  <2> QED BY <1>2, <1>5, <2>1, <2>2 DEF StatInv, LogTimes
<1>10. RefreshSound'
  <2>1. ASSUME refresh.done, NEW i \in DOMAIN logged', logged'[i].time < lastIngest PROVE Indexed(i)
    <3>1. i # n + 1
      <4>1. PICK c \in Nat, l \in Nat : c = statClock /\ l = lastIngest /\ l <= c
        BY DEF StatInv, LogTimes
      <4>2. ~(c < l)
        BY <4>1
      <4> QED BY <1>3, <1>5, <2>1, <4>1, <4>2
    <3> QED BY <1>6, <2>1, <3>1 DEF StatInv, RefreshSound
  <2> QED BY <1>2, <1>8, <2>1 DEF StatInv, RefreshSound
<1>11. ASSUME NEW r \in Readers PROVE ReaderTyped(reader[r])' /\ ReaderSound(reader[r])'
  <2>1. PICK e : e = reader[r]
    OBVIOUS
  <2>2. ReaderTyped(e) /\ ReaderSound(e) /\ e.asked \in Nat /\ e.asked <= statClock
    BY <2>1 DEF StatInv, ReadersSound, ReaderTyped, ReaderStates
  <2>3. ReaderTyped(e)'
    BY <1>2, <2>2 DEF ReaderTyped
  <2>4. ~(logged'[n + 1].time < e.asked) /\ ~(logged'[n + 1].time + RefreshEvery <= e.asked)
    <3>1. PICK c \in Nat, a \in Nat, v \in Nat : c = statClock /\ a = e.asked /\ v = RefreshEvery
      BY <1>3, <2>2
    <3>2. ~(c < a) /\ ~(c + v <= a)
      <4>1. a <= c /\ v # 0
        BY <1>3, <2>2, <3>1
      <4> QED BY <4>1
    <3>3. logged'[n + 1].time = c
      BY <1>3, <1>5, <3>1
    <3> QED BY <3>1, <3>2, <3>3
  <2>5. ReaderSound(e)'
    BY <1>6, <1>7, <1>8, <2>2, <2>4 DEF ReaderSound
  <2> QED BY <1>2, <2>1, <2>3, <2>5
<1>12. ReadersSound'
  BY <1>2, <1>11 DEF StatInv, ReadersSound
<1> QED BY <1>9, <1>10, <1>12 DEF StatInv

\* One request goes on, and the index and the log stay as they are.
LEMMA OneAnswers ==
    ASSUME StatInv, NEW r \in Readers, NEW e, ReaderTyped(e), ReaderSound(e),
           reader' = [reader EXCEPT ![r] = e],
           logged' = logged, decided' = decided, statClock' = statClock,
           lastIngest' \in 0 .. statClock, RefreshSound'
    PROVE  StatInv'
<1>1. /\ reader'[r] = e /\ \A q \in Readers : q # r => reader'[q] = reader[q]
      /\ reader' \in [Readers -> ReaderStates]
  BY DEF StatInv, ReadersSound, ReaderTyped
<1>2. LogTimes'
  BY DEF StatInv, LogTimes
<1>3. \A q \in Readers : ReaderTyped(reader'[q]) /\ ReaderSound(reader'[q])
  BY <1>1 DEF StatInv, ReadersSound
<1>4. \A q \in Readers : ReaderTyped(reader[q])' /\ ReaderSound(reader[q])'
  BY <1>3 DEF ReaderTyped, ReaderSound, Indexed, RowFor
<1> QED BY <1>1, <1>2, <1>4 DEF StatInv, ReadersSound

LEMMA RefreshStays ==
    ASSUME StatInv, NEW r \in Readers, NEW e, reader' = [reader EXCEPT ![r] = e], e.st # "refresh",
           logged' = logged, decided' = decided, lastIngest' = lastIngest, refresh' = refresh
    PROVE  RefreshSound'
<1>1. reader'[r] = e /\ \A q \in Readers : q # r => reader'[q] = reader[q]
  BY DEF StatInv, ReadersSound
<1>2. \A i : Indexed(i)' <=> Indexed(i)
  BY DEF Indexed, RowFor
<1> QED BY <1>1, <1>2 DEF StatInv, RefreshSound

LEMMA AskStep ==
    ASSUME GateStatsAssumption, StatInv, NEW r \in Readers, NEW report \in DOMAIN Statements, Ask(r, report)
    PROVE  StatInv'
<1>1. PICK api \in BOOLEAN : api = (report \notin {"stats", "benchmark"})
  OBVIOUS
<1>2. PICK due \in BOOLEAN : due = (~api \/ Due)
  BY <1>1 DEF Due
<1>3. PICK e : e = [IdleReader EXCEPT !.st = IF due THEN "refresh" ELSE "read", !.report = report,
                    !.file = 1, !.asked = statClock, !.excused = ~due /\ ~refresh.done]
  OBVIOUS
<1>4. /\ reader' = [reader EXCEPT ![r] = e]
      /\ IF api /\ due THEN lastIngest' = statClock /\ refresh' = [by |-> r, done |-> FALSE]
                       ELSE lastIngest' = lastIngest /\ refresh' = refresh
      /\ logged' = logged /\ decided' = decided /\ statClock' = statClock
  BY <1>1, <1>2, <1>3 DEF Ask
<1>5. e = [st |-> IF due THEN "refresh" ELSE "read", report |-> report, file |-> 1, asked |-> statClock,
           note |-> FALSE, excused |-> ~due /\ ~refresh.done, saw |-> <<>>]
  BY <1>3 DEF IdleReader
<1>6. /\ e.st = (IF due THEN "refresh" ELSE "read") /\ e.report = report /\ e.file = 1 /\ e.asked = statClock
      /\ e.note = FALSE /\ e.excused = (~due /\ ~refresh.done) /\ e.saw = <<>>
  BY <1>5
<1>7. statClock \in Nat /\ lastIngest \in 0 .. statClock /\ refresh.done \in BOOLEAN
      /\ RefreshEvery \in Nat \ {0}
  BY DEF StatInv, LogTimes, RefreshSound, GateStatsAssumption
<1>8. 1 \in DOMAIN RepoOrder /\ 1 \in 0 .. Len(RepoOrder) + 1 /\ DOMAIN RepoOrder = 1 .. Len(RepoOrder)
  <2>1. Len(RepoOrder) \in Nat /\ DOMAIN RepoOrder = 1 .. Len(RepoOrder) /\ Len(RepoOrder) # 0
    BY LenProperties, EmptySeq DEF GateStatsAssumption
  <2> QED BY <2>1
<1>9. ReaderTyped(e)
  <2>1. e \in ReaderStates
    <3>1. <<>> \in Seq(Nat)
      OBVIOUS
    <3> QED BY <1>5, <1>7, <1>8, <3>1 DEF ReaderStates
  <2> QED BY <1>6, <1>7, <1>8, <2>1 DEF ReaderTyped
<1>10. ReaderSound(e)
  <2>1. CASE due
    <3>1. \A f \in DOMAIN RepoOrder : ~(f < 1)
      BY <1>8
    <3> QED BY <1>6, <2>1, <3>1 DEF ReaderSound
  <2>2. CASE ~due
    <3>1. ASSUME refresh.done, NEW i \in DOMAIN logged, logged[i].time + RefreshEvery <= statClock
          PROVE  Indexed(i)
      <4>1. logged[i].time \in Nat
        <5>1. logged[i] \in Decisions
          BY ElementOfSeq, LenProperties DEF StatInv, LogTimes
        <5> QED BY <5>1, DecisionTyped
      <4>2. ~(statClock - lastIngest >= RefreshEvery)
        BY <1>2, <2>2 DEF Due
      <4>3. logged[i].time < lastIngest
        BY <1>7, <3>1, <4>1, <4>2
      <4> QED BY <3>1, <4>3 DEF StatInv, RefreshSound
    <3> QED BY <1>6, <1>7, <2>2, <3>1 DEF ReaderSound
  <2> QED BY <2>1, <2>2
<1>11. lastIngest' \in 0 .. statClock
  BY <1>4, <1>7
<1>12. reader'[r] = e /\ \A q \in Readers : q # r => reader'[q] = reader[q]
  BY <1>4 DEF StatInv, ReadersSound
<1>13. \A i : Indexed(i)' <=> Indexed(i)
  BY <1>4 DEF Indexed, RowFor
<1>14. RefreshSound'
  <2>1. CASE api /\ due
    <3>1. /\ refresh' = [by |-> refresh'.by, done |-> refresh'.done] /\ refresh'.done = FALSE
          /\ refresh'.by = r /\ lastIngest' = statClock
      BY <1>4, <2>1
    <3>2. statClock <= statClock
      BY <1>7
    <3>3. \A q \in Readers : reader'[q].st = "refresh" /\ refresh'.by = q => lastIngest' <= reader'[q].asked
      BY <1>6, <1>12, <3>1, <3>2
    <3> QED BY <3>1, <3>3 DEF RefreshSound
  <2>2. CASE ~(api /\ due)
    <3>1. lastIngest <= e.asked
      BY <1>6, <1>7
    <3>2. lastIngest' = lastIngest /\ refresh' = refresh /\ logged' = logged
      BY <1>4, <2>2
    <3>3. \A q \in Readers : reader'[q].st = "refresh" /\ refresh.by = q => lastIngest <= reader'[q].asked
      BY <1>12, <3>1 DEF StatInv, RefreshSound
    <3> QED BY <1>13, <3>2, <3>3 DEF StatInv, RefreshSound
  <2> QED BY <2>1, <2>2
<1> QED BY <1>4, <1>9, <1>10, <1>11, <1>14, OneAnswers

LEMMA IngestLogStep ==
    ASSUME GateStatsAssumption, StatInv, NEW r \in Readers, IngestLog(r) PROVE StatInv'
<1>1. PICK d : d = reader[r]
  OBVIOUS
<1>2. PICK last : last = (NextFile(r) > Len(RepoOrder))
  OBVIOUS
<1>3. PICK e : e = [d EXCEPT !.file = d.file + 1, !.st = IF last THEN "read" ELSE "refresh"]
  OBVIOUS
<1>4. d \in ReaderStates /\ ReaderTyped(d) /\ ReaderSound(d) /\ LogTimes
  BY <1>1 DEF StatInv, ReadersSound
<1>5. /\ d.st = "refresh" /\ decided' = decided \o Unindexed(RepoOrder[d.file])
      /\ refresh' = (IF last /\ refresh.by = r THEN [refresh EXCEPT !.done = TRUE] ELSE refresh)
      /\ logged' = logged /\ lastIngest' = lastIngest /\ statClock' = statClock
      /\ reader' = [reader EXCEPT ![r] = e]
  <2>1. reader' = [reader EXCEPT ![r].file = d.file + 1, ![r].st = IF last THEN "read" ELSE "refresh"]
    BY <1>1, <1>2 DEF IngestLog, NextFile
  <2>2. reader' = [reader EXCEPT ![r] = e]
    BY <1>1, <1>3, <2>1 DEF StatInv, ReadersSound
  <2> QED BY <1>1, <1>2, <2>2 DEF IngestLog, NextFile
<1>6. d.file \in DOMAIN RepoOrder /\ d.saw = <<>> /\ d.report \in DOMAIN Statements /\ d.asked <= statClock
  BY <1>4, <1>5 DEF ReaderTyped
<1>7. DOMAIN RepoOrder = 1 .. Len(RepoOrder) /\ Len(RepoOrder) \in Nat
  BY LenProperties DEF GateStatsAssumption
<1>20. PICK fs \in Nat : fs = Len(RepoOrder)
  BY <1>7
<1>21. PICK at \in 1 .. fs : at = d.file
  BY <1>6, <1>7, <1>20
<1>22. last <=> at + 1 > fs
  BY <1>1, <1>2, <1>20, <1>21 DEF NextFile
<1>8. /\ e \in ReaderStates /\ e.file = d.file + 1 /\ e.st = (IF last THEN "read" ELSE "refresh")
      /\ e.report = d.report /\ e.asked = d.asked /\ e.saw = d.saw /\ e.note = d.note /\ e.excused = d.excused
  <2>1. d.file + 1 \in 0 .. Len(RepoOrder) + 1
    BY <1>6, <1>7
  <2> QED BY <1>3, <1>4, <2>1 DEF ReaderStates
<1>9. PICK new \in Seq(DOMAIN logged) :
         /\ new = Unindexed(RepoOrder[d.file])
         /\ \A i \in DOMAIN logged : logged[i].repo = RepoOrder[d.file] => Indexed(i) \/ InSeq(new, i)
  BY <1>4, UnindexedHolds
<1>10. /\ decided' \in Seq(DOMAIN logged') /\ Len(decided) \in Nat /\ Len(decided') \in Nat
       /\ Len(decided) <= Len(decided')
       /\ \A i : \A n \in 0 .. Len(decided) : RowFor(i, n) => RowFor(i, n)'
       /\ \A i : Indexed(i) => Indexed(i)'
       /\ \A i : InSeq(new, i) => Indexed(i)'
  BY <1>4, <1>5, <1>9, IndexGrows
\* The files up to this one.
<1>11. ASSUME NEW i \in DOMAIN logged, NEW f \in DOMAIN RepoOrder, logged[i].time < d.asked,
              logged[i].repo = RepoOrder[f], f < d.file + 1
       PROVE  Indexed(i)'
  <2>1. CASE f < d.file
    BY <1>4, <1>5, <1>10, <1>11, <2>1 DEF ReaderSound
  <2>2. CASE ~(f < d.file)
    <3>1. f = d.file
      BY <1>6, <1>7, <1>11, <2>2
    <3> QED BY <1>9, <1>10, <1>11, <3>1
  <2> QED BY <2>1, <2>2
\* All of them, after the last.
<1>12. ASSUME last, NEW i \in DOMAIN logged, logged[i].time < d.asked PROVE Indexed(i)'
  <2>1. logged[i].repo \in GateRepos
    <3>1. logged[i] \in Decisions
      BY <1>4, ElementOfSeq, LenProperties DEF LogTimes
    <3> QED BY <3>1, DecisionTyped
  <2>2. PICK f \in DOMAIN RepoOrder : logged[i].repo = RepoOrder[f]
    BY <2>1 DEF GateRepos, Range
  <2>3. f < d.file + 1
    <3>1. f \in 1 .. fs /\ at + 1 > fs
      BY <1>7, <1>12, <1>20, <1>22
    <3>2. f < at + 1
      BY <1>20, <1>21, <3>1
    <3> QED BY <1>20, <1>21, <3>2
  <2> QED BY <1>11, <1>12, <2>2, <2>3
<1>13. LogTimes'
  BY <1>4, <1>5, <1>10 DEF LogTimes
<1>14. reader'[r] = e /\ (\A q \in Readers : q # r => reader'[q] = reader[q]) /\ reader' \in [Readers -> ReaderStates]
  BY <1>5, <1>8 DEF StatInv, ReadersSound
<1>15. RefreshSound'
  <2>1. refresh = [by |-> refresh.by, done |-> refresh.done] /\ refresh.done \in BOOLEAN
    BY DEF StatInv, RefreshSound
  <2>2. /\ refresh' = [by |-> refresh'.by, done |-> refresh'.done] /\ refresh'.by = refresh.by
        /\ refresh'.done = (IF last /\ refresh.by = r THEN TRUE ELSE refresh.done)
    BY <1>5, <2>1
  <2>3. ASSUME refresh'.done, NEW i \in DOMAIN logged, logged[i].time < lastIngest PROVE Indexed(i)'
    <3>1. CASE refresh.done
      BY <1>10, <2>3, <3>1 DEF StatInv, RefreshSound
    <3>2. CASE ~refresh.done
      <4>1. last /\ refresh.by = r
        BY <2>2, <2>3, <3>2
      <4>2. lastIngest <= d.asked
        BY <1>1, <1>5, <4>1 DEF StatInv, RefreshSound
      <4>3. logged[i].time \in Nat /\ lastIngest \in Nat /\ d.asked \in Nat
        <5>1. logged[i] \in Decisions
          BY <1>4, ElementOfSeq, LenProperties DEF LogTimes
        <5> QED BY <1>4, <5>1, DecisionTyped DEF LogTimes, ReaderStates
      <4>4. logged[i].time < d.asked
        BY <2>3, <4>2, <4>3
      <4> QED BY <1>12, <4>1, <4>4
    <3> QED BY <3>1, <3>2
  <2>4. \A q \in Readers : reader'[q].st = "refresh" /\ refresh'.by = q => lastIngest' <= reader'[q].asked
    <3>1. ASSUME NEW q \in Readers, reader'[q].st = "refresh", refresh'.by = q
          PROVE  lastIngest <= reader'[q].asked
      <4>1. reader'[q].asked = reader[q].asked /\ reader[q].st = "refresh"
        BY <1>1, <1>5, <1>8, <1>14, <3>1
      <4> QED BY <2>2, <3>1, <4>1 DEF StatInv, RefreshSound
    <3> QED BY <1>5, <3>1
  <2>5. refresh'.done \in BOOLEAN
    BY <2>1, <2>2
  <2>6. refresh'.done => \A i \in DOMAIN logged' : logged'[i].time < lastIngest' => Indexed(i)'
    BY <1>5, <2>3
  <2> QED BY <2>2, <2>4, <2>5, <2>6 DEF RefreshSound
<1>16. ReaderTyped(e)'
  <2>1. ~last => d.file + 1 \in DOMAIN RepoOrder
    <3>1. ~(at + 1 > fs) => at + 1 \in 1 .. fs
      BY <1>20, <1>21
    <3> QED BY <1>7, <1>20, <1>21, <1>22, <3>1
  <2>2. \A k \in DOMAIN e.saw : FALSE
    BY <1>6, <1>8
  <2> QED BY <1>5, <1>6, <1>8, <2>1, <2>2 DEF ReaderTyped
<1>17. ReaderSound(e)'
  <2>1. ASSUME ~last PROVE ReaderSound(e)'
    <3>1. e.st = "refresh" /\ e.file = d.file + 1 /\ e.asked = d.asked
      BY <1>8, <2>1
    <3> QED BY <1>5, <1>11, <3>1 DEF ReaderSound
  <2>2. ASSUME last PROVE ReaderSound(e)'
    <3>1. e.st = "read" /\ e.asked = d.asked /\ e.saw = <<>>
      BY <1>6, <1>8, <2>2
    <3>2. ASSUME NEW i \in DOMAIN logged, logged[i].time + RefreshEvery <= d.asked PROVE Indexed(i)'
      <4>1. logged[i].time \in Nat /\ RefreshEvery \in Nat \ {0} /\ d.asked \in Nat
        <5>1. logged[i] \in Decisions
          BY <1>4, ElementOfSeq, LenProperties DEF LogTimes
        <5> QED BY <1>4, <5>1, DecisionTyped DEF GateStatsAssumption, ReaderStates
      <4>2. logged[i].time < d.asked
        <5>1. PICK t \in Nat, v \in Nat, a \in Nat : t = logged[i].time /\ v = RefreshEvery /\ a = d.asked
          BY <4>1
        <5>2. v # 0 /\ t + v <= a
          BY <3>2, <4>1, <5>1
        <5>3. t < a
          BY <5>2
        <5> QED BY <5>1, <5>3
      <4> QED BY <1>12, <2>2, <4>2
    <3> QED BY <1>5, <3>1, <3>2 DEF ReaderSound
  <2> QED BY <2>1, <2>2
<1>18. ASSUME NEW q \in Readers, q # r PROVE ReaderTyped(reader[q])' /\ ReaderSound(reader[q])'
  <2>1. PICK c : c = reader[q]
    OBVIOUS
  <2>2. ReaderTyped(c) /\ ReaderSound(c) /\ reader'[q] = c /\ c.saw \in Seq(Nat)
    BY <1>14, <1>18, <2>1 DEF StatInv, ReadersSound, ReaderStates
  <2>3. \A k \in DOMAIN c.saw : c.saw[k] \in 0 .. Len(decided)
    <3>1. PICK a \in Nat : a = Len(decided)
      BY <1>10
    <3>2. \A k \in DOMAIN c.saw : c.saw[k] \in Nat
      BY <2>2, ElementOfSeq, LenProperties
    <3>3. \A k \in DOMAIN c.saw : c.saw[k] <= a
      BY <2>2, <3>1 DEF ReaderTyped
    <3>4. \A x \in Nat : x <= a => x \in 0 .. a
      OBVIOUS
    <3> QED BY <3>1, <3>2, <3>3, <3>4
  <2>4. \A k \in DOMAIN c.saw : c.saw[k] <= Len(decided')
    <3>1. PICK a \in Nat, b \in Nat : a = Len(decided) /\ b = Len(decided') /\ a <= b
      BY <1>10
    <3>2. \A x \in 0 .. a : x <= b
      BY <3>1
    <3> QED BY <2>3, <3>1, <3>2
  <2>5. ReaderTyped(c)'
    BY <1>5, <2>2, <2>4 DEF ReaderTyped
  <2>6. c.saw # <<>> => c.saw[1] \in 0 .. Len(decided)
    <3>1. c.saw # <<>> => 1 \in DOMAIN c.saw
      BY <2>2, EmptySeq, LenProperties
    <3> QED BY <2>3, <3>1
  <2>7. ReaderSound(c)'
    BY <1>5, <1>10, <2>2, <2>6 DEF ReaderSound
  <2> QED BY <2>2, <2>5, <2>7
<1>19. ReadersSound'
  BY <1>14, <1>16, <1>17, <1>18 DEF ReadersSound
<1> QED BY <1>13, <1>15, <1>19 DEF StatInv

LEMMA IngestBreaksStep ==
    ASSUME GateStatsAssumption, StatInv, NEW r \in Readers, IngestBreaks(r) PROVE StatInv'
<1>1. PICK d : d = reader[r]
  OBVIOUS
<1>2. PICK e : e = IF d.report = "benchmark" THEN IdleReader ELSE [d EXCEPT !.st = "read", !.note = TRUE]
  OBVIOUS
<1>3. /\ d.st = "refresh" /\ reader' = [reader EXCEPT ![r] = e]
      /\ logged' = logged /\ decided' = decided /\ lastIngest' = lastIngest /\ refresh' = refresh
      /\ statClock' = statClock
  BY <1>1, <1>2 DEF IngestBreaks
<1>4. d \in ReaderStates /\ ReaderTyped(d) /\ statClock \in Nat /\ lastIngest \in 0 .. statClock
  BY <1>1 DEF StatInv, ReadersSound, LogTimes
<1>5. ReaderTyped(e) /\ ReaderSound(e) /\ e.st # "refresh"
  <2>1. CASE d.report = "benchmark"
    BY <1>2, <1>4, <2>1, IdleReaderTyped
  <2>2. CASE d.report # "benchmark"
    <3>1. /\ e \in ReaderStates /\ e.st = "read" /\ e.note = TRUE /\ e.report = d.report
          /\ e.asked = d.asked /\ e.saw = d.saw
      BY <1>2, <1>4, <2>2 DEF ReaderStates
    <3> QED BY <1>3, <1>4, <3>1 DEF ReaderTyped, ReaderSound
  <2> QED BY <2>1, <2>2
<1> QED BY <1>3, <1>4, <1>5, OneAnswers, RefreshStays

LEMMA RunStatementStep ==
    ASSUME GateStatsAssumption, StatInv, NEW r \in Readers, RunStatement(r) PROVE StatInv'
<1>1. PICK d : d = reader[r]
  OBVIOUS
<1>2. PICK e : e = [d EXCEPT !.saw = Append(d.saw, Len(decided))]
  OBVIOUS
<1>3. d \in ReaderStates /\ ReaderTyped(d) /\ ReaderSound(d) /\ statClock \in Nat /\ lastIngest \in 0 .. statClock
  BY <1>1 DEF StatInv, ReadersSound, LogTimes
<1>4. /\ d.st = "read" /\ reader' = [reader EXCEPT ![r] = e]
      /\ logged' = logged /\ decided' = decided /\ lastIngest' = lastIngest /\ refresh' = refresh
      /\ statClock' = statClock
  <2>1. reader' = [reader EXCEPT ![r].saw = Append(d.saw, Len(decided))]
    BY <1>1 DEF RunStatement
  <2>2. reader' = [reader EXCEPT ![r] = e]
    BY <1>1, <1>2, <2>1 DEF StatInv, ReadersSound
  <2> QED BY <1>1, <2>2 DEF RunStatement
<1>5. Len(decided) \in Nat /\ d.saw \in Seq(Nat)
  BY <1>3, LenProperties DEF StatInv, LogTimes, ReaderStates
<1>11. PICK total \in Nat : total = Len(decided)
  BY <1>5
<1>6. PICK longer \in Seq(Nat) : longer = Append(d.saw, Len(decided))
  <2>1. Append(d.saw, total) \in Seq(Nat)
    BY <1>5, <1>11
  <2> QED BY <1>11, <2>1
<1>7. /\ e \in ReaderStates /\ e.st = "read" /\ e.saw = longer /\ e.note = d.note /\ e.excused = d.excused
      /\ e.report = d.report /\ e.asked = d.asked
  BY <1>2, <1>3, <1>4, <1>6 DEF ReaderStates
<1>8. /\ \A k \in DOMAIN longer : longer[k] = Len(decided) \/ (k \in DOMAIN d.saw /\ longer[k] = d.saw[k])
      /\ longer[1] = Len(decided) \/ (d.saw # <<>> /\ longer[1] = d.saw[1])
  <2>1. PICK n \in Nat : n = Len(d.saw)
    BY <1>5, LenProperties
  <2>2. /\ DOMAIN longer = 1 .. n + 1 /\ DOMAIN d.saw = 1 .. n /\ longer[n + 1] = Len(decided)
        /\ \A k \in 1 .. n : longer[k] = d.saw[k]
    BY <1>5, <1>6, <2>1
  <2>3. \A k \in 1 .. n + 1 : k = n + 1 \/ k \in 1 .. n
    OBVIOUS
  <2>4. n = 0 \/ (1 \in 1 .. n /\ d.saw # <<>>)
    BY <1>5, <2>1, EmptySeq
  <2>5. \A k \in DOMAIN longer : longer[k] = Len(decided) \/ (k \in DOMAIN d.saw /\ longer[k] = d.saw[k])
    BY <2>2, <2>3
  <2>6. CASE n = 0
    BY <2>2, <2>6
  <2>7. CASE 1 \in 1 .. n /\ d.saw # <<>>
    <3>1. longer[1] = d.saw[1]
      BY <2>2, <2>7
    <3> QED BY <2>5, <2>7, <3>1
  <2> QED BY <2>4, <2>5, <2>6, <2>7
<1>9. ReaderTyped(e)
  <2>1. \A k \in DOMAIN longer : longer[k] <= Len(decided)
    <3>1. total <= total
      OBVIOUS
    <3> QED BY <1>3, <1>8, <1>11, <3>1 DEF ReaderTyped
  <2> QED BY <1>3, <1>4, <1>7, <2>1 DEF ReaderTyped
<1>10. ReaderSound(e)
  BY <1>3, <1>4, <1>7, <1>8 DEF ReaderSound, Indexed
<1> QED BY <1>3, <1>4, <1>7, <1>9, <1>10, OneAnswers, RefreshStays

LEMMA CloseAnswerStep ==
    ASSUME GateStatsAssumption, StatInv, NEW r \in Readers, CloseAnswer(r) PROVE StatInv'
<1>1. /\ reader' = [reader EXCEPT ![r] = IdleReader]
      /\ logged' = logged /\ decided' = decided /\ lastIngest' = lastIngest /\ refresh' = refresh
      /\ statClock' = statClock
  BY DEF CloseAnswer
<1>2. statClock \in Nat /\ lastIngest \in 0 .. statClock
  BY DEF StatInv, LogTimes
<1>3. ReaderTyped(IdleReader) /\ ReaderSound(IdleReader) /\ IdleReader.st # "refresh"
  BY <1>2, IdleReaderTyped
<1>4. PICK e : e = IdleReader
  OBVIOUS
<1> QED BY <1>1, <1>2, <1>3, <1>4, OneAnswers, RefreshStays

LEMMA StatRestartStep == ASSUME GateStatsAssumption, StatInv, StatRestart PROVE StatInv'
<1>1. /\ lastIngest' = 0 /\ refresh' = [by |-> "none", done |-> TRUE]
      /\ reader' = [r \in Readers |-> IF reader[r].report = "benchmark" THEN reader[r] ELSE IdleReader]
      /\ logged' = logged /\ decided' = decided /\ statClock' = statClock
  BY DEF StatRestart
<1>2. statClock \in Nat /\ \A i \in DOMAIN logged : logged[i].time \in Nat
  <2>1. \A i \in DOMAIN logged : logged[i] \in Decisions
    BY ElementOfSeq, LenProperties DEF StatInv, LogTimes
  <2> QED BY <2>1, DecisionTyped DEF StatInv, LogTimes
<1>3. \A r \in Readers : reader'[r] = reader[r] \/ reader'[r] = IdleReader
  BY <1>1
<1>4. \A r \in Readers : ReaderTyped(reader'[r]) /\ ReaderSound(reader'[r]) /\ reader'[r] \in ReaderStates
  BY <1>2, <1>3, IdleReaderTyped DEF StatInv, ReadersSound
<1>5. \A r \in Readers : ReaderTyped(reader[r])' /\ ReaderSound(reader[r])'
  BY <1>1, <1>4 DEF ReaderTyped, ReaderSound, Indexed, RowFor
<1>6. ReadersSound'
  BY <1>1, <1>4, <1>5 DEF ReadersSound
<1>7. LogTimes'
  BY <1>1, <1>2 DEF StatInv, LogTimes
<1>8. RefreshSound'
  <2>1. \A i \in DOMAIN logged : ~(logged[i].time < 0)
    BY <1>2
  <2>2. \A r \in Readers : 0 <= reader'[r].asked
    BY <1>4 DEF ReaderStates
  <2>3. refresh' = [by |-> refresh'.by, done |-> refresh'.done] /\ refresh'.done \in BOOLEAN
    BY <1>1
  <2> QED BY <1>1, <2>1, <2>2, <2>3 DEF RefreshSound
<1> QED BY <1>6, <1>7, <1>8 DEF StatInv

LEMMA StatTickStep == ASSUME GateStatsAssumption, StatInv, StatTick PROVE StatInv'
<1>1. /\ statClock' = statClock + 1 /\ logged' = logged /\ decided' = decided /\ lastIngest' = lastIngest
      /\ refresh' = refresh /\ reader' = reader
  BY DEF StatTick
<1>2. statClock \in Nat /\ \A i \in DOMAIN logged : logged[i].time \in Nat
  <2>1. \A i \in DOMAIN logged : logged[i] \in Decisions
    BY ElementOfSeq, LenProperties DEF StatInv, LogTimes
  <2> QED BY <2>1, DecisionTyped DEF StatInv, LogTimes
<1>3. \A x \in Nat : x <= statClock => x <= statClock'
  BY <1>1, <1>2
<1>4. LogTimes'
  BY <1>1, <1>2, <1>3 DEF StatInv, LogTimes
<1>5. RefreshSound'
  BY <1>1 DEF StatInv, RefreshSound, Indexed, RowFor
<1>6. \A r \in Readers : ReaderTyped(reader[r])' /\ ReaderSound(reader[r])'
  <2>1. \A r \in Readers : reader[r].asked \in Nat
    BY DEF StatInv, ReadersSound, ReaderStates
  <2> QED BY <1>1, <1>3, <2>1 DEF StatInv, ReadersSound, ReaderTyped, ReaderSound, Indexed, RowFor
<1> QED BY <1>1, <1>4, <1>5, <1>6 DEF StatInv, ReadersSound

LEMMA StatStep == ASSUME GateStatsAssumption, StatInv, [StatNext]_statVars PROVE StatInv'
<1>1. ASSUME NEW p \in PushKinds, LogDecision(p) PROVE StatInv'
  BY <1>1, LogDecisionStep
<1>2. ASSUME NEW r \in Readers, NEW report \in DOMAIN Statements, Ask(r, report) PROVE StatInv'
  BY <1>2, AskStep
<1>3. ASSUME NEW r \in Readers, IngestLog(r) \/ IngestBreaks(r) \/ RunStatement(r) \/ CloseAnswer(r)
      PROVE  StatInv'
  BY <1>3, IngestLogStep, IngestBreaksStep, RunStatementStep, CloseAnswerStep
<1>4. CASE StatRestart \/ StatTick
  BY <1>4, StatRestartStep, StatTickStep
<1>5. CASE UNCHANGED statVars
  <2>1. /\ statClock' = statClock /\ logged' = logged /\ decided' = decided /\ lastIngest' = lastIngest
        /\ refresh' = refresh /\ reader' = reader
    BY <1>5 DEF statVars
  <2>2. LogTimes' /\ RefreshSound'
    BY <2>1 DEF StatInv, LogTimes, RefreshSound, Indexed, RowFor
  <2>3. ReadersSound'
    BY <2>1 DEF StatInv, ReadersSound, ReaderTyped, ReaderSound, Indexed, RowFor
  <2> QED BY <2>2, <2>3 DEF StatInv
<1> QED BY <1>1, <1>2, <1>3, <1>4, <1>5 DEF StatNext

LEMMA StatInvariant == StatSpec => []StatInv
<1>1. StatInit => StatInv
  BY StatStarts, GateStatsAssumption
<1>2. StatInv /\ [StatNext]_statVars => StatInv'
  BY StatStep, GateStatsAssumption
<1> QED BY <1>1, <1>2, PTL DEF StatSpec

\* The index is of the logs, and the requests have their types.
THEOREM StatTypeCorrect == StatSpec => []GateStatsTypeOK
<1>1. StatInv => GateStatsTypeOK
  <2> SUFFICES ASSUME StatInv PROVE GateStatsTypeOK
    OBVIOUS
  <2>1. Range(decided) \subseteq DOMAIN logged
    BY ElementOfSeq, LenProperties DEF StatInv, LogTimes, Range
  <2>2. ASSUME NEW r \in Readers
        PROVE  /\ reader[r].st \in {"idle", "refresh", "read"} /\ reader[r].file \in 0 .. Len(RepoOrder) + 1
               /\ Range(reader[r].saw) \subseteq 0 .. Len(decided)
    <3>1. reader[r] \in ReaderStates /\ ReaderTyped(reader[r])
      BY DEF StatInv, ReadersSound
    <3>2. reader[r].saw \in Seq(Nat) /\ Len(decided) \in Nat
      BY <3>1, LenProperties DEF ReaderStates, StatInv, LogTimes
    <3>3. \A k \in DOMAIN reader[r].saw : reader[r].saw[k] \in 0 .. Len(decided)
      BY <3>1, <3>2, ElementOfSeq, LenProperties DEF ReaderTyped
    <3> QED BY <3>1, <3>3 DEF ReaderStates, Range
  <2> QED BY <2>1, <2>2 DEF StatInv, LogTimes, GateStatsTypeOK
<1> QED BY <1>1, StatInvariant, PTL

\* An answer that says nothing of its refresh has every decision a whole interval older than
\* the question (internal/gateway/agentapi/service.go), whoever refreshed the index for it.
THEOREM NotStaleCorrect == StatSpec => []NotStale
<1>1. StatInv => NotStale
  <2> SUFFICES ASSUME StatInv, NEW r \in Readers, Answered(r), ~reader[r].note, ~reader[r].excused,
                      NEW i \in DOMAIN logged, logged[i].time + RefreshEvery <= reader[r].asked
               PROVE  \E k \in 1 .. Head(reader[r].saw) : decided[k] = i
    BY DEF NotStale
  <2>1. reader[r] \in ReaderStates /\ ReaderTyped(reader[r]) /\ ReaderSound(reader[r])
    BY DEF StatInv, ReadersSound
  <2>2. /\ reader[r].st = "read" /\ Len(reader[r].saw) = Len(Statements[reader[r].report])
        /\ reader[r].report \in DOMAIN Statements
    BY <2>1 DEF Answered, ReaderTyped
  <2>3. Len(Statements[reader[r].report]) # 0
    BY <2>2 DEF Statements
  <2>4. reader[r].saw \in Seq(Nat) /\ reader[r].saw # <<>>
    BY <2>1, <2>2, <2>3, EmptySeq DEF ReaderStates
  <2>5. Head(reader[r].saw) = reader[r].saw[1]
    BY <2>4, HeadTailProperties
  <2> QED BY <2>1, <2>2, <2>4, <2>5 DEF ReaderSound, RowFor
<1> QED BY <1>1, StatInvariant, PTL

-----------------------------------------------------------------------------
(* The reports that are made of the same rows: what their sums, lists and counts add up to.*)

LEMMA SmallestIs ==
    ASSUME NEW S \in SUBSET Nat, S # {}
    PROVE  Min(S) \in S /\ \A y \in S : Min(S) <= y
<1> DEFINE Before == {ss \in Nat \X Nat : ss[1] < ss[2]}
<1>1. IsWellFoundedOn(Before, Nat)
  BY NatLessThanWellFounded DEF OpToRel
<1>2. PICK x \in S : \A y \in S : <<y, x>> \notin Before
  <2> HIDE DEF Before
  <2> QED BY <1>1, WFMin
<1>3. \A y \in S : x <= y
  <2> TAKE y \in S
  <2>1. ~(y < x) /\ x \in Nat /\ y \in Nat
    BY <1>2
  <2> QED BY <2>1
<1> QED BY <1>2, <1>3, Zenon DEF Min

\* An element that a sum takes first.
FirstOf(s) == CHOOSE x \in s : TRUE

\* g has the sum of f over each subset of S with at most n elements.
SumsUpTo(f, S, n, g) ==
    \A s \in SUBSET S : Cardinality(s) <= n =>
        g[s] = IF s = {} THEN 0 ELSE f[FirstOf(s)] + g[s \ {FirstOf(s)}]

SumsOf(f, S, g) ==
    \A s \in SUBSET S : g[s] = IF s = {} THEN 0 ELSE f[FirstOf(s)] + g[s \ {FirstOf(s)}]

LEMMA WithoutFirst ==
    ASSUME NEW s, IsFiniteSet(s), s # {}
    PROVE  /\ FirstOf(s) \in s /\ IsFiniteSet(s \ {FirstOf(s)})
           /\ Cardinality(s) \in Nat \ {0} /\ Cardinality(s \ {FirstOf(s)}) = Cardinality(s) - 1
<1>1. PICK x : x = FirstOf(s)
  OBVIOUS
<1>2. x \in s
  BY <1>1 DEF FirstOf
<1>3. IsFiniteSet(s \ {x}) /\ Cardinality(s \ {x}) = Cardinality(s) - 1
  BY <1>2, FS_RemoveElement
<1>4. Cardinality(s) \in Nat \ {0}
  BY FS_CardinalityType, FS_EmptySet
<1> QED BY <1>1, <1>2, <1>3, <1>4

LEMMA SumsGrow ==
    ASSUME NEW f, NEW S, IsFiniteSet(S), NEW n \in Nat, NEW g, SumsUpTo(f, S, n, g)
    PROVE  \E h : SumsUpTo(f, S, n + 1, h)
<1> DEFINE sum(s) == IF s = {} THEN 0 ELSE f[FirstOf(s)] + g[s \ {FirstOf(s)}]
           h == [s \in SUBSET S |-> sum(s)]
<1>1. \A s \in SUBSET S : h[s] = sum(s)
  OBVIOUS
<1>2. \A s \in SUBSET S : Cardinality(s) <= n => h[s] = g[s]
  BY <1>1 DEF SumsUpTo
<1> HIDE DEF h
<1>3. ASSUME NEW s \in SUBSET S, Cardinality(s) <= n + 1, s # {}
      PROVE  h[s] = f[FirstOf(s)] + h[s \ {FirstOf(s)}]
  <2>1. IsFiniteSet(s)
    BY FS_Subset
  <2>2. PICK t \in SUBSET S : t = s \ {FirstOf(s)}
    BY <1>3
  <2>3. PICK c \in Nat : c = Cardinality(s)
    BY <2>1, FS_CardinalityType
  <2>4. Cardinality(t) = c - 1 /\ c <= n + 1
    BY <1>3, <2>1, <2>2, <2>3, WithoutFirst
  <2>5. Cardinality(t) <= n
    BY <2>4
  <2>6. h[t] = g[t]
    BY <1>2, <2>5
  <2>7. h[s] = f[FirstOf(s)] + g[s \ {FirstOf(s)}]
    BY <1>1, <1>3
  <2> QED BY <2>2, <2>6, <2>7
<1>4. \A s \in SUBSET S : s = {} => h[s] = 0
  BY <1>1
<1>5. SumsUpTo(f, S, n + 1, h)
  BY <1>3, <1>4 DEF SumsUpTo
<1> QED BY <1>5

LEMMA SumsExist ==
    ASSUME NEW f, NEW S, IsFiniteSet(S), NEW n \in Nat
    PROVE  \E g : SumsUpTo(f, S, n, g)
<1> DEFINE N == {k \in Nat : \E g : SumsUpTo(f, S, k, g)}
<1>1. 0 \in N
  <2> DEFINE g == [s \in SUBSET S |-> 0]
  <2>1. ASSUME NEW s \in SUBSET S, Cardinality(s) <= 0 PROVE s = {} /\ g[s] = 0
    <3>1. IsFiniteSet(s)
      BY FS_Subset
    <3>2. Cardinality(s) \in Nat
      BY <3>1, FS_CardinalityType
    <3>3. Cardinality(s) = 0
      BY <2>1, <3>2
    <3> QED BY <3>1, <3>3, FS_EmptySet
  <2> HIDE DEF g
  <2>2. SumsUpTo(f, S, 0, g)
    BY <2>1 DEF SumsUpTo
  <2> QED BY <2>2
<1>2. ASSUME NEW k \in N PROVE k + 1 \in N
  BY SumsGrow
<1>3. N \in SUBSET Nat
  OBVIOUS
<1> HIDE DEF N
<1>4. N = Nat
  BY <1>1, <1>2, <1>3, CountingUp
<1> QED BY <1>4 DEF N

\* A sum is the first element and the sum of the others.
LEMMA SumUnfolds ==
    ASSUME NEW f, NEW S, IsFiniteSet(S)
    PROVE  \E g : SumOf(f, S) = g[S] /\ SumsOf(f, S, g)
<1> DEFINE Sums(g) == g = [s \in SUBSET S |-> IF s = {} THEN 0 ELSE f[FirstOf(s)] + g[s \ {FirstOf(s)}]]
<1>1. PICK n \in Nat : n = Cardinality(S)
  BY FS_CardinalityType
<1>2. PICK h : SumsUpTo(f, S, n, h)
  BY SumsExist
<1>3. \A s \in SUBSET S : h[s] = IF s = {} THEN 0 ELSE f[FirstOf(s)] + h[s \ {FirstOf(s)}]
  BY <1>1, <1>2, FS_Subset DEF SumsUpTo
<1>4. \E g : Sums(g)
  <2> DEFINE g == [s \in SUBSET S |-> h[s]]
  <2>1. \A s \in SUBSET S : g[s] = h[s] /\ g[s \ {FirstOf(s)}] = h[s \ {FirstOf(s)}]
    OBVIOUS
  <2>2. g = [s \in SUBSET S |-> g[s]]
    OBVIOUS
  <2> HIDE DEF g
  <2>3. g = [s \in SUBSET S |-> IF s = {} THEN 0 ELSE f[FirstOf(s)] + g[s \ {FirstOf(s)}]]
    BY <1>3, <2>1, <2>2
  <2> QED BY <2>3
<1> DEFINE c == CHOOSE g : Sums(g)
<1>5. Sums(c)
  BY <1>4, Zenon
<1>6. SumOf(f, S) = c[S]
  BY Zenon DEF SumOf, FoldFunctionOnSet, MapThenFoldSet, FirstOf
<1> HIDE DEF c
<1>7. \A s \in SUBSET S : c[s] = IF s = {} THEN 0 ELSE f[FirstOf(s)] + c[s \ {FirstOf(s)}]
  BY <1>5, Zenon
<1> QED BY <1>6, <1>7 DEF SumsOf

\* Those of O that k maps to x, and to an element of X.
GroupOf(O, k, x) == {o \in O : k[o] = x}
GroupsIn(O, k, X) == {o \in O : k[o] \in X}

\* Groups that are disjoint add up.
LEMMA GroupsAddUp ==
    ASSUME NEW O, IsFiniteSet(O), NEW k, NEW X, IsFiniteSet(X), NEW c,
           \A x \in X : c[x] = Cardinality(GroupOf(O, k, x))
    PROVE  SumOf(c, X) = Cardinality(GroupsIn(O, k, X))
<1>1. PICK g : SumOf(c, X) = g[X] /\ SumsOf(c, X, g)
  BY SumUnfolds
<1> DEFINE In(s) == GroupsIn(O, k, s)
           N == {n \in Nat : \A s \in SUBSET X : Cardinality(s) = n => g[s] = Cardinality(In(s))}
<1>2. 0 \in N
  <2>1. ASSUME NEW s \in SUBSET X, Cardinality(s) = 0 PROVE g[s] = Cardinality(In(s))
    <3>1. IsFiniteSet(s)
      BY FS_Subset
    <3>2. s = {}
      BY <2>1, <3>1, FS_EmptySet
    <3>3. In(s) = {}
      BY <3>2 DEF GroupsIn
    <3>4. g[s] = 0
      BY <1>1, <3>2 DEF SumsOf
    <3> QED BY <3>3, <3>4, FS_EmptySet
  <2> QED BY <2>1
<1>3. ASSUME NEW n \in N PROVE n + 1 \in N
  <2>1. ASSUME NEW s \in SUBSET X, Cardinality(s) = n + 1 PROVE g[s] = Cardinality(In(s))
    <3>1. IsFiniteSet(s) /\ n \in Nat
      BY FS_Subset
    <3>2. s # {}
      BY <2>1, <3>1, FS_EmptySet
    <3>3. PICK x : x = FirstOf(s)
      OBVIOUS
    <3>4. PICK t \in SUBSET X : t = s \ {x}
      OBVIOUS
    <3>5. x \in s /\ x \in X /\ Cardinality(t) = n
      <4>1. x \in s /\ Cardinality(t) = Cardinality(s) - 1
        BY <3>1, <3>2, <3>3, <3>4, WithoutFirst
      <4>2. (n + 1) - 1 = n
        BY <3>1
      <4> QED BY <2>1, <4>1, <4>2
    <3>6. g[t] = Cardinality(In(t))
      BY <1>3, <3>5
    <3>7. g[s] = c[x] + g[t]
      BY <1>1, <3>2, <3>3, <3>4 DEF SumsOf
    <3>8. PICK A, B : A = GroupOf(O, k, x) /\ B = In(t)
      OBVIOUS
    <3>9. IsFiniteSet(A) /\ IsFiniteSet(B)
      <4>1. A \in SUBSET O /\ B \in SUBSET O
        BY <3>8 DEF GroupOf, GroupsIn
      <4> QED BY <4>1, FS_Subset
    <3>10. A \cap B = {} /\ In(s) = A \cup B
      BY <3>4, <3>5, <3>8 DEF GroupOf, GroupsIn
    <3>11. PICK a \in Nat, b \in Nat : a = Cardinality(A) /\ b = Cardinality(B)
      BY <3>9, FS_CardinalityType
    <3>12. Cardinality(A \cup B) = a + b - Cardinality(A \cap B)
      BY <3>9, <3>11, FS_Union
    <3>13. Cardinality(A \cup B) = a + b
      <4>1. Cardinality(A \cap B) = 0
        BY <3>10, FS_EmptySet
      <4>2. a + b - 0 = a + b
        BY <3>11
      <4> QED BY <3>12, <4>1, <4>2
    <3>14. g[s] = a + b
      BY <3>5, <3>6, <3>7, <3>8, <3>11
    <3> QED BY <3>10, <3>13, <3>14
  <2> HIDE DEF In
  <2> QED BY <2>1
<1>4. N \in SUBSET Nat
  OBVIOUS
<1> HIDE DEF N
<1>5. N = Nat
  BY <1>2, <1>3, <1>4, CountingUp
<1>6. PICK n \in Nat : n = Cardinality(X)
  BY FS_CardinalityType
<1>7. g[X] = Cardinality(In(X))
  BY <1>5, <1>6 DEF N
<1> QED BY <1>1, <1>7

\* A part of a finite set, and what a function makes of one.
LEMMA PartCounts ==
    ASSUME NEW S, IsFiniteSet(S), NEW T, T \subseteq S
    PROVE  /\ IsFiniteSet(T) /\ Cardinality(T) \in Nat /\ Cardinality(S) \in Nat
           /\ Cardinality(T) <= Cardinality(S)
BY FS_Subset, FS_CardinalityType

LEMMA ImageCounts ==
    ASSUME NEW S, IsFiniteSet(S), NEW f, NEW T, T = {f[x] : x \in S}
    PROVE  /\ IsFiniteSet(T) /\ Cardinality(T) \in Nat /\ Cardinality(S) \in Nat
           /\ Cardinality(T) <= Cardinality(S)
<1>1. PICK g : g = [x \in S |-> f[x]]
  OBVIOUS
<1>2. g \in Surjection(S, T)
  BY <1>1 DEF Surjection
<1> QED BY <1>2, FS_Surjection, FS_CardinalityType

LEMMA LargestIs ==
    ASSUME NEW n \in Nat, NEW S \in SUBSET (1 .. n), S # {}
    PROVE  /\ Max(S) \in S /\ \A y \in S : y <= Max(S)
           /\ \A x \in S : (\A y \in S : y <= x) => x = Max(S)
<1> DEFINE D == {n - x : x \in S}
<1>1. D \in SUBSET Nat /\ D # {}
  <2>1. \A x \in S : n - x \in Nat
    OBVIOUS
  <2> QED BY <2>1
<1>2. PICK d : d = Min(D)
  OBVIOUS
<1>3. d \in D /\ \A y \in D : d <= y
  BY <1>1, <1>2, SmallestIs
<1>4. PICK x \in S : d = n - x
  BY <1>3
<1>5. \A y \in S : x >= y
  <2> TAKE y \in S
  <2>1. n - x <= n - y /\ x \in Nat /\ y \in Nat
    BY <1>3, <1>4
  <2> QED BY <2>1
<1>6. \E z \in S : \A y \in S : z >= y
  BY <1>5
<1>7. Max(S) \in S /\ \A y \in S : Max(S) >= y
  <2>1. Max(S) = CHOOSE z \in S : \A y \in S : z >= y
    BY DEF Max
  <2> QED BY <1>6, <2>1, Zenon
<1>8. PICK m \in S : m = Max(S)
  BY <1>7
<1>9. \A y \in S : y <= m
  BY <1>7, <1>8
<1>10. ASSUME NEW z \in S, \A y \in S : y <= z PROVE z = m
  <2>1. z <= m /\ m <= z /\ z \in Nat /\ m \in Nat
    BY <1>9, <1>10
  <2> QED BY <2>1
<1> QED BY <1>8, <1>9, <1>10

\* The statements of one answer, each over at least the rows the one before it saw.
InOrder(e) == \A j \in DOMAIN e.saw : \A k \in DOMAIN e.saw : j <= k => e.saw[j] <= e.saw[k]

SawInOrder == \A r \in Readers : InOrder(reader[r])

LEMMA RowTyped ==
    ASSUME GateStatsAssumption, StatInv, NEW n \in Nat, n <= Len(decided), NEW i \in 1 .. n
    PROVE  Row(i).time \in Nat /\ Row(i).found \in Seq(Range(Row(i).found))
<1>1. i \in 1 .. Len(decided)
  <2>1. PICK d \in Nat : d = Len(decided)
    BY LenProperties DEF StatInv, LogTimes
  <2>2. i \in 1 .. d
    BY <2>1
  <2> QED BY <2>1, <2>2
<1>2. decided[i] \in DOMAIN logged
  BY <1>1, ElementOfSeq DEF StatInv, LogTimes
<1>3. Row(i) \in Decisions
  BY <1>2, ElementOfSeq, LenProperties DEF StatInv, LogTimes, Row
<1>4. PICK p \in PushKinds, t \in Nat : Row(i) = DecisionLine(p, t)
  BY <1>3 DEF Decisions
<1>5. DecisionLine(p, t).time = t /\ DecisionLine(p, t).found = p.found
  BY DEF DecisionLine
<1>6. p.found \in Seq(Range(p.found))
  BY GateStatsAssumption DEF GateStatsAssumption
<1> QED BY <1>4, <1>5, <1>6

LEMMA SelectedRows ==
    ASSUME NEW n \in Nat, NEW q
    PROVE  /\ Selected(n, q) \subseteq 1 .. n /\ IsFiniteSet(Selected(n, q))
           /\ \A m \in Nat : m <= n => Selected(m, q) \subseteq Selected(n, q)
<1>1. Selected(n, q) \subseteq 1 .. n
  BY DEF Selected
<1>2. IsFiniteSet(1 .. n)
  BY FS_Interval
<1>3. IsFiniteSet(Selected(n, q))
  BY <1>1, <1>2, FS_Subset
<1>4. ASSUME NEW m \in Nat, m <= n PROVE Selected(m, q) \subseteq Selected(n, q)
  <2>1. 1 .. m \subseteq 1 .. n
    BY <1>4
  <2> QED BY <2>1 DEF Selected
<1> QED BY <1>1, <1>3, <1>4

LEMMA JoinedFindings ==
    ASSUME GateStatsAssumption, StatInv, NEW n \in Nat, n <= Len(decided), NEW is, is \subseteq 1 .. n
    PROVE  /\ IsFiniteSet(Joined(is)) /\ \A o \in Joined(is) : o[1] \in is
           /\ \A js : js \subseteq is => Joined(js) \subseteq Joined(is)
           /\ \A js : js \subseteq is => \A o \in Joined(is) : o[1] \in js => o \in Joined(js)
<1> DEFINE cell(i) == {i} \X DOMAIN Row(i).found
<1>1. \A js : Joined(js) = UNION {cell(i) : i \in js}
  BY DEF Joined
<1>2. ASSUME NEW i \in is PROVE IsFiniteSet(cell(i))
  <2>1. Row(i).found \in Seq(Range(Row(i).found))
    BY RowTyped
  <2>2. PICK k \in Nat : DOMAIN Row(i).found = 1 .. k
    BY <2>1, LenProperties
  <2>3. IsFiniteSet(1 .. k)
    BY FS_Interval
  <2>5. IsFiniteSet({i})
    BY FS_Singleton, Zenon
  <2>4. IsFiniteSet({i} \X (1 .. k))
    BY <2>3, <2>5, FS_Product
  <2> QED BY <2>2, <2>4
<1>3. IsFiniteSet(is)
  <2>1. IsFiniteSet(1 .. n)
    <3>1. 1 \in Int /\ n \in Int
      OBVIOUS
    <3> QED BY <3>1, FS_Interval
  <2> QED BY <2>1, FS_Subset
<1>4. \A i, o : o \in cell(i) => o[1] = i
  OBVIOUS
<1> HIDE DEF cell
<1>5. IsFiniteSet(UNION {cell(i) : i \in is})
  <2>1. PICK f : f = [i \in is |-> cell(i)]
    OBVIOUS
  <2>2. PICK T : T = {f[i] : i \in is}
    OBVIOUS
  <2>3. T = {cell(i) : i \in is}
    BY <2>1, <2>2
  <2>4. IsFiniteSet(T)
    BY <1>3, <2>2, ImageCounts
  <2>5. \A t \in T : IsFiniteSet(t)
    BY <1>2, <2>3
  <2>6. IsFiniteSet(UNION T)
    BY <2>4, <2>5, FS_UNION
  <2> QED BY <2>3, <2>6
<1>6. \A o \in Joined(is) : o[1] \in is /\ o \in cell(o[1])
  BY <1>1, <1>4
<1>7. \A js, o : o[1] \in js /\ o \in cell(o[1]) => o \in Joined(js)
  BY <1>1
<1>8. \A js : js \subseteq is => Joined(js) \subseteq Joined(is)
  BY <1>1
<1>9. IsFiniteSet(Joined(is))
  BY <1>1, <1>5
<1> QED BY <1>6, <1>7, <1>8, <1>9

-----------------------------------------------------------------------------
\* The decisions of R that a list of L rows puts before i, by their times t.
NewerThan(R, t, i) == {j \in R : t[j] > t[i] \/ (t[j] = t[i] /\ j > i)}

\* A list that is not full is complete.
LEMMA ListComplete ==
    ASSUME NEW R, IsFiniteSet(R), R \subseteq Nat, NEW t \in [R -> Nat], NEW L \in Nat,
           NEW S, S = {i \in R : Cardinality(NewerThan(R, t, i)) < L}
    PROVE  Cardinality(S) >= L \/ S = R
<1> SUFFICES ASSUME S # R PROVE Cardinality(S) >= L
  OBVIOUS
<1>1. \A i \in R : IsFiniteSet(NewerThan(R, t, i)) /\ Cardinality(NewerThan(R, t, i)) \in Nat
  <2> TAKE i \in R
  <2>1. NewerThan(R, t, i) \subseteq R
    BY DEF NewerThan
  <2> QED BY <2>1, PartCounts
<1>2. PICK C : C = {Cardinality(NewerThan(R, t, i)) : i \in R \ S}
  OBVIOUS
<1>3. C \in SUBSET Nat /\ C # {}
  BY <1>1, <1>2
<1>4. PICK c \in C : \A y \in C : c <= y
  BY <1>3, SmallestIs
<1>5. PICK i \in R \ S : c = Cardinality(NewerThan(R, t, i))
  BY <1>2, <1>4
<1>6. PICK N : N = NewerThan(R, t, i)
  OBVIOUS
<1>7. c \in Nat /\ ~(c < L)
  BY <1>3, <1>5
<1>8. ASSUME NEW j \in N PROVE j \in S
  <2>1. j \in R /\ (t[j] > t[i] \/ (t[j] = t[i] /\ j > i))
    BY <1>6, <1>8 DEF NewerThan
  <2>2. PICK M : M = NewerThan(R, t, j)
    OBVIOUS
  <2>3. M \subseteq N \ {j}
    <3>1. ASSUME NEW k \in M PROVE k \in N \ {j}
      <4>1. k \in R /\ (t[k] > t[j] \/ (t[k] = t[j] /\ k > j))
        BY <2>2, <3>1 DEF NewerThan
      <4>2. t[k] \in Nat /\ t[j] \in Nat /\ t[i] \in Nat /\ k \in Nat /\ j \in Nat /\ i \in Nat
        BY <2>1, <4>1
      <4>3. k # j /\ (t[k] > t[i] \/ (t[k] = t[i] /\ k > i))
        BY <2>1, <4>1, <4>2
      <4> QED BY <1>6, <4>1, <4>3 DEF NewerThan
    <3> QED BY <3>1
  <2>4. IsFiniteSet(N \ {j}) /\ Cardinality(N \ {j}) = c - 1
    BY <1>1, <1>5, <1>6, <1>8, FS_RemoveElement
  <2>5. PICK m \in Nat : m = Cardinality(M)
    BY <1>1, <2>1, <2>2
  <2>6. m <= c - 1
    BY <2>3, <2>4, <2>5, FS_Subset
  <2>7. ~(c <= m)
    BY <1>7, <2>6
  <2> QED BY <1>2, <1>4, <2>1, <2>2, <2>5, <2>7
<1>9. N \subseteq S
  BY <1>8
<1>10. IsFiniteSet(S)
  <2>1. S \subseteq R
    OBVIOUS
  <2> QED BY <2>1, FS_Subset
<1>11. PICK s \in Nat : s = Cardinality(S)
  BY <1>10, FS_CardinalityType
<1>12. c <= s
  BY <1>5, <1>6, <1>9, <1>10, <1>11, PartCounts
<1>13. s >= L
  BY <1>7, <1>12
<1> QED BY <1>11, <1>13

LEMMA LimitHolds ==
    ASSUME GateStatsAssumption, NEW limit \in Nat
    PROVE  Clamp(limit, 0) \in Nat /\ Min({Clamp(limit, 0), RowCap}) = Clamp(limit, 0)
<1>1. DefaultRows \in Nat \ {0} /\ RowCap \in Nat \ {0} /\ DefaultRows <= RowCap
  BY DEF GateStatsAssumption
<1>2. ASSUME NEW a \in Nat, NEW b \in Nat
      PROVE  Min({a, b}) \in {a, b} /\ Min({a, b}) <= a /\ Min({a, b}) <= b
  <2>1. {a, b} \in SUBSET Nat /\ {a, b} # {}
    OBVIOUS
  <2> QED BY <2>1, SmallestIs
<1>3. Clamp(limit, 0) = IF limit = 0 THEN DefaultRows ELSE Min({limit, RowCap})
  <2>1. ~(0 > RowCap)
    BY <1>1
  <2> QED BY <2>1 DEF Clamp
<1>4. PICK c : c = Clamp(limit, 0)
  OBVIOUS
<1>5. c \in Nat /\ c <= RowCap
  BY <1>1, <1>2, <1>3, <1>4
<1>6. PICK x : x = Min({c, RowCap})
  OBVIOUS
<1>7. x \in {c, RowCap} /\ x <= c
  BY <1>1, <1>2, <1>5, <1>6
<1>8. x = c
  BY <1>1, <1>5, <1>7
<1> QED BY <1>4, <1>5, <1>6, <1>8

LEMMA ReceiptsComplete ==
    ASSUME GateStatsAssumption, StatInv, NEW n \in Nat, n <= Len(decided), NEW q, NEW limit \in Nat,
           NEW shown, shown = Receipts(n, q, "rejected", Clamp(limit, 0))
    PROVE  Capped(shown, Clamp(limit, 0)) \/ shown = Rejects(Selected(n, q))
<1>1. PICK L \in Nat : L = Clamp(limit, 0) /\ Min({L, RowCap}) = L
  BY LimitHolds
<1>2. PICK R : R = Rejects(Selected(n, q))
  OBVIOUS
<1>3. R \subseteq 1 .. n /\ R \subseteq Nat /\ IsFiniteSet(R)
  <2>1. R \subseteq Selected(n, q)
    BY <1>2 DEF Rejects
  <2> QED BY <2>1, SelectedRows, FS_Subset
<1>4. PICK t : t = [i \in R |-> Row(i).time]
  OBVIOUS
<1>5. t \in [R -> Nat]
  BY <1>3, <1>4, RowTyped
<1>6. shown = {i \in R : Cardinality(NewerThan(R, t, i)) < L}
  <2> DEFINE is == {i \in Selected(n, q) : \/ "rejected" = ""
                                           \/ "rejected" = "accepted" /\ Accepted(Row(i))
                                           \/ "rejected" = "rejected" /\ ~Accepted(Row(i))}
             newer(i) == {j \in is : \/ Row(j).time > Row(i).time
                                     \/ Row(j).time = Row(i).time /\ j > i}
  <2>1. is = R
    BY <1>2 DEF Rejects
  <2>2. shown = {i \in is : Cardinality(newer(i)) < L}
    BY <1>1 DEF Receipts
  <2> HIDE DEF is
  <2>3. \A i \in R : newer(i) = NewerThan(R, t, i)
    BY <1>4, <2>1 DEF NewerThan
  <2> HIDE DEF newer
  <2> QED BY <2>1, <2>2, <2>3
<1>7. Cardinality(shown) >= L \/ shown = R
  BY <1>3, <1>5, <1>6, ListComplete
<1> QED BY <1>1, <1>2, <1>7 DEF Capped

LEMMA TotalsHold ==
    ASSUME GateStatsAssumption, StatInv, NEW m \in Nat, NEW n \in Nat, m <= n, n <= Len(decided), NEW q
    PROVE  TotalsAgree(m, n, q)
<1>1. PICK M, N : M = Selected(m, q) /\ N = Selected(n, q)
  OBVIOUS
<1>2. M \subseteq N /\ IsFiniteSet(N) /\ IsFiniteSet(M)
  BY <1>1, SelectedRows
<1>3. PICK per : per = PerRepo(n, q)
  OBVIOUS
<1>4. PICK key : key = [i \in N |-> Row(i).repo]
  OBVIOUS
<1>5. /\ DOMAIN per = {key[i] : i \in N}
      /\ \A x \in DOMAIN per : /\ per[x].decisions = Cardinality({i \in N : key[i] = x})
                               /\ per[x].rejects = Cardinality({i \in Rejects(N) : key[i] = x})
  <2>1. PICK X : X = {Row(i).repo : i \in N}
    OBVIOUS
  <2>2. per = [x \in X |-> [decisions |-> Cardinality({i \in N : Row(i).repo = x}),
                            rejects   |-> Cardinality(Rejects({i \in N : Row(i).repo = x}))]]
    BY <1>1, <1>3, <2>1 DEF PerRepo
  <2>3. X = {key[i] : i \in N}
    BY <1>4, <2>1
  <2>4. ASSUME NEW x \in X
        PROVE  /\ per[x].decisions = Cardinality({i \in N : key[i] = x})
               /\ per[x].rejects = Cardinality({i \in Rejects(N) : key[i] = x})
    <3>1. {i \in N : Row(i).repo = x} = {i \in N : key[i] = x}
      BY <1>4
    <3>2. Rejects({i \in N : key[i] = x}) = {i \in Rejects(N) : key[i] = x}
      BY DEF Rejects
    <3> QED BY <2>2, <2>4, <3>1, <3>2
  <2> QED BY <2>2, <2>3, <2>4
<1>6. IsFiniteSet(DOMAIN per) /\ Rejects(N) \subseteq N /\ IsFiniteSet(Rejects(N))
  <2>1. IsFiniteSet(DOMAIN per)
    BY <1>2, <1>5, ImageCounts
  <2>2. Rejects(N) \subseteq N
    BY DEF Rejects
  <2> QED BY <1>2, <2>1, <2>2, FS_Subset
<1>7. PICK c, d : /\ c = [x \in DOMAIN per |-> per[x].decisions]
                  /\ d = [x \in DOMAIN per |-> per[x].rejects]
  OBVIOUS
<1>8. SumOf(c, DOMAIN per) = Cardinality(N)
  <2>1. GroupsIn(N, key, DOMAIN per) = N
    BY <1>5 DEF GroupsIn
  <2>2. \A x \in DOMAIN per : c[x] = Cardinality(GroupOf(N, key, x))
    BY <1>5, <1>7 DEF GroupOf
  <2>3. SumOf(c, DOMAIN per) = Cardinality(GroupsIn(N, key, DOMAIN per))
    BY <1>2, <1>6, <2>2, GroupsAddUp
  <2> QED BY <2>1, <2>3
<1>9. SumOf(d, DOMAIN per) = Cardinality(Rejects(N))
  <2>1. PICK O : O = Rejects(N)
    OBVIOUS
  <2>2. GroupsIn(O, key, DOMAIN per) = O
    BY <1>5, <1>6, <2>1 DEF GroupsIn
  <2>3. \A x \in DOMAIN per : d[x] = Cardinality(GroupOf(O, key, x))
    BY <1>5, <1>7, <2>1 DEF GroupOf
  <2>4. SumOf(d, DOMAIN per) = Cardinality(GroupsIn(O, key, DOMAIN per))
    BY <1>6, <2>1, <2>3, GroupsAddUp
  <2> QED BY <2>1, <2>2, <2>4
<1>10. PICK total : total = Totals(m, q)
  OBVIOUS
<1>11. /\ total.decisions = Cardinality(M) /\ total.rejects = Cardinality(Rejects(M))
       /\ total.accepts = Cardinality({i \in M : Accepted(Row(i))})
  BY <1>1, <1>10 DEF Totals
<1>12. total.accepts + total.rejects = total.decisions
  <2>1. PICK A, B : A = {i \in M : Accepted(Row(i))} /\ B = Rejects(M)
    OBVIOUS
  <2>2. A \cup B = M /\ A \cap B = {} /\ A \subseteq M /\ B \subseteq M
    BY <2>1 DEF Rejects
  <2>3. IsFiniteSet(A) /\ IsFiniteSet(B)
    BY <1>2, <2>2, FS_Subset
  <2>4. PICK a \in Nat, b \in Nat : a = Cardinality(A) /\ b = Cardinality(B)
    BY <2>3, FS_CardinalityType
  <2>5. Cardinality(A \cup B) = a + b - Cardinality(A \cap B)
    BY <2>3, <2>4, FS_Union
  <2>6. Cardinality(A \cap B) = 0
    BY <2>2, FS_EmptySet
  <2>8. a + b - 0 = a + b
    BY <2>4
  <2>7. Cardinality(M) = a + b
    BY <2>2, <2>5, <2>6, <2>8
  <2> QED BY <1>11, <2>1, <2>4, <2>7
<1>13. total.decisions <= Cardinality(N) /\ total.rejects <= Cardinality(Rejects(N))
  <2>1. Rejects(M) \subseteq Rejects(N)
    BY <1>2 DEF Rejects
  <2>2. Cardinality(M) <= Cardinality(N)
    BY <1>2, PartCounts
  <2>3. Cardinality(Rejects(M)) <= Cardinality(Rejects(N))
    BY <1>6, <2>1, PartCounts
  <2> QED BY <1>11, <2>2, <2>3
<1>14. m = n => total.decisions = Cardinality(N)
  BY <1>1, <1>11
<1>15. \A x \in DOMAIN BounceRate(n, q, MinPushes) : BounceRate(n, q, MinPushes)[x] = per[x]
  BY <1>3 DEF BounceRate
<1>16. ASSUME NEW limit \in 0 .. MaxPushes, NEW shown, shown = Receipts(n, q, "rejected", Clamp(limit, 0))
       PROVE  Capped(shown, Clamp(limit, 0)) \/ Cardinality(shown) = Cardinality(Rejects(N))
  <2>1. limit \in Nat
    BY <1>16 DEF GateStatsAssumption
  <2>2. Capped(shown, Clamp(limit, 0)) \/ shown = Rejects(N)
    BY <1>1, <1>16, <2>1, ReceiptsComplete
  <2> QED BY <2>2
<1> QED
  BY <1>3, <1>7, <1>8, <1>9, <1>10, <1>12, <1>13, <1>14, <1>15, <1>16 DEF TotalsAgree

\* The fingerprints of the findings O, those of O with one in X, and how often the reports say that those were seen.
Fingerprints(O) == {Fingerprint(Finding(o)) : o \in O}
Fingerprinted(O, X) == {o \in O : Fingerprint(Finding(o)) \in X}
SeenTimes(again, X) == SumOf([x \in X |-> again[x].seen], X)

\* What recurs among the first l rows: the findings, their fingerprints, and the sum of a part.
LEMMA RecurringSums ==
    ASSUME GateStatsAssumption, StatInv, NEW l \in Nat, l <= Len(decided), NEW q,
           NEW again, again = Recurring(l, q), NEW O, O = Joined(Selected(l, q))
    PROVE  /\ IsFiniteSet(O) /\ IsFiniteSet(DOMAIN again)
           /\ DOMAIN again = Fingerprints(O)
           /\ \A x \in DOMAIN again :
                 again[x].seen = Cardinality(Fingerprinted(O, {x}))
           /\ \A X : X \subseteq DOMAIN again => SeenTimes(again, X) = Cardinality(Fingerprinted(O, X))
<1>1. IsFiniteSet(O)
  BY SelectedRows, JoinedFindings
<1>2. PICK key : key = [o \in O |-> Fingerprint(Finding(o))]
  OBVIOUS
<1>3. PICK D : D = {Fingerprint(Finding(o)) : o \in O}
  OBVIOUS
<1>4. DOMAIN again = D /\ \A x \in D : again[x].seen = Cardinality({o \in O : Fingerprint(Finding(o)) = x})
  <2> DEFINE of(x) == {o \in O : Fingerprint(Finding(o)) = x}
             times(x) == {Row(o[1]).time : o \in of(x)}
             rows == [x \in D |-> [seen |-> Cardinality(of(x)), first |-> Min(times(x)), last |-> Max(times(x))]]
  <2>1. again = rows
    BY <1>3 DEF Recurring
  <2>2. DOMAIN rows = D /\ \A x \in D : rows[x].seen = Cardinality(of(x))
    OBVIOUS
  <2> HIDE DEF rows
  <2> QED BY <2>1, <2>2
<1>8. \A x \in D : again[x].seen = Cardinality(Fingerprinted(O, {x}))
  <2> TAKE x \in D
  <2>1. Fingerprinted(O, {x}) = {o \in O : Fingerprint(Finding(o)) = x}
    BY DEF Fingerprinted
  <2> QED BY <1>4, <2>1
<1>5. D = {key[o] : o \in O}
  BY <1>2, <1>3
<1>6. IsFiniteSet(D)
  BY <1>1, <1>5, ImageCounts
<1>7. ASSUME NEW X, X \subseteq D
      PROVE  SeenTimes(again, X) = Cardinality(Fingerprinted(O, X))
  <2>1. PICK c : c = [x \in X |-> again[x].seen]
    OBVIOUS
  <2>2. IsFiniteSet(X)
    BY <1>6, <1>7, FS_Subset
  <2>3. ASSUME NEW x \in X PROVE c[x] = Cardinality(GroupOf(O, key, x))
    <3>1. GroupOf(O, key, x) = {o \in O : Fingerprint(Finding(o)) = x}
      BY <1>2 DEF GroupOf
    <3>2. c[x] = again[x].seen /\ x \in D
      BY <1>7, <2>1
    <3> QED BY <1>4, <3>1, <3>2
  <2>4. SumOf(c, X) = Cardinality(GroupsIn(O, key, X))
    BY <1>1, <2>2, <2>3, GroupsAddUp
  <2>5. GroupsIn(O, key, X) = {o \in O : Fingerprint(Finding(o)) \in X}
    BY <1>2 DEF GroupsIn
  <2>6. SeenTimes(again, X) = SumOf(c, X)
    BY <2>1 DEF SeenTimes
  <2>7. Fingerprinted(O, X) = GroupsIn(O, key, X)
    BY <2>5 DEF Fingerprinted
  <2> QED BY <2>4, <2>6, <2>7
<1>9. DOMAIN again = D /\ D = Fingerprints(O)
  BY <1>3, <1>4 DEF Fingerprints
<1> QED BY <1>1, <1>3, <1>6, <1>7, <1>8, <1>9

LEMMA MoreFindings ==
    ASSUME GateStatsAssumption, StatInv, NEW m \in Nat, NEW l \in Nat, m <= l, l <= Len(decided), NEW q
    PROVE  Joined(Selected(m, q)) \subseteq Joined(Selected(l, q))
<1>1. Selected(m, q) \subseteq Selected(l, q) /\ Selected(l, q) \subseteq 1 .. l
  BY SelectedRows
<1> QED BY <1>1, JoinedFindings

LEMMA FindingsHold ==
    ASSUME GateStatsAssumption, StatInv, NEW m \in Nat, NEW n \in Nat, NEW l \in Nat, m <= n, n <= l,
           l <= Len(decided), NEW q
    PROVE  FindingsAgree(m, n, l, q)
<1>1. PICK again, O : again = Recurring(l, q) /\ O = Joined(Selected(l, q))
  OBVIOUS
<1>2. PICK D : D = DOMAIN again
  OBVIOUS
<1>3. /\ IsFiniteSet(O) /\ IsFiniteSet(D) /\ D = Fingerprints(O)
      /\ \A X : X \subseteq D => SeenTimes(again, X) = Cardinality(Fingerprinted(O, X))
  <2>1. /\ IsFiniteSet(O) /\ IsFiniteSet(DOMAIN again) /\ DOMAIN again = Fingerprints(O)
        /\ \A X : X \subseteq DOMAIN again => SeenTimes(again, X) = Cardinality(Fingerprinted(O, X))
    BY <1>1, RecurringSums
  <2> QED BY <1>2, <2>1
<1>4. PICK M, N : M = Joined(Selected(m, q)) /\ N = Joined(Selected(n, q))
  OBVIOUS
<1>5. M \subseteq O /\ N \subseteq O
  <2>1. m <= l
    OBVIOUS
  <2>2. n <= l /\ l <= Len(decided)
    OBVIOUS
  <2> QED BY <1>1, <1>4, <2>1, <2>2, MoreFindings
<1> DEFINE of(frame) == {x \in D : x[1] = frame}
<1>6. \A o : Fingerprint(Finding(o))[1] = Finding(o).frame
  BY DEF Fingerprint
<1>7. ASSUME NEW severity, NEW top, top = TopRules(m, q, severity), NEW g \in DOMAIN top
      PROVE  top[g] <= SumOf([x \in of(g[1]) |-> again[x].seen], of(g[1]))
  <2>1. PICK c : c = FrameCounts(m, q)
    OBVIOUS
  <2>2. g \in DOMAIN c /\ top[g] = c[g]
    <3>1. PICK t : t = TopFrames(m, q)
      OBVIOUS
    <3>2. DOMAIN t \subseteq DOMAIN c /\ \A h \in DOMAIN t : t[h] = c[h]
      BY <2>1, <3>1 DEF TopFrames
    <3>3. DOMAIN top \subseteq DOMAIN t /\ \A h \in DOMAIN top : top[h] = t[h]
      BY <1>7, <3>1 DEF TopRules
    <3> QED BY <3>2, <3>3
  <2>3. PICK A : A = {o \in M : <<Finding(o).frame, Finding(o).severity>> = g}
    OBVIOUS
  <2>4. c[g] = Cardinality(A)
    BY <1>4, <2>1, <2>2, <2>3 DEF FrameCounts
  <2>5. PICK X : X = of(g[1])
    OBVIOUS
  <2>6. PICK B : B = {o \in O : Fingerprint(Finding(o)) \in X}
    OBVIOUS
  <2>7. SumOf([x \in X |-> again[x].seen], X) = Cardinality(B)
    <3>1. X \subseteq D
      BY <2>5
    <3>2. SeenTimes(again, X) = Cardinality(Fingerprinted(O, X))
      BY <1>3, <3>1
    <3> QED BY <2>6, <3>2 DEF SeenTimes, Fingerprinted
  <2>8. A \subseteq B
    <3>1. ASSUME NEW o \in A PROVE o \in B
      <4>1. o \in O /\ <<Finding(o).frame, Finding(o).severity>> = g
        BY <1>5, <2>3, <3>1
      <4>2. g[1] = Finding(o).frame
        BY <4>1
      <4> QED BY <1>3, <1>6, <2>5, <2>6, <4>1, <4>2 DEF Fingerprints
    <3> QED BY <3>1
  <2>9. Cardinality(A) <= Cardinality(B)
    <3>1. B \subseteq O
      BY <2>6
    <3>2. IsFiniteSet(B)
      BY <1>3, <3>1, FS_Subset
    <3> QED BY <2>8, <3>2, PartCounts
  <2> QED BY <2>2, <2>4, <2>5, <2>7, <2>9
<1>8. ASSUME NEW saved, saved = TimeSaved(n, q), NEW frame \in DOMAIN saved
      PROVE  /\ saved[frame].rejected <= Cardinality(of(frame))
             /\ saved[frame].observed <= Cardinality(of(frame))
  <2> DEFINE os == {o \in N : Severe(Finding(o))}
             part(f, rejected) == {Fingerprint(Finding(o)) : o \in
                {o \in os : Finding(o).frame = f /\ Accepted(Row(o[1])) = ~rejected}}
  <2>1. /\ saved[frame].rejected = Cardinality(part(frame, TRUE))
        /\ saved[frame].observed = Cardinality(part(frame, FALSE))
    <3>1. PICK p : p = Prevented(n, q)
      OBVIOUS
    <3>2. PICK F : F = {Finding(o).frame : o \in os}
      OBVIOUS
    <3>3. p = [f \in F |-> [rejected |-> Cardinality(part(f, TRUE)), observed |-> Cardinality(part(f, FALSE))]]
      BY <1>4, <3>1, <3>2 DEF Prevented
    <3>4. frame \in DOMAIN p /\ saved[frame] = p[frame]
      BY <1>8, <3>1 DEF TimeSaved
    <3> HIDE DEF part, os
    <3>5. \A f \in F : /\ p[f].rejected = Cardinality(part(f, TRUE))
                       /\ p[f].observed = Cardinality(part(f, FALSE))
      BY <3>3
    <3>6. DOMAIN p = F
      BY <3>3
    <3> QED BY <3>4, <3>5, <3>6
  <2>2. ASSUME NEW rejected \in BOOLEAN PROVE Cardinality(part(frame, rejected)) <= Cardinality(of(frame))
    <3>1. PICK P : P = part(frame, rejected)
      OBVIOUS
    <3>2. \A x \in P : \E o \in N : x = Fingerprint(Finding(o)) /\ Finding(o).frame = frame
      BY <3>1
    <3>3. P \subseteq of(frame)
      BY <1>3, <1>5, <1>6, <3>2 DEF Fingerprints
    <3>4. IsFiniteSet(of(frame))
      <4>1. of(frame) \subseteq D
        OBVIOUS
      <4> QED BY <1>3, <4>1, FS_Subset
    <3> QED BY <3>1, <3>3, <3>4, PartCounts
  <2> HIDE DEF part
  <2> QED BY <2>1, <2>2
<1> QED BY <1>1, <1>2, <1>7, <1>8 DEF FindingsAgree

LEMMA VerdictsHold ==
    ASSUME NEW n \in Nat, NEW repo PROVE VerdictsAgree(n, repo)
<1> DEFINE own(x) == {k \in 1 .. n : Row(k).repo = x[1] /\ Row(k).tip = x[2]}
<1>1. ASSUME NEW r, NEW tip, NEW x, x = <<r, tip, VerdictRow(n, r, tip)>>
      PROVE  IF x[3] # 0 THEN x[3] = Max(own(x))
             ELSE own(x) = {} \/ \E k \in 1 .. n : k > Max(own(x)) /\ Row(k).tip = x[2]
  <2>1. x[1] = r /\ x[2] = tip /\ x[3] = VerdictRow(n, r, tip)
    BY <1>1
  <2>2. PICK P, A : P = {k \in 1 .. n : Row(k).repo = r /\ Row(k).tip = tip} /\ A = {k \in 1 .. n : Row(k).tip = tip}
    OBVIOUS
  <2>3. own(x) = P /\ P \subseteq A /\ P \in SUBSET (1 .. n) /\ A \in SUBSET (1 .. n)
    BY <2>1, <2>2
  <2>4. PICK t : t = TipRow(n, tip)
    OBVIOUS
  <2>5. t = IF A = {} THEN 0 ELSE Max(A)
    BY <2>2, <2>4 DEF TipRow
  <2>6. x[3] = IF t # 0 /\ Row(t).repo = r THEN t ELSE 0
    BY <2>1, <2>4 DEF VerdictRow
  <2> HIDE DEF own
  <2>7. CASE x[3] # 0
    <3>1. t # 0 /\ Row(t).repo = r /\ x[3] = t
      BY <2>6, <2>7
    <3>2. A # {} /\ t = Max(A)
      BY <2>5, <3>1
    <3>3. t \in A /\ \A y \in A : y <= t
      BY <2>3, <3>2, LargestIs
    <3>4. t \in P /\ \A y \in P : y <= t
      BY <2>2, <2>3, <3>1, <3>3
    <3>5. t = Max(P)
      BY <2>3, <3>4, LargestIs
    <3> QED BY <2>3, <2>7, <3>1, <3>5
  <2>8. CASE x[3] = 0 /\ P # {}
    <3>1. A # {} /\ t = Max(A)
      BY <2>3, <2>5, <2>8
    <3>2. t \in A /\ \A y \in A : y <= t
      BY <2>3, <3>1, LargestIs
    <3>3. PICK m : m = Max(P)
      OBVIOUS
    <3>4. m \in P
      BY <2>3, <2>8, <3>3, LargestIs
    <3>5. t # 0
      BY <2>3, <3>2
    <3>6. Row(t).repo # r
      BY <2>6, <2>8, <3>5
    <3>7. t # m /\ m <= t /\ t \in 1 .. n /\ m \in 1 .. n /\ Row(t).tip = tip
      BY <2>2, <2>3, <3>2, <3>4, <3>6
    <3>8. t > m
      BY <3>7
    <3> QED BY <2>1, <2>3, <2>8, <3>3, <3>7, <3>8
  <2> QED BY <2>3, <2>7, <2>8
<1> HIDE DEF own
<1>2. PICK R, T : R = (IF repo \in BareRepos THEN {repo} ELSE BareRepos) /\ T = {p.tip : p \in PushKinds}
  OBVIOUS
<1>3. PICK W : W = WhatChanged(n, repo, T)
  OBVIOUS
<1>4. W = {<<r, tip, VerdictRow(n, r, tip)>> : r \in R, tip \in T}
  BY <1>2, <1>3 DEF WhatChanged
<1>5. ASSUME NEW x \in W
      PROVE  IF x[3] # 0 THEN x[3] = Max(own(x))
             ELSE own(x) = {} \/ \E k \in 1 .. n : k > Max(own(x)) /\ Row(k).tip = x[2]
  <2>1. PICK r \in R, tip \in T : x = <<r, tip, VerdictRow(n, r, tip)>>
    BY <1>4, <1>5
  <2> QED BY <1>1, <2>1
<1> QED BY <1>2, <1>3, <1>5 DEF VerdictsAgree, own

LEMMA ScoresHold ==
    ASSUME GateStatsAssumption, StatInv, NEW n \in Nat, n <= Len(decided), NEW repo
    PROVE  ScoresAgree(n, repo)
<1>1. PICK q : q = [repo |-> repo, since |-> 0]
  OBVIOUS
<1>2. PICK again, W : again = Recurring(n, q) /\ W = Selected(n, q)
  OBVIOUS
<1>3. PICK O : O = Joined(W)
  OBVIOUS
<1>4. W \subseteq 1 .. n /\ IsFiniteSet(W) /\ (\A o \in O : o[1] \in W)
  BY <1>2, <1>3, SelectedRows, JoinedFindings
<1>5. PICK D : D = DOMAIN again
  OBVIOUS
<1>6. /\ IsFiniteSet(O) /\ IsFiniteSet(D) /\ D = Fingerprints(O)
      /\ \A x \in D : again[x].seen = Cardinality(Fingerprinted(O, {x}))
  <2>1. O = Joined(Selected(n, q))
    BY <1>2, <1>3
  <2>2. /\ IsFiniteSet(O) /\ IsFiniteSet(DOMAIN again) /\ DOMAIN again = Fingerprints(O)
        /\ \A x \in DOMAIN again : again[x].seen = Cardinality(Fingerprinted(O, {x}))
    BY <1>2, <2>1, RecurringSums
  <2> QED BY <1>5, <2>2
<1> DEFINE fp(o) == Fingerprint(Finding(o))
<1>7. PICK left : left = {o \in O : fp(o) \notin Excused}
  OBVIOUS
<1>8. PICK scored : scored = {o \in left : Finding(o).frame \in ScoredFrames}
  OBVIOUS
<1>9. scored \subseteq left /\ left \subseteq O /\ IsFiniteSet(left) /\ IsFiniteSet(scored)
  <2>1. scored \subseteq left /\ left \subseteq O /\ scored \subseteq O
    BY <1>7, <1>8
  <2> QED BY <1>6, <2>1, FS_Subset
<1>10. PICK clean : clean = {i \in W : \A o \in scored : o[1] # i}
  OBVIOUS
<1> DEFINE on(x) == {o[1] : o \in {o \in scored : fp(o) = x}}
<1>11. PICK run : run = ScoreRun(n, repo)
  OBVIOUS
<1>12. /\ run.pushes = Cardinality(W) /\ run.scored = Cardinality(scored)
       /\ run.observed = Cardinality(left \ scored)
       /\ run.convergedAt = (IF clean = {} THEN 0 ELSE Cardinality({i \in W : i <= Min(clean)}))
       /\ run.repeated = {x \in {fp(o) : o \in scored} : Cardinality(on(x)) >= 2}
  <2>1. W = RunPushes(n, repo)
    BY <1>1, <1>2 DEF RunPushes
  <2>2. run = [pushes      |-> Cardinality(W),
               scored      |-> Cardinality(scored),
               observed    |-> Cardinality(left \ scored),
               convergedAt |-> IF clean = {} THEN 0 ELSE Cardinality({i \in W : i <= Min(clean)}),
               repeated    |-> {x \in {fp(o) : o \in scored} : Cardinality(on(x)) >= 2}]
    BY <1>3, <1>7, <1>8, <1>10, <1>11, <2>1 DEF ScoreRun
  <2> HIDE DEF on, fp
  <2> QED BY <2>2
<1>13. ASSUME NEW x \in run.repeated PROVE again[x].seen >= 2
  <2>1. Cardinality(on(x)) >= 2 /\ x \in {fp(o) : o \in scored}
    <3> HIDE DEF on, fp
    <3> QED BY <1>12, <1>13
  <2>2. PICK A : A = {o \in scored : fp(o) = x}
    OBVIOUS
  <2>3. PICK B : B = {o \in O : fp(o) = x}
    OBVIOUS
  <2>4. A \subseteq B /\ IsFiniteSet(B)
    <3>1. A \subseteq B /\ B \subseteq O
      BY <1>9, <2>2, <2>3
    <3> QED BY <1>6, <3>1, FS_Subset
  <2>5. PICK f : f = [o \in A |-> o[1]]
    OBVIOUS
  <2>6. PICK P : P = on(x)
    OBVIOUS
  <2>7. P = {f[o] : o \in A}
    BY <2>2, <2>5, <2>6
  <2>8. /\ Cardinality(A) \in Nat /\ Cardinality(B) \in Nat /\ Cardinality(P) \in Nat
        /\ Cardinality(P) <= Cardinality(A) /\ Cardinality(A) <= Cardinality(B)
    <3>1. IsFiniteSet(A)
      BY <2>4, FS_Subset
    <3> QED BY <2>4, <2>7, <3>1, ImageCounts, PartCounts
  <2>9. x \in D
    BY <1>6, <1>9, <2>1 DEF Fingerprints
  <2>10. again[x].seen = Cardinality(B)
    <3>1. B = Fingerprinted(O, {x})
      BY <2>3 DEF Fingerprinted
    <3> QED BY <1>6, <2>9, <3>1
  <2>11. PICK a \in Nat, b \in Nat, p \in Nat : a = Cardinality(A) /\ b = Cardinality(B) /\ p = Cardinality(P)
    BY <2>8
  <2>12. p >= 2 /\ p <= a /\ a <= b
    <3> HIDE DEF on
    <3> QED BY <2>1, <2>6, <2>8, <2>11
  <2>13. b >= 2
    BY <2>12
  <2> QED BY <2>10, <2>11, <2>13
<1>14. run.scored + run.observed
          = SumOf([x \in D |-> again[x].seen], D \ Excused)
  <2>1. PICK X : X = D \ Excused
    OBVIOUS
  <2>2. PICK c, d : c = [x \in X |-> again[x].seen] /\ d = [x \in D |-> again[x].seen]
    OBVIOUS
  <2>3. \A x \in X : d[x] = c[x]
    BY <2>1, <2>2
  <2>4. SumOf(d, X) = Cardinality(left)
    <3>1. PICK key : key = [o \in O |-> fp(o)]
      OBVIOUS
    <3>2. IsFiniteSet(X)
      <4>1. X \subseteq D
        BY <2>1
      <4> QED BY <1>6, <4>1, FS_Subset
    <3>3. ASSUME NEW x \in X PROVE d[x] = Cardinality(GroupOf(O, key, x))
      <4>1. GroupOf(O, key, x) = Fingerprinted(O, {x})
        BY <3>1 DEF GroupOf, Fingerprinted
      <4>2. d[x] = again[x].seen /\ x \in D
        BY <2>1, <2>2
      <4> QED BY <1>6, <4>1, <4>2
    <3>4. SumOf(d, X) = Cardinality(GroupsIn(O, key, X))
      BY <1>6, <3>2, <3>3, GroupsAddUp
    <3>5. GroupsIn(O, key, X) = left
      BY <1>6, <1>7, <2>1, <3>1 DEF GroupsIn, Fingerprints
    <3> QED BY <3>4, <3>5
  <2>5. PICK a \in Nat, b \in Nat : a = Cardinality(scored) /\ b = Cardinality(left)
    BY <1>9, FS_CardinalityType
  <2>6. Cardinality(left \ scored) = b - Cardinality(left \cap scored)
    BY <1>9, <2>5, FS_Difference
  <2>7. left \cap scored = scored
    BY <1>9
  <2>8. Cardinality(left \ scored) = b - a
    BY <2>5, <2>6, <2>7
  <2>9. a + (b - a) = b
    BY <2>5
  <2>10. run.scored = a /\ run.observed = b - a
    <3> HIDE DEF on, fp
    <3> QED BY <1>12, <2>5, <2>8
  <2> QED BY <2>1, <2>2, <2>4, <2>5, <2>9, <2>10
<1>15. ASSUME run.pushes > 0, run.scored = 0 PROVE run.convergedAt = 1
  <2> HIDE DEF on, fp
  <2>1. scored = {}
    BY <1>9, <1>12, <1>15, FS_EmptySet
  <2>2. clean = W
    BY <1>10, <2>1
  <2>3. W # {}
    <3>1. ~(0 > 0)
      OBVIOUS
    <3>2. W = {} => Cardinality(W) = 0
      BY FS_EmptySet
    <3> QED BY <1>12, <1>15, <3>1, <3>2
  <2>4. PICK w : w = Min(W)
    OBVIOUS
  <2>5. w \in W /\ W \in SUBSET Nat /\ \A y \in W : w <= y
    <3>1. W \in SUBSET Nat
      BY <1>4
    <3> QED BY <2>3, <2>4, <3>1, SmallestIs
  <2>6. {i \in W : i <= w} = {w}
    <3>1. ASSUME NEW i \in W, i <= w PROVE i = w
      <4>1. i \in Nat /\ w \in Nat /\ w <= i
        BY <2>5
      <4> QED BY <3>1, <4>1
    <3>2. w <= w
      <4>1. w \in Nat
        BY <2>5
      <4> QED BY <4>1
    <3> QED BY <2>5, <3>1, <3>2
  <2>7. Cardinality({w}) = 1
    BY FS_Singleton, Zenon
  <2>8. run.convergedAt = Cardinality({i \in W : i <= w})
    BY <1>12, <2>2, <2>3, <2>4
  <2> QED BY <2>6, <2>7, <2>8
<1> QED BY <1>1, <1>2, <1>5, <1>11, <1>13, <1>14, <1>15 DEF ScoresAgree

-----------------------------------------------------------------------------
LEMMA EmptyInOrder == ASSUME NEW e, e.saw = <<>> PROVE InOrder(e)
<1>1. \A j : j \notin DOMAIN e.saw
  <2>1. Len(<<>>) = 0
    OBVIOUS
  <2> QED BY <2>1
<1> QED BY <1>1 DEF InOrder

\* The index grows, so a statement sees what every earlier one of its answer saw.
LEMMA AppendInOrder ==
    ASSUME NEW d, d.saw \in Seq(Nat), InOrder(d), NEW total \in Nat,
           \A k \in DOMAIN d.saw : d.saw[k] <= total, NEW e, e.saw = Append(d.saw, total)
    PROVE  InOrder(e)
<1>1. PICK n \in Nat : n = Len(d.saw)
  BY LenProperties
<1>2. PICK s \in Seq(Nat) : s = d.saw
  OBVIOUS
<1>3. PICK longer \in Seq(Nat) : longer = Append(s, total)
  <2>1. Append(s, total) \in Seq(Nat)
    OBVIOUS
  <2> QED BY <2>1
<1>4. /\ DOMAIN s = 1 .. n /\ DOMAIN longer = 1 .. n + 1 /\ longer[n + 1] = total
      /\ \A k \in 1 .. n : longer[k] = s[k] /\ longer[k] \in Nat
  BY <1>1, <1>2, <1>3
<1>5. ASSUME NEW j \in 1 .. n + 1, NEW k \in 1 .. n + 1, j <= k PROVE longer[j] <= longer[k]
  <2>1. CASE k = n + 1
    <3>1. j = n + 1 \/ j \in 1 .. n
      OBVIOUS
    <3>2. total <= total
      OBVIOUS
    <3> QED BY <1>2, <1>4, <2>1, <3>1, <3>2
  <2>2. CASE k # n + 1
    <3>1. j \in 1 .. n /\ k \in 1 .. n
      BY <1>5, <2>2
    <3> QED BY <1>2, <1>4, <1>5, <3>1 DEF InOrder
  <2> QED BY <2>1, <2>2
<1>6. e.saw = longer
  BY <1>2, <1>3
<1> QED BY <1>4, <1>5, <1>6 DEF InOrder

\* Whoever runs no statement has what it saw, or begins anew.
LEMMA SawStays ==
    ASSUME SawInOrder,
           \A x \in Readers : reader'[x].saw = reader[x].saw \/ reader'[x].saw = <<>>
    PROVE  SawInOrder'
<1>1. ASSUME NEW x \in Readers PROVE InOrder(reader'[x])
  <2>1. CASE reader'[x].saw = <<>>
    BY <2>1, EmptyInOrder
  <2>2. CASE reader'[x].saw = reader[x].saw
    BY <2>2 DEF SawInOrder, InOrder
  <2> QED BY <2>1, <2>2
<1>2. \A x \in Readers : InOrder(reader[x])'
  BY <1>1 DEF InOrder
<1> QED BY <1>2 DEF SawInOrder

LEMMA SawInOrderStep ==
    ASSUME GateStatsAssumption, StatInv, SawInOrder, [StatNext]_statVars PROVE SawInOrder'
<1>1. reader \in [Readers -> ReaderStates]
  BY DEF StatInv, ReadersSound
<1>2. \A x \in Readers : reader[x] \in ReaderStates
  BY <1>1
<1>3. ASSUME NEW r \in Readers, NEW e, reader' = [reader EXCEPT ![r] = e],
             e.saw = reader[r].saw \/ e.saw = <<>>
      PROVE  SawInOrder'
  BY <1>1, <1>3, SawStays
<1>4. IdleReader.saw = <<>>
  BY DEF IdleReader
<1>5. ASSUME NEW r \in Readers, NEW report \in DOMAIN Statements, Ask(r, report) PROVE SawInOrder'
  <2>1. PICK st, excused, e : /\ e = [IdleReader EXCEPT !.st = st, !.report = report, !.file = 1,
                                                       !.asked = statClock, !.excused = excused]
                             /\ reader' = [reader EXCEPT ![r] = e]
    BY <1>5 DEF Ask
  <2>2. e.saw = IdleReader.saw
    BY <2>1 DEF IdleReader
  <2> QED BY <1>3, <1>4, <2>1, <2>2
<1>6. ASSUME NEW r \in Readers, IngestLog(r) PROVE SawInOrder'
  <2>1. PICK at, st : reader' = [reader EXCEPT ![r].file = at, ![r].st = st]
    BY <1>6 DEF IngestLog
  <2>2. PICK e : e = [reader[r] EXCEPT !.file = at, !.st = st]
    OBVIOUS
  <2>3. reader' = [reader EXCEPT ![r] = e]
    BY <1>1, <2>1, <2>2
  <2>4. e.saw = reader[r].saw
    BY <1>2, <2>2 DEF ReaderStates
  <2> QED BY <1>3, <2>3, <2>4
<1>7. ASSUME NEW r \in Readers, IngestBreaks(r) PROVE SawInOrder'
  <2>1. PICK e : e = IF reader[r].report = "benchmark" THEN IdleReader
                     ELSE [reader[r] EXCEPT !.st = "read", !.note = TRUE]
    OBVIOUS
  <2>2. reader' = [reader EXCEPT ![r] = e]
    BY <1>7, <2>1 DEF IngestBreaks
  <2>3. e.saw = reader[r].saw \/ e.saw = <<>>
    BY <1>2, <1>4, <2>1 DEF ReaderStates
  <2> QED BY <1>3, <2>2, <2>3
<1>8. ASSUME NEW r \in Readers, RunStatement(r) PROVE SawInOrder'
  <2>1. PICK d : d = reader[r]
    OBVIOUS
  <2>2. PICK total \in Nat : total = Len(decided)
    BY LenProperties DEF StatInv, LogTimes
  <2>3. PICK e : e = [d EXCEPT !.saw = Append(d.saw, total)]
    OBVIOUS
  <2>4. reader' = [reader EXCEPT ![r] = e]
    <3>1. reader' = [reader EXCEPT ![r].saw = Append(d.saw, total)]
      BY <1>8, <2>1, <2>2 DEF RunStatement
    <3> QED BY <1>1, <2>1, <2>3, <3>1
  <2>5. d \in ReaderStates /\ ReaderTyped(d) /\ InOrder(d)
    BY <2>1 DEF StatInv, ReadersSound, SawInOrder
  <2>6. d.saw \in Seq(Nat) /\ (\A k \in DOMAIN d.saw : d.saw[k] <= total) /\ e.saw = Append(d.saw, total)
    BY <2>2, <2>3, <2>5 DEF ReaderTyped, ReaderStates
  <2>7. InOrder(e)
    BY <2>5, <2>6, AppendInOrder
  <2>8. \A x \in Readers : reader'[x] = reader[x] \/ reader'[x] = e
    BY <1>1, <2>4
  <2>9. \A x \in Readers : InOrder(reader'[x])
    BY <2>7, <2>8 DEF SawInOrder
  <2>10. \A x \in Readers : InOrder(reader[x])'
    BY <2>9 DEF InOrder
  <2> QED BY <2>10 DEF SawInOrder
<1>9. ASSUME NEW r \in Readers, CloseAnswer(r) PROVE SawInOrder'
  <2>1. reader' = [reader EXCEPT ![r] = IdleReader]
    BY <1>9 DEF CloseAnswer
  <2> QED BY <1>3, <1>4, <2>1
<1>10. CASE StatRestart
  <2>1. \A x \in Readers : reader'[x] = reader[x] \/ reader'[x] = IdleReader
    BY <1>10 DEF StatRestart
  <2> QED BY <1>4, <2>1, SawStays
<1>11. CASE reader' = reader
  BY <1>11, SawStays
<1>12. (\E p \in PushKinds : LogDecision(p)) \/ StatTick \/ UNCHANGED statVars => reader' = reader
  BY DEF LogDecision, StatTick, statVars
<1> QED BY <1>5, <1>6, <1>7, <1>8, <1>9, <1>10, <1>11, <1>12 DEF StatNext

LEMMA SawInOrderInvariant == StatSpec => []SawInOrder
<1>1. StatInit => SawInOrder
  <2> SUFFICES ASSUME StatInit, NEW r \in Readers PROVE InOrder(reader[r])
    BY DEF SawInOrder
  <2>1. reader[r].saw = <<>>
    BY DEF StatInit, IdleReader
  <2> QED BY <2>1, EmptyInOrder
<1>2. StatInv /\ SawInOrder /\ [StatNext]_statVars => SawInOrder'
  BY SawInOrderStep, GateStatsAssumption
<1> QED BY <1>1, <1>2, StatInvariant, PTL DEF StatSpec

\* What the statements of an answer saw, by their places.
LEMMA SawPlaces ==
    ASSUME StatInv, SawInOrder, NEW r \in Readers, Answered(r),
           NEW n \in Nat, Len(Statements[reader[r].report]) = n
    PROVE  /\ DOMAIN reader[r].saw = 1 .. n
           /\ \A k \in 1 .. n : reader[r].saw[k] \in Nat /\ reader[r].saw[k] <= Len(decided)
           /\ \A j \in 1 .. n : \A k \in 1 .. n : j <= k => reader[r].saw[j] <= reader[r].saw[k]
<1>1. reader[r] \in ReaderStates /\ ReaderTyped(reader[r]) /\ InOrder(reader[r])
  BY DEF StatInv, ReadersSound, SawInOrder
<1>2. Len(reader[r].saw) = n
  BY DEF Answered
<1>3. reader[r].saw \in Seq(Nat)
  BY <1>1 DEF ReaderStates
<1>4. DOMAIN reader[r].saw = 1 .. n
  BY <1>2, <1>3, LenProperties
<1>5. \A k \in 1 .. n : reader[r].saw[k] \in Nat
  BY <1>2, <1>3, ElementOfSeq
<1> QED BY <1>1, <1>4, <1>5 DEF ReaderTyped, InOrder

\* A statement of an answer is at one place of its list.
LEMMA SawAt ==
    ASSUME NEW r \in Readers, NEW list, Statements[reader[r].report] = list, NEW k \in DOMAIN list,
           \A j \in DOMAIN list : j # k => list[j] # list[k]
    PROVE  Saw(r, list[k]) = reader[r].saw[k]
<1>1. PICK c : c = CHOOSE j \in DOMAIN list : list[j] = list[k]
  OBVIOUS
<1>2. c = k
  BY <1>1
<1> QED BY <1>1, <1>2 DEF Saw

\* Totals before their breakdown.
LEMMA TotalsSaw ==
    ASSUME StatInv, SawInOrder, NEW r \in Readers, Answered(r),
           reader[r].report \in {"gateStats", "topRules", "stats"}
    PROVE  /\ Saw(r, "totals") \in Nat /\ Saw(r, "perRepo") \in Nat
           /\ Saw(r, "totals") <= Saw(r, "perRepo") /\ Saw(r, "perRepo") <= Len(decided)
<1>1. CASE reader[r].report \in {"gateStats", "topRules"}
  <2>1. PICK list : list = <<"repos", "totals", "perRepo", "topFrames">>
    OBVIOUS
  <2>2. Statements[reader[r].report] = list
    BY <1>1, <2>1 DEF Statements
  <2>3. /\ DOMAIN list = 1 .. 4 /\ Len(list) = 4 /\ list[1] = "repos" /\ list[2] = "totals"
        /\ list[3] = "perRepo" /\ list[4] = "topFrames"
    BY <2>1
  <2>4. \A j \in 1 .. 4 : j = 1 \/ j = 2 \/ j = 3 \/ j = 4
    OBVIOUS
  <2>5. Saw(r, "totals") = reader[r].saw[2] /\ Saw(r, "perRepo") = reader[r].saw[3]
    <3>1. \A j \in DOMAIN list : (j # 2 => list[j] # list[2]) /\ (j # 3 => list[j] # list[3])
      BY <2>3, <2>4
    <3>2. Saw(r, list[2]) = reader[r].saw[2] /\ Saw(r, list[3]) = reader[r].saw[3]
      BY <2>2, <2>3, <3>1, SawAt
    <3> QED BY <2>3, <3>2
  <2>6. PICK n \in Nat : n = 4 /\ Len(Statements[reader[r].report]) = n
    BY <2>2, <2>3
  <2>7. /\ \A k \in 1 .. n : reader[r].saw[k] \in Nat /\ reader[r].saw[k] <= Len(decided)
        /\ \A j \in 1 .. n : \A k \in 1 .. n : j <= k => reader[r].saw[j] <= reader[r].saw[k]
    BY <2>6, SawPlaces
  <2> QED BY <2>5, <2>6, <2>7
<1>2. CASE reader[r].report = "stats"
  <2>1. PICK list : list = <<"totals", "perRepo", "topFrames", "prevented", "recurring">>
    OBVIOUS
  <2>2. Statements[reader[r].report] = list
    BY <1>2, <2>1 DEF Statements
  <2>3. /\ DOMAIN list = 1 .. 5 /\ Len(list) = 5 /\ list[1] = "totals" /\ list[2] = "perRepo"
        /\ list[3] = "topFrames" /\ list[4] = "prevented" /\ list[5] = "recurring"
    BY <2>1
  <2>4. \A j \in 1 .. 5 : j = 1 \/ j = 2 \/ j = 3 \/ j = 4 \/ j = 5
    OBVIOUS
  <2>5. Saw(r, "totals") = reader[r].saw[1] /\ Saw(r, "perRepo") = reader[r].saw[2]
    <3>1. \A j \in DOMAIN list : (j # 1 => list[j] # list[1]) /\ (j # 2 => list[j] # list[2])
      BY <2>3, <2>4
    <3>2. Saw(r, list[1]) = reader[r].saw[1] /\ Saw(r, list[2]) = reader[r].saw[2]
      BY <2>2, <2>3, <3>1, SawAt
    <3> QED BY <2>3, <3>2
  <2>6. PICK n \in Nat : n = 5 /\ Len(Statements[reader[r].report]) = n
    BY <2>2, <2>3
  <2>7. /\ \A k \in 1 .. n : reader[r].saw[k] \in Nat /\ reader[r].saw[k] <= Len(decided)
        /\ \A j \in 1 .. n : \A k \in 1 .. n : j <= k => reader[r].saw[j] <= reader[r].saw[k]
    BY <2>6, SawPlaces
  <2> QED BY <2>5, <2>6, <2>7
<1> QED BY <1>1, <1>2

\* The statements of /stats about findings.
LEMMA FindingsSaw ==
    ASSUME StatInv, SawInOrder, NEW r \in Readers, Answered(r), reader[r].report = "stats"
    PROVE  /\ Saw(r, "topFrames") \in Nat /\ Saw(r, "prevented") \in Nat /\ Saw(r, "recurring") \in Nat
           /\ Saw(r, "topFrames") <= Saw(r, "prevented") /\ Saw(r, "prevented") <= Saw(r, "recurring")
           /\ Saw(r, "recurring") <= Len(decided)
<1>1. PICK list : list = <<"totals", "perRepo", "topFrames", "prevented", "recurring">>
  OBVIOUS
<1>2. Statements[reader[r].report] = list
  BY <1>1 DEF Statements
<1>3. /\ DOMAIN list = 1 .. 5 /\ Len(list) = 5 /\ list[1] = "totals" /\ list[2] = "perRepo"
      /\ list[3] = "topFrames" /\ list[4] = "prevented" /\ list[5] = "recurring"
  BY <1>1
<1>4. \A j \in 1 .. 5 : j = 1 \/ j = 2 \/ j = 3 \/ j = 4 \/ j = 5
  OBVIOUS
<1>5. \A j \in DOMAIN list : /\ j # 3 => list[j] # list[3]
                             /\ j # 4 => list[j] # list[4]
                             /\ j # 5 => list[j] # list[5]
  BY <1>3, <1>4
<1>6. /\ Saw(r, list[3]) = reader[r].saw[3] /\ Saw(r, list[4]) = reader[r].saw[4]
      /\ Saw(r, list[5]) = reader[r].saw[5]
  BY <1>2, <1>3, <1>5, SawAt
<1>7. /\ Saw(r, "topFrames") = reader[r].saw[3] /\ Saw(r, "prevented") = reader[r].saw[4]
      /\ Saw(r, "recurring") = reader[r].saw[5]
  BY <1>3, <1>6
<1>8. PICK n \in Nat : n = 5 /\ Len(Statements[reader[r].report]) = n
  BY <1>2, <1>3
<1>9. /\ \A k \in 1 .. n : reader[r].saw[k] \in Nat /\ reader[r].saw[k] <= Len(decided)
      /\ \A j \in 1 .. n : \A k \in 1 .. n : j <= k => reader[r].saw[j] <= reader[r].saw[k]
  BY <1>8, SawPlaces
<1> QED BY <1>7, <1>8, <1>9

\* The one statement of a report that has no other.
LEMMA OnlySaw ==
    ASSUME StatInv, SawInOrder, NEW r \in Readers, Answered(r)
    PROVE  /\ reader[r].report = "whatChanged" => Saw(r, "verdicts") \in Nat
           /\ reader[r].report = "benchmark" => Saw(r, "pushes") \in Nat /\ Saw(r, "pushes") <= Len(decided)
<1>1. ASSUME NEW statement, Statements[reader[r].report] = <<statement>>
      PROVE  Saw(r, statement) \in Nat /\ Saw(r, statement) <= Len(decided)
  <2>1. PICK list : list = <<statement>>
    OBVIOUS
  <2>2. DOMAIN list = 1 .. 1 /\ Len(list) = 1 /\ list[1] = statement
    BY <2>1
  <2>3. 1 \in DOMAIN list /\ \A j \in DOMAIN list : j = 1
    BY <2>2
  <2>4. Saw(r, list[1]) = reader[r].saw[1]
    BY <1>1, <2>1, <2>3, SawAt
  <2>5. PICK n \in Nat : n = 1 /\ Len(Statements[reader[r].report]) = n
    BY <1>1, <2>1, <2>2
  <2>6. \A k \in 1 .. n : reader[r].saw[k] \in Nat /\ reader[r].saw[k] <= Len(decided)
    BY <2>5, SawPlaces
  <2> QED BY <2>2, <2>3, <2>4, <2>5, <2>6
<1>2. reader[r].report = "whatChanged" => Statements[reader[r].report] = <<"verdicts">>
  BY DEF Statements
<1>3. reader[r].report = "benchmark" => Statements[reader[r].report] = <<"pushes">>
  BY DEF Statements
<1> QED BY <1>1, <1>2, <1>3

\* The reports of one window agree, though the index grows between the statements of one
\* (internal/gateway/analytics/query.go, internal/gateway/agentapi/service.go,
\* internal/benchmark/benchmark.go): SawInOrder says what the order of the statements is worth.
THEOREM AnswersAgreeCorrect == StatSpec => []AnswersAgree
<1>1. StatInv /\ SawInOrder => AnswersAgree
  <2> SUFFICES ASSUME StatInv, SawInOrder, NEW r \in Readers, Answered(r)
               PROVE  /\ reader[r].report \in {"gateStats", "topRules", "stats"} => \A asked \in Queries :
                            TotalsAgree(Saw(r, "totals"), Saw(r, "perRepo"),
                                        IF reader[r].report = "stats" THEN asked
                                        ELSE [asked EXCEPT !.repo = Scope(Saw(r, "repos"), asked.repo)])
                      /\ reader[r].report = "stats" => \A q \in Queries :
                            FindingsAgree(Saw(r, "topFrames"), Saw(r, "prevented"), Saw(r, "recurring"), q)
                      /\ reader[r].report = "whatChanged" =>
                            \A repo \in GateRepos : VerdictsAgree(Saw(r, "verdicts"), repo)
                      /\ reader[r].report = "benchmark" =>
                            \A repo \in GateRepos : ScoresAgree(Saw(r, "pushes"), repo)
    BY Zenon DEF AnswersAgree
  <2>1. ASSUME reader[r].report \in {"gateStats", "topRules", "stats"}, NEW q
        PROVE  TotalsAgree(Saw(r, "totals"), Saw(r, "perRepo"), q)
    <3>1. PICK m \in Nat, n \in Nat : m = Saw(r, "totals") /\ n = Saw(r, "perRepo")
      BY <2>1, TotalsSaw
    <3>2. m <= n /\ n <= Len(decided)
      BY <2>1, <3>1, TotalsSaw
    <3>3. TotalsAgree(m, n, q)
      BY <3>2, TotalsHold, GateStatsAssumption
    <3> QED BY <3>1, <3>3
  <2>2. ASSUME reader[r].report = "stats", NEW q
        PROVE  FindingsAgree(Saw(r, "topFrames"), Saw(r, "prevented"), Saw(r, "recurring"), q)
    <3>1. PICK m \in Nat, n \in Nat, l \in Nat :
             m = Saw(r, "topFrames") /\ n = Saw(r, "prevented") /\ l = Saw(r, "recurring")
      BY <2>2, FindingsSaw
    <3>2. m <= n /\ n <= l /\ l <= Len(decided)
      BY <2>2, <3>1, FindingsSaw
    <3>3. FindingsAgree(m, n, l, q)
      BY <3>2, FindingsHold, GateStatsAssumption
    <3> QED BY <3>1, <3>3
  <2>3. ASSUME reader[r].report = "whatChanged", NEW repo PROVE VerdictsAgree(Saw(r, "verdicts"), repo)
    BY <2>3, OnlySaw, VerdictsHold
  <2>4. ASSUME reader[r].report = "benchmark", NEW repo PROVE ScoresAgree(Saw(r, "pushes"), repo)
    <3>1. PICK n \in Nat : n = Saw(r, "pushes") /\ n <= Len(decided)
      BY <2>4, OnlySaw
    <3>2. ScoresAgree(n, repo)
      BY <3>1, ScoresHold, GateStatsAssumption
    <3> QED BY <3>1, <3>2
  <2> QED BY <2>1, <2>2, <2>3, <2>4, Zenon
<1> QED BY <1>1, StatInvariant, SawInOrderInvariant, PTL

-----------------------------------------------------------------------------
(* The rc file.                                                            *)

RcLines == OwnLines \cup OurLines

\* Every own line of a file was put there by the user; those inside a block are known.
OwnStand(f) == \A u \in OwnLines : Has(f, u) => u \in put
InsideStand(f) == Inside(f) \cap OwnLines \subseteq enclosed
\* None is missing without a reason.
NoneMissing(f) == \A u \in put : Has(f, u) \/ u \in late \cup enclosed

\* A process's task; whether it holds a copy of the file; whether it has emptied it.
TaskOf(e) == IF e.todo = <<>> THEN "none" ELSE Head(e.todo)
Copying(e) == e.at = 1 /\ TaskOf(e) \in {"path", "dropPath", "dropBin", "dropSnippet"}
Emptying(e) == e.at = 2 /\ TaskOf(e) = "dropSnippet"

\* The copy is the file as it was, and what came since is late.
CopyStands(e) ==
    Copying(e) \/ Emptying(e) =>
        /\ e.copy \in Seq(RcLines) /\ OwnStand(e.copy) /\ InsideStand(e.copy)
        /\ mangled \/ NoneMissing(e.copy)

\* A block that is about to be removed is in the copy, whole.
BlockStands(e) ==
    e.at = 1 /\ TaskOf(e) \in {"dropPath", "dropBin"} =>
        Has(e.copy, <<BlockOf(TaskOf(e)), "begin">>) /\ ~HalfBlock(e.copy, BlockOf(TaskOf(e)))

Waiting(e) == e.op = "idle" => e.todo = <<>>

RcInv ==
    /\ UserInstallTypeOK
    /\ installer = [p \in Installers |-> installer[p]]
    /\ \A p \in Installers : /\ Waiting(installer[p]) /\ CopyStands(installer[p])
                             /\ BlockStands(installer[p])
    /\ OwnStand(rc) /\ InsideStand(rc)
    /\ mangled \/ (\E p \in Installers : Emptied(p)) \/ NoneMissing(rc)

LEMMA NowIsTask ==
    ASSUME NEW p \in Installers
    PROVE  /\ Now(p) = TaskOf(installer[p]) /\ (Held(p) <=> Copying(installer[p]))
           /\ (Emptied(p) <=> Emptying(installer[p]))
BY DEF Now, TaskOf, Held, Copying, Emptied, Emptying

LEMMA OwnIsNotOurs ==
    ASSUME NEW u \in OwnLines, NEW b \in Blocks
    PROVE  u # <<b, "begin">> /\ u # <<b, "body">> /\ u # <<b, "end">>
<1>1. \A x \in {"begin", "body", "end"} : <<b, x>> \in {"path", "bin", "snippet"} \X {"begin", "body", "end"}
  BY DEF Blocks
<1> QED BY <1>1, UserInstallAssumption DEF UserInstallAssumption

LEMMA BlockHolds ==
    ASSUME NEW b \in Blocks
    PROVE  /\ Block(b) \in Seq(RcLines) /\ Len(Block(b)) = 3
           /\ \A n \in 1 .. 3 : Block(b)[n] \in RcLines /\ Block(b)[n] \notin OwnLines
<1> DEFINE x == <<b, "begin">>
           y == <<b, "body">>
           z == <<b, "end">>
<1>1. Block(b) = <<x, y, z>>
  BY DEF Block
<1>2. x \in RcLines /\ y \in RcLines /\ z \in RcLines
  BY DEF RcLines, OurLines
<1>3. x \notin OwnLines /\ y \notin OwnLines /\ z \notin OwnLines
  BY OwnIsNotOurs
<1> HIDE DEF x, y, z
<1>4. <<x, y, z>> \in Seq(RcLines) /\ Len(<<x, y, z>>) = 3
  BY <1>2
<1>5. \A n \in 1 .. 3 : <<x, y, z>>[n] \in {x, y, z}
  OBVIOUS
<1> QED BY <1>1, <1>2, <1>3, <1>4, <1>5

\* Lines that are not the user's are added.
LEMMA LinesAppended ==
    ASSUME NEW f \in Seq(RcLines), NEW g \in Seq(RcLines),
           \A n \in DOMAIN g : g[n] \notin OwnLines
    PROVE  f \o g \in Seq(RcLines) /\ \A u \in OwnLines : Has(f \o g, u) <=> Has(f, u)
<1>1. f \o g \in Seq(RcLines) /\ \A x : InSeq(f \o g, x) <=> InSeq(f, x) \/ InSeq(g, x)
  BY ConcatHolds
<1>2. \A u \in OwnLines : ~InSeq(g, u)
  BY DEF InSeq
<1> QED BY <1>1, <1>2 DEF InSeq, Has

LEMMA SliceHolds ==
    ASSUME NEW f \in Seq(RcLines), NEW i \in Nat, NEW n \in Nat, n = Len(f), i <= n, NEW t, t = SubSeq(f, i + 1, n)
    PROVE  /\ t \in Seq(RcLines) /\ Len(t) = n - i /\ n - i \in Nat
           /\ \A k \in 1 .. n - i : t[k] = f[i + k]
<1>1. \A k \in i + 1 .. n : f[k] \in RcLines
  <2>1. \A k \in i + 1 .. n : k \in 1 .. n
    OBVIOUS
  <2> QED BY <2>1, ElementOfSeq
<1>2. i + 1 \in Int /\ n \in Int /\ n - (i + 1) + 1 = n - i /\ n - i \in Nat
      /\ (i + 1 <= n \/ n - i = 0)
  OBVIOUS
<1>3. /\ t \in Seq(RcLines) /\ Len(t) = IF i + 1 <= n THEN n - (i + 1) + 1 ELSE 0
      /\ \A k \in 1 .. n - (i + 1) + 1 : t[k] = f[(i + 1) + k - 1]
  BY <1>1, <1>2, SubSeqProperties
<1>4. \A k \in 1 .. n - i : t[k] = f[i + k]
  <2> TAKE k \in 1 .. n - i
  <2>1. (i + 1) + k - 1 = i + k
    OBVIOUS
  <2> QED BY <1>2, <1>3, <2>1
<1> QED BY <1>2, <1>3, <1>4

\* Between the first BEGIN of a block and the END behind it.
LEMMA MarksHold ==
    ASSUME NEW f \in Seq(RcLines), NEW b \in Blocks, Has(f, <<b, "begin">>), ~HalfBlock(f, b),
           NEW m, m = Marks(f, b)
    PROVE  /\ m.begin \in DOMAIN f /\ m.end \in DOMAIN f /\ m.begin < m.end
           /\ f[m.begin] = <<b, "begin">> /\ f[m.end] = <<b, "end">>
           /\ \A k \in DOMAIN f : m.begin < k /\ k < m.end => f[k] # <<b, "end">>
<1>1. PICK n \in Nat : n = Len(f)
  BY LenProperties
<1>2. DOMAIN f = 1 .. n
  BY <1>1, LenProperties
<1> DEFINE I == {k \in 1 .. n : f[k] = <<b, "begin">>}
<1>3. I \in SUBSET Nat /\ I # {}
  BY <1>2 DEF Has
<1>4. PICK i : i = Min(I)
  OBVIOUS
<1>5. i \in I /\ i = SelectInSeq(f, LAMBDA l : l = <<b, "begin">>)
  <2>1. i \in I
    BY <1>3, <1>4, SmallestIs
  <2> QED BY <1>1, <1>3, <1>4, <2>1 DEF SelectInSeq
<1>6. PICK tail : tail = SubSeq(f, i + 1, Len(f))
  OBVIOUS
<1>7. /\ Len(tail) = n - i /\ n - i \in Nat
      /\ \A k \in 1 .. n - i : tail[k] = f[i + k]
  <2>1. i \in Nat /\ i <= n
    BY <1>1, <1>5
  <2> QED BY <1>1, <1>6, <2>1, SliceHolds
<1> DEFINE J == {k \in 1 .. n - i : tail[k] = <<b, "end">>}
<1>8. PICK j : j = SelectInSeq(tail, LAMBDA l : l = <<b, "end">>)
  OBVIOUS
<1>9. m = [begin |-> i, end |-> IF j = 0 THEN 0 ELSE i + j]
  BY <1>5, <1>6, <1>8 DEF Marks
<1>10. i # 0 /\ m.begin = i
  BY <1>5, <1>9
<1>11. m.end # 0
  BY <1>10 DEF HalfBlock
<1>12. j # 0 /\ m.end = i + j
  BY <1>9, <1>11
<1>13. j = IF J # {} THEN Min(J) ELSE 0
  BY <1>7, <1>8 DEF SelectInSeq
<1>14. J # {} /\ j = Min(J)
  BY <1>12, <1>13
<1>15. J \in SUBSET Nat
  BY <1>7
<1>16. j \in J /\ \A k \in J : j <= k
  BY <1>14, <1>15, SmallestIs
<1>17. i \in 1 .. n /\ j \in 1 .. n - i /\ tail[j] = <<b, "end">>
  BY <1>5, <1>16
<1>18. i + j \in 1 .. n /\ i < i + j /\ f[i + j] = <<b, "end">>
  BY <1>7, <1>17
<1>19. ASSUME NEW k \in 1 .. n, i < k, k < i + j PROVE f[k] # <<b, "end">>
  <2>1. k - i \in 1 .. n - i /\ k - i < j /\ i + (k - i) = k
    BY <1>17, <1>19
  <2>2. k - i \notin J
    BY <1>16, <1>17, <2>1
  <2> QED BY <1>7, <2>1, <2>2
<1> QED BY <1>2, <1>5, <1>10, <1>12, <1>18, <1>19

\* What removing a block leaves.
LEMMA WithoutHolds ==
    ASSUME NEW f \in Seq(RcLines), NEW b \in Blocks, Has(f, <<b, "begin">>), ~HalfBlock(f, b)
    PROVE  /\ Without(f, b) \in Seq(RcLines)
           /\ \A u : Has(Without(f, b), u) => Has(f, u)
           /\ \A u \in OwnLines : Has(f, u) => Has(Without(f, b), u) \/ u \in Inside(f)
<1>1. PICK n \in Nat : n = Len(f)
  BY LenProperties
<1>2. DOMAIN f = 1 .. n
  BY <1>1, LenProperties
<1>3. PICK m : m = Marks(f, b)
  OBVIOUS
<1>4. /\ m.begin \in DOMAIN f /\ m.end \in DOMAIN f /\ m.begin < m.end
      /\ f[m.begin] = <<b, "begin">> /\ f[m.end] = <<b, "end">>
      /\ \A k \in DOMAIN f : m.begin < k /\ k < m.end => f[k] # <<b, "end">>
  BY <1>3, MarksHold
<1>5. PICK i \in 1 .. n, j \in 1 .. n : i = m.begin /\ j = m.end
  BY <1>2, <1>4
<1>6. PICK s, t : s = SubSeq(f, 1, i - 1) /\ t = SubSeq(f, j + 1, n)
  OBVIOUS
<1>7. Without(f, b) = s \o t
  BY <1>1, <1>3, <1>5, <1>6 DEF Without
<1>8. /\ s \in Seq(RcLines) /\ DOMAIN s = 1 .. i - 1 /\ \A k \in 1 .. i - 1 : s[k] = f[k]
      /\ t \in Seq(RcLines) /\ DOMAIN t = 1 .. n - j /\ \A k \in 1 .. n - j : t[k] = f[j + k]
  <2>1. s \in Seq(RcLines) /\ Len(s) = i - 1 /\ \A k \in 1 .. i - 1 : s[k] = f[k]
    BY <1>1, <1>2, <1>5, <1>6
  <2>2. t \in Seq(RcLines) /\ Len(t) = n - j /\ \A k \in 1 .. n - j : t[k] = f[j + k]
    <3>1. PICK k \in Nat : k = j
      BY <1>1, <1>5
    <3>2. k <= n /\ t = SubSeq(f, k + 1, n)
      BY <1>1, <1>5, <1>6, <3>1
    <3>3. /\ t \in Seq(RcLines) /\ Len(t) = n - k /\ n - k \in Nat
          /\ \A x \in 1 .. n - k : t[x] = f[k + x]
      BY <1>1, <3>2, SliceHolds
    <3> QED BY <3>1, <3>3
  <2> QED BY <2>1, <2>2, LenProperties
<1>9. s \o t \in Seq(RcLines) /\ \A x : InSeq(s \o t, x) <=> InSeq(s, x) \/ InSeq(t, x)
  BY <1>8, ConcatHolds
<1>10. ASSUME NEW u, InSeq(s, u) \/ InSeq(t, u) PROVE Has(f, u)
  <2>1. CASE InSeq(s, u)
    <3>1. PICK k \in 1 .. i - 1 : f[k] = u
      BY <1>8, <2>1 DEF InSeq
    <3>2. k \in 1 .. n
      BY <1>1, <1>5
    <3> QED BY <1>2, <3>1, <3>2 DEF Has
  <2>2. CASE InSeq(t, u)
    <3>1. PICK k \in 1 .. n - j : f[j + k] = u
      BY <1>8, <2>2 DEF InSeq
    <3>2. j + k \in 1 .. n
      BY <1>1, <1>5
    <3> QED BY <1>2, <3>1, <3>2 DEF Has
  <2> QED BY <1>10, <2>1, <2>2
<1>11. ASSUME NEW u \in OwnLines, Has(f, u) PROVE InSeq(s, u) \/ InSeq(t, u) \/ u \in Inside(f)
  <2>1. PICK k \in 1 .. n : f[k] = u
    BY <1>2, <1>11 DEF Has
  <2>2. k # i /\ k # j
    BY <1>4, <1>5, <2>1, OwnIsNotOurs
  <2>3. CASE k < i
    <3>1. k \in 1 .. i - 1
      BY <1>1, <1>5, <2>3
    <3> QED BY <1>8, <2>1, <3>1 DEF InSeq
  <2>4. CASE j < k
    <3>1. k - j \in 1 .. n - j /\ j + (k - j) = k
      BY <1>1, <1>5, <2>4
    <3>2. t[k - j] = u
      BY <1>8, <2>1, <3>1
    <3> QED BY <1>8, <3>1, <3>2 DEF InSeq
  <2>5. CASE i < k /\ k < j
    <3>1. \A x \in i .. k : f[x] # <<b, "end">>
      <4> TAKE x \in i .. k
      <4>1. x \in 1 .. n /\ (x = i \/ (i < x /\ x < j))
        BY <1>1, <1>5, <2>5
      <4>2. <<b, "begin">> # <<b, "end">>
        OBVIOUS
      <4> QED BY <1>2, <1>4, <1>5, <4>1, <4>2
    <3>2. i \in 1 .. k /\ f[i] = <<b, "begin">>
      BY <1>1, <1>4, <1>5, <2>5
    <3> QED BY <1>2, <2>1, <3>1, <3>2 DEF Inside
  <2>6. k < i \/ j < k \/ (i < k /\ k < j)
    BY <1>1, <2>2
  <2> QED BY <2>3, <2>4, <2>5, <2>6
<1> QED BY <1>7, <1>9, <1>10, <1>11 DEF Has, InSeq

\* What `shell uninstall` leaves.
LEMMA OutsideHolds ==
    ASSUME NEW f \in Seq(RcLines)
    PROVE  /\ OutsideSnippet(f) \in Seq(RcLines)
           /\ \A u : Has(OutsideSnippet(f), u) => Has(f, u)
           /\ \A u \in OwnLines : Has(f, u) => Has(OutsideSnippet(f), u) \/ u \in Inside(f)
<1> DEFINE outside(i) ==
            /\ f[i] # <<"snippet", "end">>
            /\ \A k \in 1 .. i : f[k] = <<"snippet", "begin">>
                                => \E m \in k .. i - 1 : f[m] = <<"snippet", "end">>
           left == [i \in DOMAIN f |-> IF outside(i) THEN <<f[i]>> ELSE <<>>]
<1>1. OutsideSnippet(f) = FlattenSeq(left)
  BY Zenon DEF OutsideSnippet
<1>2. PICK n \in Nat : n = Len(f)
  BY LenProperties
<1>3. DOMAIN f = 1 .. n /\ \A i \in 1 .. n : f[i] \in RcLines
  BY <1>2, LenProperties, ElementOfSeq
<1>4. ASSUME NEW i \in DOMAIN f
      PROVE  /\ left[i] \in Seq(RcLines)
             /\ \A x : InSeq(left[i], x) <=> outside(i) /\ x = f[i]
  <2> HIDE DEF outside
  <2>1. CASE ~outside(i)
    <3>1. left[i] = <<>>
      BY <2>1
    <3> QED BY <2>1, <3>1 DEF InSeq
  <2>2. CASE outside(i)
    <3>1. left[i] = <<f[i]>>
      BY <2>2
    <3>2. PICK y \in RcLines : y = f[i]
      BY <1>3
    <3>3. <<y>> \in Seq(RcLines) /\ \A x : InSeq(<<y>>, x) <=> x = y
      BY DEF InSeq
    <3> QED BY <2>2, <3>1, <3>2, <3>3
  <2> QED BY <2>1, <2>2
<1>5. DOMAIN left = DOMAIN f /\ left = [i \in 1 .. n |-> left[i]]
  BY <1>3
<1> HIDE DEF left
<1>6. left \in Seq(Seq(RcLines))
  BY <1>3, <1>4, <1>5
<1>7. /\ FlattenSeq(left) \in Seq(RcLines)
      /\ \A x : InSeq(FlattenSeq(left), x) <=> \E i \in DOMAIN left : InSeq(left[i], x)
  BY <1>6, FlattenHolds
<1>8. ASSUME NEW u, InSeq(FlattenSeq(left), u) PROVE Has(f, u)
  BY <1>4, <1>5, <1>7, <1>8 DEF Has
<1>9. ASSUME NEW u \in OwnLines, Has(f, u) PROVE InSeq(FlattenSeq(left), u) \/ u \in Inside(f)
  <2>1. PICK i \in DOMAIN f : f[i] = u
    BY <1>9 DEF Has
  <2>2. CASE outside(i)
    <3> HIDE DEF outside
    <3> QED BY <1>4, <1>5, <1>7, <2>1, <2>2
  <2>3. CASE ~outside(i)
    <3>1. f[i] # <<"snippet", "end">>
      BY <2>1, OwnIsNotOurs DEF Blocks
    <3>2. PICK k \in 1 .. i : f[k] = <<"snippet", "begin">> /\ \A m \in k .. i - 1 : f[m] # <<"snippet", "end">>
      BY <2>3, <3>1
    <3>3. \A m \in k .. i : m = i \/ m \in k .. i - 1
      BY <1>3
    <3>4. \A m \in k .. i : f[m] # <<"snippet", "end">>
      BY <3>1, <3>2, <3>3
    <3> QED BY <2>1, <3>2, <3>4 DEF Inside, Blocks
  <2> QED BY <2>2, <2>3
<1> QED BY <1>1, <1>7, <1>8, <1>9 DEF Has, InSeq

LEMMA InsideIsIn == ASSUME NEW f PROVE \A u \in Inside(f) : Has(f, u)
BY DEF Inside, Has

LEMMA OneMore ==
    ASSUME NEW f \in Seq(RcLines), NEW x \in RcLines
    PROVE  Append(f, x) \in Seq(RcLines) /\ \A y : Has(Append(f, x), y) <=> Has(f, y) \/ y = x
<1>1. PICK n \in Nat : n = Len(f)
  BY LenProperties
<1>2. /\ Append(f, x) \in Seq(RcLines) /\ DOMAIN Append(f, x) = 1 .. n + 1 /\ DOMAIN f = 1 .. n
      /\ Append(f, x)[n + 1] = x /\ \A k \in 1 .. n : Append(f, x)[k] = f[k]
  BY <1>1
<1>3. \A k : k \in 1 .. n + 1 <=> k \in 1 .. n \/ k = n + 1
  BY <1>1
<1> QED BY <1>2, <1>3, Zenon DEF Has

LEMMA RcStarts == UserInstallInit => RcInv
<1> SUFFICES ASSUME UserInstallInit PROVE RcInv
  OBVIOUS
<1>1. PICK own \in OwnLines : rc \in {<<>>, <<own>>}
  BY DEF UserInstallInit
<1>2. rc \in Seq(RcLines)
  <2>1. own \in RcLines
    BY DEF RcLines
  <2>2. <<>> \in Seq(RcLines) /\ <<own>> \in Seq(RcLines)
    BY <2>1
  <2> QED BY <1>1, <2>2
<1>3. put = ToSet(rc) /\ put \subseteq OwnLines /\ \A u : Has(rc, u) <=> u \in put
  <2>1. put = ToSet(rc)
    BY DEF UserInstallInit
  <2>2. \A u : Has(rc, u) <=> u \in put
    BY <2>1 DEF ToSet, Has
  <2>3. put \subseteq OwnLines
    BY <1>1, <2>1 DEF ToSet
  <2> QED BY <2>1, <2>2, <2>3
<1>4. Inside(rc) = {}
  <2>1. \A k \in DOMAIN rc, b \in Blocks : rc[k] # <<b, "begin">>
    BY <1>1, OwnIsNotOurs
  <2>2. \A j \in DOMAIN rc : \A k \in 1 .. j : k \in DOMAIN rc
    BY <1>2, LenProperties
  <2> QED BY <2>1, <2>2 DEF Inside
<1>5. UserInstallTypeOK
  BY <1>2, <1>3 DEF UserInstallInit, UserInstallTypeOK, RcLines
<1>6. \A p \in Installers : installer[p] = NoInstaller
  BY DEF UserInstallInit
<1>7. NoInstaller.op = "idle" /\ NoInstaller.todo = <<>> /\ NoInstaller.at = 0
  BY DEF NoInstaller
<1>8. \A p \in Installers : /\ Waiting(installer[p]) /\ CopyStands(installer[p])
                            /\ BlockStands(installer[p])
  BY <1>6, <1>7 DEF Waiting, CopyStands, BlockStands, Copying, Emptying
<1>9. installer = [p \in Installers |-> installer[p]]
  BY DEF UserInstallInit
<1> QED BY <1>3, <1>4, <1>5, <1>8, <1>9 DEF RcInv, OwnStand, InsideStand, NoneMissing

LEMMA SameReasons ==
    ASSUME NEW f, put' = put, late' = late, enclosed \subseteq enclosed'
    PROVE  /\ (OwnStand(f) => OwnStand(f)') /\ (InsideStand(f) => InsideStand(f)')
           /\ (NoneMissing(f) => NoneMissing(f)')
BY DEF OwnStand, InsideStand, NoneMissing, Inside, Has

\* A copy stays good when no line is put there or late.
LEMMA CopyLasts ==
    ASSUME NEW e, put' = put, late' = late, enclosed \subseteq enclosed', mangled => mangled', CopyStands(e)
    PROVE  CopyStands(e)'
<1>1. PICK g : g = e.copy
  OBVIOUS
<1>2. /\ (OwnStand(g) => OwnStand(g)') /\ (InsideStand(g) => InsideStand(g)')
      /\ (NoneMissing(g) => NoneMissing(g)')
  BY SameReasons
<1> QED BY <1>1, <1>2 DEF CopyStands, Copying, Emptying, TaskOf

\* One process goes on; the others' copies are as good as they were.
LEMMA TaskMoves ==
    ASSUME RcInv, NEW p \in Installers, NEW e, installer' = [installer EXCEPT ![p] = e],
           Waiting(e), CopyStands(e)', BlockStands(e), UserInstallTypeOK',
           put' = put, late' = late, enclosed \subseteq enclosed', mangled => mangled',
           OwnStand(rc)', InsideStand(rc)',
           mangled' \/ Emptying(e) \/ (\E q \in Installers \ {p} : Emptied(q)) \/ NoneMissing(rc)'
    PROVE  RcInv'
<1>1. /\ installer'[p] = e /\ \A q \in Installers : q # p => installer'[q] = installer[q]
      /\ installer' = [q \in Installers |-> installer'[q]]
  BY DEF RcInv
<1>2. \A q \in Installers : /\ Waiting(installer'[q]) /\ BlockStands(installer'[q])
                            /\ q # p => CopyStands(installer'[q])
  BY <1>1 DEF RcInv
<1>3. \A f : CopyStands(f) => CopyStands(f)'
  BY CopyLasts
<1>4. \A q \in Installers : /\ Waiting(installer[q])' /\ CopyStands(installer[q])'
                            /\ BlockStands(installer[q])'
  <2> TAKE q \in Installers
  <2>1. PICK f : f = installer'[q]
    OBVIOUS
  <2>2. Waiting(f) /\ CopyStands(f)' /\ BlockStands(f)
    BY <1>1, <1>2, <1>3, <2>1
  <2> QED BY <2>1, <2>2 DEF Waiting, CopyStands, BlockStands
<1>5. \A q \in Installers : Emptied(q)' <=> Emptying(installer'[q])
  BY DEF Emptied, Emptying, Now, TaskOf
<1>6. mangled' \/ (\E q \in Installers : Emptied(q)') \/ NoneMissing(rc)'
  <2>1. ASSUME NEW q \in Installers \ {p}, Emptied(q) PROVE Emptied(q)'
    BY <1>1, <1>5, <2>1, NowIsTask
  <2>2. Emptying(e) => Emptied(p)'
    BY <1>1, <1>5
  <2> QED BY <2>1, <2>2
<1> QED BY <1>1, <1>4, <1>6 DEF RcInv

\* What a process without a copy of the file is.
LEMMA NoCopy ==
    ASSUME NEW e, ~Copying(e), ~Emptying(e)
    PROVE  CopyStands(e) /\ BlockStands(e)
BY DEF CopyStands, BlockStands, Copying

LEMMA StepsAside ==
    ASSUME RcInv, NEW p \in Installers, NEW e, installer' = [installer EXCEPT ![p] = e],
           Waiting(e), ~Copying(e), ~Emptying(e),
           rc' = rc, put' = put, late' = late, enclosed' = enclosed,
           mangled => mangled', mangled' \in BOOLEAN, mangled' \/ ~Emptied(p),
           shims' \in [ShimNames -> {"none", "cut", "whole"}], foreign' \in BOOLEAN, binary' \in BOOLEAN
    PROVE  RcInv'
<1>1. UserInstallTypeOK'
  BY DEF RcInv, UserInstallTypeOK
<1>2. OwnStand(rc)' /\ InsideStand(rc)' /\ (NoneMissing(rc) => NoneMissing(rc)')
  BY DEF RcInv, OwnStand, InsideStand, NoneMissing, Inside, Has
<1>3. mangled' \/ (\E q \in Installers \ {p} : Emptied(q)) \/ NoneMissing(rc)'
  BY <1>2 DEF RcInv
<1>4. CopyStands(e) /\ BlockStands(e)
  BY NoCopy
<1>5. CopyStands(e)'
  BY <1>4, CopyLasts
<1> QED BY <1>1, <1>2, <1>3, <1>4, <1>5, TaskMoves

LEMMA Writes ==
    ASSUME RcInv, NEW p \in Installers, NEW e, installer' = [installer EXCEPT ![p] = e],
           Waiting(e), CopyStands(e), BlockStands(e),
           NEW f \in Seq(RcLines), OwnStand(f), WriteRc(f),
           put' = put, late' = late, mangled => mangled', mangled' \in BOOLEAN,
           shims' \in [ShimNames -> {"none", "cut", "whole"}], foreign' \in BOOLEAN, binary' \in BOOLEAN,
           mangled' \/ Emptying(e) \/ (\E q \in Installers \ {p} : Emptied(q)) \/ NoneMissing(f)
    PROVE  RcInv'
<1>1. rc' = f /\ enclosed' = enclosed \cup (Inside(f) \cap OwnLines)
  BY DEF WriteRc
<1>2. enclosed' \subseteq put
  <2>1. \A u \in Inside(f) \cap OwnLines : u \in put
    BY InsideIsIn DEF OwnStand
  <2> QED BY <1>1, <2>1 DEF RcInv, UserInstallTypeOK
<1>3. UserInstallTypeOK'
  BY <1>1, <1>2 DEF RcInv, UserInstallTypeOK, RcLines
<1>4. OwnStand(rc)' /\ InsideStand(rc)'
  <2>1. Inside(rc)' = Inside(f)
    BY <1>1 DEF Inside
  <2> QED BY <1>1, <2>1 DEF OwnStand, InsideStand, Has
<1>5. NoneMissing(f) => NoneMissing(rc)'
  BY <1>1 DEF NoneMissing, Has
<1>6. CopyStands(e)'
  BY <1>1, CopyLasts
<1> QED BY <1>1, <1>3, <1>4, <1>5, <1>6, TaskMoves

-----------------------------------------------------------------------------
LEMMA OwnEditStep == ASSUME RcInv, NEW u \in OwnLines, OwnEdit(u) PROVE RcInv'
<1>1. PICK f : f = Append(rc, u)
  OBVIOUS
<1>2. /\ rc' = f /\ enclosed' = enclosed \cup (Inside(f) \cap OwnLines) /\ put' = put \cup {u}
      /\ late' = IF \E p \in Installers : Held(p) \/ Emptied(p) THEN late \cup {u} ELSE late
      /\ shims' = shims /\ foreign' = foreign /\ binary' = binary /\ installer' = installer
      /\ mangled' = mangled
  BY <1>1 DEF OwnEdit, WriteRc
<1>3. f \in Seq(RcLines) /\ \A y : Has(f, y) <=> Has(rc, y) \/ y = u
  <2>1. rc \in Seq(RcLines) /\ u \in RcLines
    BY DEF RcInv, UserInstallTypeOK, RcLines
  <2> QED BY <1>1, <2>1, OneMore
<1>4. enclosed' \subseteq put'
  <2>1. \A y \in Inside(f) \cap OwnLines : y \in put'
    BY <1>2, <1>3, InsideIsIn DEF RcInv, OwnStand
  <2> QED BY <1>2, <2>1 DEF RcInv, UserInstallTypeOK
<1>5. UserInstallTypeOK'
  BY <1>2, <1>3, <1>4 DEF RcInv, UserInstallTypeOK, RcLines
<1>6. OwnStand(rc)' /\ InsideStand(rc)'
  <2>1. \A y \in OwnLines : Has(f, y) => y \in put'
    BY <1>2, <1>3 DEF RcInv, OwnStand
  <2>2. Inside(rc)' = Inside(f)
    BY <1>2 DEF Inside
  <2> QED BY <1>2, <2>1, <2>2 DEF OwnStand, InsideStand, Has
<1>7. ASSUME NEW p \in Installers
      PROVE  Waiting(installer[p])' /\ CopyStands(installer[p])' /\ BlockStands(installer[p])'
  <2>1. PICK e : e = installer[p]
    OBVIOUS
  <2>2. Waiting(e) /\ CopyStands(e) /\ BlockStands(e)
    BY <2>1 DEF RcInv
  <2>3. Copying(e) \/ Emptying(e) => u \in late'
    BY <1>2, <2>1, NowIsTask
  <2>4. late \subseteq late' /\ enclosed \subseteq enclosed'
    BY <1>2
  <2>5. CopyStands(e)'
    <3>1. OwnStand(e.copy) => OwnStand(e.copy)'
      BY <1>2 DEF OwnStand, Has
    <3>2. InsideStand(e.copy) => InsideStand(e.copy)'
      BY <2>4 DEF InsideStand, Inside
    <3>3. NoneMissing(e.copy) /\ u \in late' => NoneMissing(e.copy)'
      BY <1>2, <2>4 DEF NoneMissing, Has
    <3> QED BY <1>2, <2>2, <2>3, <3>1, <3>2, <3>3 DEF CopyStands, Copying, Emptying, TaskOf
  <2> QED BY <1>2, <2>1, <2>2, <2>5 DEF Waiting, CopyStands, BlockStands
<1>8. mangled' \/ (\E p \in Installers : Emptied(p)') \/ NoneMissing(rc)'
  <2>1. NoneMissing(rc) => NoneMissing(rc)'
    <3>1. NoneMissing(rc) => \A y \in put' : Has(f, y) \/ y \in late' \cup enclosed'
      BY <1>2, <1>3 DEF NoneMissing
    <3> QED BY <1>2, <3>1 DEF NoneMissing, Has
  <2>2. \A p \in Installers : Emptied(p) => Emptied(p)'
    BY <1>2 DEF Emptied, Now
  <2> QED BY <1>2, <2>1, <2>2 DEF RcInv
<1> QED BY <1>2, <1>5, <1>6, <1>7, <1>8 DEF RcInv

LEMMA BeginStep ==
    ASSUME RcInv, NEW p \in Installers, NEW op, op # "idle", NEW todo, Begin(p, op, todo) PROVE RcInv'
<1>1. PICK e : e = [op |-> op, todo |-> todo, at |-> 0, copy |-> <<>>]
  OBVIOUS
<1>2. /\ installer' = [installer EXCEPT ![p] = e] /\ installer[p].op = "idle"
      /\ rc' = rc /\ put' = put /\ late' = late /\ enclosed' = enclosed /\ mangled' = mangled
      /\ shims' = shims /\ foreign' = foreign /\ binary' = binary
  BY <1>1 DEF Begin
<1>3. ~Emptied(p)
  BY <1>2 DEF RcInv, Waiting, Emptied, Now
<1>4. Waiting(e) /\ ~Copying(e) /\ ~Emptying(e)
  BY <1>1 DEF Waiting, Copying, Emptying
<1>5. /\ mangled' \in BOOLEAN /\ shims' \in [ShimNames -> {"none", "cut", "whole"}]
      /\ foreign' \in BOOLEAN /\ binary' \in BOOLEAN
  BY <1>2 DEF RcInv, UserInstallTypeOK
<1> QED BY <1>2, <1>3, <1>4, <1>5, StepsAside

\* What a process becomes that goes on with its command.
LEMMA Proceeds ==
    ASSUME RcInv, NEW p \in Installers, Now(p) # "none", NEW todo, NEW at, NEW copy, Proceed(p, todo, at, copy)
    PROVE  \E e : /\ installer' = [installer EXCEPT ![p] = e] /\ Waiting(e)
                  /\ e.todo = todo /\ e.at = at /\ e.copy = copy
<1>1. PICK e : e = [op |-> installer[p].op, todo |-> todo, at |-> at, copy |-> copy]
  OBVIOUS
<1>2. installer[p].op # "idle"
  BY DEF RcInv, Waiting, Now
<1>3. /\ e.todo = todo /\ e.at = at /\ e.copy = copy /\ Waiting(e)
  BY <1>1, <1>2 DEF Waiting
<1>4. installer' = [installer EXCEPT ![p] = e]
  BY <1>1 DEF Proceed
<1> QED BY <1>3, <1>4, Zenon

\* A step that is not about the rc file, and ends a task or goes on with it.
LEMMA OtherTask ==
    ASSUME RcInv, NEW p \in Installers, Now(p) \in {"shims", "dropShims", "binary", "home"},
           NextTask(p) \/ \E n : GoOn(p, n, <<>>),
           RcKept, mangled' = mangled,
           shims' \in [ShimNames -> {"none", "cut", "whole"}], foreign' \in BOOLEAN, binary' \in BOOLEAN
    PROVE  RcInv'
<1>1. /\ rc' = rc /\ put' = put /\ late' = late /\ enclosed' = enclosed
      /\ mangled' \in BOOLEAN /\ ~Emptied(p) /\ Now(p) # "none"
  BY DEF RcKept, RcInv, UserInstallTypeOK, Emptied
<1>2. PICK e : /\ installer' = [installer EXCEPT ![p] = e] /\ Waiting(e)
               /\ ~Copying(e) /\ ~Emptying(e)
  <2>1. CASE NextTask(p)
    <3>1. PICK e : /\ installer' = [installer EXCEPT ![p] = e] /\ Waiting(e) /\ e.at = 0
      BY <1>1, <2>1, Proceeds DEF NextTask
    <3>2. ~Copying(e) /\ ~Emptying(e)
      BY <3>1 DEF Copying, Emptying
    <3> QED BY <3>1, <3>2, Zenon
  <2>2. CASE \E n : GoOn(p, n, <<>>)
    <3>1. PICK n : GoOn(p, n, <<>>)
      BY <2>2
    <3>2. PICK e : /\ installer' = [installer EXCEPT ![p] = e] /\ Waiting(e)
                   /\ e.todo = installer[p].todo
      BY <1>1, <3>1, Proceeds DEF GoOn
    <3>3. TaskOf(e) = Now(p)
      BY <3>2 DEF TaskOf, Now
    <3> QED BY <3>2, <3>3 DEF Copying, Emptying
  <2> QED BY <2>1, <2>2
<1> QED BY <1>1, <1>2, StepsAside

LEMMA WriteShimStep == ASSUME RcInv, NEW p \in Installers, WriteShim(p) \/ RemoveShim(p) PROVE RcInv'
<1>1. /\ Now(p) \in {"shims", "dropShims"} /\ RcKept /\ mangled' = mangled
      /\ foreign' = foreign /\ binary' = binary
      /\ NextTask(p) \/ \E n : GoOn(p, n, <<>>)
      /\ \E x : shims' = [shims EXCEPT ![x] = "whole"] \/ shims' = [shims EXCEPT ![x] = "none"]
  BY DEF WriteShim, RemoveShim
<1>2. /\ shims' \in [ShimNames -> {"none", "cut", "whole"}] /\ foreign' \in BOOLEAN /\ binary' \in BOOLEAN
  BY <1>1 DEF RcInv, UserInstallTypeOK
<1> QED BY <1>1, <1>2, OtherTask

LEMMA HomeStep == ASSUME RcInv, NEW p \in Installers, CopyBinary(p) \/ RemoveHome(p) PROVE RcInv'
<1>1. /\ Now(p) \in {"binary", "home"} /\ RcKept /\ mangled' = mangled /\ NextTask(p)
  BY DEF CopyBinary, RemoveHome
<1>2. /\ shims' \in [ShimNames -> {"none", "cut", "whole"}] /\ foreign' \in BOOLEAN /\ binary' \in BOOLEAN
  BY DEF CopyBinary, RemoveHome, RcInv, UserInstallTypeOK
<1> QED BY <1>1, <1>2, OtherTask

LEMMA RunSetupStep == ASSUME RcInv, NEW p \in Installers, NEW yes, RunSetup(p, yes) PROVE RcInv'
<1>1. /\ Now(p) = "setup" /\ Proceed(p, SetupTodo(yes), 0, <<>>)
      /\ rc' = rc /\ put' = put /\ late' = late /\ enclosed' = enclosed /\ mangled' = mangled
      /\ shims' = shims /\ foreign' = foreign /\ binary' = binary
  BY DEF RunSetup, RcKept
<1>2. PICK e : installer' = [installer EXCEPT ![p] = e] /\ Waiting(e) /\ e.at = 0
  BY <1>1, Proceeds
<1>3. ~Copying(e) /\ ~Emptying(e) /\ ~Emptied(p)
  BY <1>1, <1>2 DEF Copying, Emptying, Emptied
<1>4. /\ mangled' \in BOOLEAN /\ shims' \in [ShimNames -> {"none", "cut", "whole"}]
      /\ foreign' \in BOOLEAN /\ binary' \in BOOLEAN
  BY <1>1 DEF RcInv, UserInstallTypeOK
<1> QED BY <1>1, <1>2, <1>3, <1>4, StepsAside

LEMMA QuitMeans ==
    ASSUME NEW p \in Installers, Quit(p)
    PROVE  \E e : /\ installer' = [installer EXCEPT ![p] = e] /\ Waiting(e)
                  /\ ~Copying(e) /\ ~Emptying(e)
<1>1. NoInstaller.op = "idle" /\ NoInstaller.todo = <<>> /\ NoInstaller.at = 0
  BY DEF NoInstaller
<1>2. Waiting(NoInstaller) /\ ~Copying(NoInstaller) /\ ~Emptying(NoInstaller)
  BY <1>1 DEF Waiting, Copying, Emptying
<1> QED BY <1>2 DEF Quit

LEMMA NextMeans ==
    ASSUME RcInv, NEW p \in Installers, Now(p) # "none", NextTask(p)
    PROVE  \E e : /\ installer' = [installer EXCEPT ![p] = e] /\ Waiting(e)
                  /\ ~Copying(e) /\ ~Emptying(e)
<1>1. PICK e : /\ installer' = [installer EXCEPT ![p] = e] /\ Waiting(e) /\ e.at = 0
  BY Proceeds DEF NextTask
<1>2. ~Copying(e) /\ ~Emptying(e)
  BY <1>1 DEF Copying, Emptying
<1> QED BY <1>1, <1>2, Zenon

LEMMA InstallerEndsStep == ASSUME RcInv, NEW p \in Installers, InstallerEnds(p) PROVE RcInv'
<1>1. /\ installer[p].todo = <<>> /\ Quit(p)
      /\ rc' = rc /\ put' = put /\ late' = late /\ enclosed' = enclosed /\ mangled' = mangled
      /\ shims' = shims /\ foreign' = foreign /\ binary' = binary
  BY DEF InstallerEnds, RcKept
<1>2. PICK e : /\ installer' = [installer EXCEPT ![p] = e] /\ Waiting(e)
               /\ ~Copying(e) /\ ~Emptying(e)
  BY <1>1, QuitMeans
<1>3. ~Emptied(p)
  BY <1>1 DEF Emptied, Now
<1>4. /\ mangled' \in BOOLEAN /\ shims' \in [ShimNames -> {"none", "cut", "whole"}]
      /\ foreign' \in BOOLEAN /\ binary' \in BOOLEAN
  BY <1>1 DEF RcInv, UserInstallTypeOK
<1> QED BY <1>1, <1>2, <1>3, <1>4, StepsAside

LEMMA ReadRcStep == ASSUME RcInv, NEW p \in Installers, ReadRc(p) PROVE RcInv'
<1> DEFINE b == BlockOf(Now(p))
<1>1. /\ Now(p) \in {"path", "bin", "snippet", "dropPath", "dropBin", "dropSnippet"}
      /\ installer[p].at = 0
      /\ mangled' = (mangled \/ \E q \in Installers : Emptied(q))
      /\ rc' = rc /\ put' = put /\ late' = late /\ enclosed' = enclosed
      /\ shims' = shims /\ foreign' = foreign /\ binary' = binary
  BY DEF ReadRc, RcKept
<1>2. \/ Quit(p) \/ NextTask(p)
      \/ /\ GoOn(p, 1, rc)
         /\ Now(p) \in {"dropPath", "dropBin"} => Has(rc, <<b, "begin">>) /\ ~HalfBlock(rc, b)
  <2> HIDE DEF b
  <2>1. \/ Quit(p) \/ NextTask(p)
        \/ Now(p) \in {"path", "bin", "snippet"} /\ GoOn(p, 1, rc)
        \/ /\ Now(p) \in {"dropPath", "dropBin"} /\ Has(rc, <<b, "begin">>) /\ ~HalfBlock(rc, b)
           /\ GoOn(p, 1, rc)
        \/ Now(p) = "dropSnippet" /\ GoOn(p, 1, rc)
    BY DEF ReadRc, b
  <2> QED BY <2>1
<1> HIDE DEF b
<1>3. /\ mangled' \in BOOLEAN /\ (mangled => mangled') /\ (mangled' \/ ~Emptied(p)) /\ Now(p) # "none"
      /\ shims' \in [ShimNames -> {"none", "cut", "whole"}] /\ foreign' \in BOOLEAN /\ binary' \in BOOLEAN
  BY <1>1 DEF RcInv, UserInstallTypeOK
<1>4. CASE Quit(p) \/ NextTask(p)
  <2>1. PICK e : /\ installer' = [installer EXCEPT ![p] = e] /\ Waiting(e)
                 /\ ~Copying(e) /\ ~Emptying(e)
    BY <1>3, <1>4, QuitMeans, NextMeans
  <2> QED BY <1>1, <1>3, <2>1, StepsAside
<1>5. CASE GoOn(p, 1, rc) /\ (Now(p) \in {"dropPath", "dropBin"} => Has(rc, <<b, "begin">>) /\ ~HalfBlock(rc, b))
  <2>1. PICK e : /\ installer' = [installer EXCEPT ![p] = e] /\ Waiting(e)
                 /\ e.todo = installer[p].todo /\ e.at = 1 /\ e.copy = rc
    BY <1>3, <1>5, Proceeds DEF GoOn
  <2>2. TaskOf(e) = Now(p)
    BY <2>1 DEF TaskOf, Now
  <2>3. BlockStands(e)
    BY <1>5, <2>1, <2>2 DEF BlockStands, b
  <2>4. UserInstallTypeOK'
    BY <1>1, <1>3 DEF RcInv, UserInstallTypeOK
  <2>5. /\ OwnStand(rc)' /\ InsideStand(rc)' /\ OwnStand(rc) /\ InsideStand(rc)
        /\ (NoneMissing(rc) => NoneMissing(rc)')
    <3>1. Inside(rc)' = Inside(rc)
      BY <1>1 DEF Inside
    <3> QED BY <1>1, <3>1 DEF RcInv, OwnStand, InsideStand, NoneMissing, Has
  <2>6. mangled' \/ NoneMissing(rc)
    BY <1>1 DEF RcInv
  <2>7. CopyStands(e)'
    <3>1. PICK f : f = rc
      OBVIOUS
    <3>2. f \in Seq(RcLines) /\ OwnStand(f)' /\ InsideStand(f)' /\ (mangled' \/ NoneMissing(f)')
      <4>1. f \in Seq(RcLines) /\ OwnStand(f) /\ InsideStand(f) /\ (mangled' \/ NoneMissing(f))
        BY <2>5, <2>6, <3>1 DEF RcInv, UserInstallTypeOK, RcLines
      <4>2. put' = put /\ late' = late /\ enclosed \subseteq enclosed'
        BY <1>1
      <4> QED BY <4>1, <4>2, SameReasons
    <3>3. e.copy = f
      BY <2>1, <3>1
    <3> QED BY <3>2, <3>3 DEF CopyStands
  <2>8. mangled' \/ NoneMissing(rc)'
    BY <2>5, <2>6
  <2> QED BY <1>1, <1>3, <2>1, <2>3, <2>4, <2>5, <2>7, <2>8, TaskMoves
<1> QED BY <1>2, <1>4, <1>5

\* What a task that holds a copy of the file knows of it.
LEMMA CopyKnown ==
    ASSUME RcInv, NEW p \in Installers, Held(p) \/ Emptied(p)
    PROVE  /\ installer[p].copy \in Seq(RcLines)
           /\ OwnStand(installer[p].copy) /\ InsideStand(installer[p].copy)
           /\ mangled \/ NoneMissing(installer[p].copy)
<1>1. PICK e : e = installer[p]
  OBVIOUS
<1>2. CopyStands(e) /\ (Copying(e) \/ Emptying(e))
  BY <1>1, NowIsTask DEF RcInv
<1>3. /\ e.copy \in Seq(RcLines) /\ OwnStand(e.copy) /\ InsideStand(e.copy)
      /\ mangled \/ NoneMissing(e.copy)
  BY <1>2 DEF CopyStands
<1> QED BY <1>1, <1>3

\* Lines that are not the user's are behind a file.
LEMMA StillAll ==
    ASSUME NEW f, NEW g, \A u \in OwnLines : Has(g, u) <=> Has(f, u), put \subseteq OwnLines
    PROVE  (OwnStand(f) => OwnStand(g)) /\ (NoneMissing(f) => NoneMissing(g))
BY DEF OwnStand, NoneMissing

LEMMA RenameRcStep == ASSUME RcInv, NEW p \in Installers, RenameRc(p) PROVE RcInv'
<1>1. PICK c : c = installer[p].copy
  OBVIOUS
<1>2. PICK f : f = IF Now(p) = "path" THEN c \o Block("path") ELSE Without(c, BlockOf(Now(p)))
  OBVIOUS
<1>3. /\ Now(p) \in {"path", "dropPath", "dropBin"} /\ installer[p].at = 1
      /\ WriteRc(f) /\ NextTask(p)
      /\ put' = put /\ late' = late /\ mangled' = mangled
      /\ shims' = shims /\ foreign' = foreign /\ binary' = binary
  BY <1>1, <1>2 DEF RenameRc
<1>4. c \in Seq(RcLines) /\ OwnStand(c) /\ InsideStand(c) /\ (mangled \/ NoneMissing(c))
  <2>1. Held(p)
    BY <1>3 DEF Held
  <2> QED BY <1>1, <2>1, CopyKnown
<1>5. put \subseteq OwnLines
  BY DEF RcInv, UserInstallTypeOK
<1>6. f \in Seq(RcLines) /\ OwnStand(f) /\ (NoneMissing(c) => NoneMissing(f))
  <2>1. CASE Now(p) = "path"
    <3>1. f = c \o Block("path")
      BY <1>2, <2>1
    <3>2. /\ Block("path") \in Seq(RcLines)
          /\ \A n \in DOMAIN Block("path") : Block("path")[n] \notin OwnLines
      BY BlockHolds, LenProperties DEF Blocks
    <3>3. f \in Seq(RcLines) /\ \A u \in OwnLines : Has(f, u) <=> Has(c, u)
      BY <1>4, <3>1, <3>2, LinesAppended
    <3> QED BY <1>4, <1>5, <3>3, StillAll
  <2>2. CASE Now(p) \in {"dropPath", "dropBin"}
    <3>1. PICK b \in Blocks : b = BlockOf(Now(p))
      BY <2>2 DEF BlockOf, Blocks
    <3>2. f = Without(c, b)
      BY <1>2, <2>2, <3>1
    <3>3. Has(c, <<b, "begin">>) /\ ~HalfBlock(c, b)
      <4>1. PICK e : e = installer[p]
        OBVIOUS
      <4>2. BlockStands(e) /\ e.at = 1 /\ TaskOf(e) = Now(p) /\ e.copy = c
        BY <1>1, <1>3, <4>1, NowIsTask DEF RcInv
      <4> QED BY <2>2, <3>1, <4>2 DEF BlockStands
    <3>4. /\ f \in Seq(RcLines) /\ \A u : Has(f, u) => Has(c, u)
          /\ \A u \in OwnLines : Has(c, u) => Has(f, u) \/ u \in Inside(c)
      BY <1>4, <3>2, <3>3, WithoutHolds
    <3> QED BY <1>4, <1>5, <3>4 DEF OwnStand, NoneMissing, InsideStand
  <2> QED BY <1>3, <2>1, <2>2
<1>7. PICK e : /\ installer' = [installer EXCEPT ![p] = e] /\ Waiting(e)
               /\ ~Copying(e) /\ ~Emptying(e)
  BY <1>3, NextMeans
<1>8. CopyStands(e) /\ BlockStands(e)
  BY <1>7, NoCopy
<1>9. /\ mangled' \in BOOLEAN /\ shims' \in [ShimNames -> {"none", "cut", "whole"}]
      /\ foreign' \in BOOLEAN /\ binary' \in BOOLEAN /\ (mangled' \/ NoneMissing(f))
  BY <1>3, <1>4, <1>6 DEF RcInv, UserInstallTypeOK
<1> QED BY <1>3, <1>6, <1>7, <1>8, <1>9, Writes

\* A process appends lines that are not the user's.
LEMMA Appends ==
    ASSUME RcInv, NEW p \in Installers, ~Emptied(p),
           NEW e, installer' = [installer EXCEPT ![p] = e], Waiting(e), ~Copying(e), ~Emptying(e),
           NEW g \in Seq(RcLines), \A n \in DOMAIN g : g[n] \notin OwnLines, WriteRc(rc \o g),
           put' = put, late' = late, mangled => mangled', mangled' \in BOOLEAN,
           shims' \in [ShimNames -> {"none", "cut", "whole"}], foreign' \in BOOLEAN, binary' \in BOOLEAN
    PROVE  RcInv'
<1>1. PICK f : f = rc \o g
  OBVIOUS
<1>2. rc \in Seq(RcLines) /\ put \subseteq OwnLines /\ OwnStand(rc)
  BY DEF RcInv, UserInstallTypeOK, RcLines
<1>3. f \in Seq(RcLines) /\ \A u \in OwnLines : Has(f, u) <=> Has(rc, u)
  BY <1>1, <1>2, LinesAppended
<1>4. OwnStand(f) /\ (NoneMissing(rc) => NoneMissing(f))
  BY <1>2, <1>3 DEF OwnStand, NoneMissing
<1>5. mangled' \/ (\E q \in Installers \ {p} : Emptied(q)) \/ NoneMissing(f)
  BY <1>4 DEF RcInv
<1>6. CopyStands(e) /\ BlockStands(e)
  BY NoCopy
<1>7. WriteRc(f)
  BY <1>1
<1> QED BY <1>3, <1>4, <1>5, <1>6, <1>7, Writes

LEMMA AppendSnippetStep == ASSUME RcInv, NEW p \in Installers, AppendSnippet(p) PROVE RcInv'
<1>1. PICK g : g = Block("snippet")
  OBVIOUS
<1>2. /\ Now(p) = "snippet" /\ WriteRc(rc \o g) /\ NextTask(p)
      /\ put' = put /\ late' = late /\ mangled' = mangled
      /\ shims' = shims /\ foreign' = foreign /\ binary' = binary
  BY <1>1 DEF AppendSnippet
<1>3. PICK e : /\ installer' = [installer EXCEPT ![p] = e] /\ Waiting(e)
               /\ ~Copying(e) /\ ~Emptying(e)
  BY <1>2, NextMeans
<1>4. g \in Seq(RcLines) /\ \A n \in DOMAIN g : g[n] \notin OwnLines
  BY <1>1, BlockHolds, LenProperties DEF Blocks
<1>5. /\ mangled' \in BOOLEAN /\ shims' \in [ShimNames -> {"none", "cut", "whole"}]
      /\ foreign' \in BOOLEAN /\ binary' \in BOOLEAN /\ ~Emptied(p)
  BY <1>2 DEF RcInv, UserInstallTypeOK, Emptied
<1> QED BY <1>2, <1>3, <1>4, <1>5, Appends

LEMMA AppendBinLineStep == ASSUME RcInv, NEW p \in Installers, AppendBinLine(p) PROVE RcInv'
<1>1. PICK n : n = installer[p].at
  OBVIOUS
<1>2. PICK x : x = Block("bin")[n]
  OBVIOUS
<1>3. /\ Now(p) = "bin" /\ n \in 1 .. 3 /\ WriteRc(Append(rc, x))
      /\ NextTask(p) \/ GoOn(p, n + 1, <<>>)
      /\ put' = put /\ late' = late /\ mangled' = mangled
      /\ shims' = shims /\ foreign' = foreign /\ binary' = binary
  BY <1>1, <1>2 DEF AppendBinLine
<1>4. x \in RcLines /\ x \notin OwnLines
  BY <1>2, <1>3, BlockHolds DEF Blocks
<1>5. rc \in Seq(RcLines) /\ <<x>> \in Seq(RcLines) /\ Append(rc, x) = rc \o <<x>>
      /\ \A k \in DOMAIN <<x>> : <<x>>[k] \notin OwnLines
  BY <1>4 DEF RcInv, UserInstallTypeOK, RcLines
<1>6. WriteRc(rc \o <<x>>)
  BY <1>3, <1>5
<1>7. PICK e : /\ installer' = [installer EXCEPT ![p] = e] /\ Waiting(e)
               /\ ~Copying(e) /\ ~Emptying(e)
  <2>1. CASE NextTask(p)
    BY <1>3, <2>1, NextMeans
  <2>2. CASE GoOn(p, n + 1, <<>>)
    <3>1. PICK e : /\ installer' = [installer EXCEPT ![p] = e] /\ Waiting(e)
                   /\ e.todo = installer[p].todo
      BY <1>3, <2>2, Proceeds DEF GoOn
    <3>2. TaskOf(e) = "bin"
      BY <1>3, <3>1 DEF TaskOf, Now
    <3> QED BY <3>1, <3>2 DEF Copying, Emptying
  <2> QED BY <1>3, <2>1, <2>2
<1>8. /\ mangled' \in BOOLEAN /\ shims' \in [ShimNames -> {"none", "cut", "whole"}]
      /\ foreign' \in BOOLEAN /\ binary' \in BOOLEAN /\ ~Emptied(p)
  BY <1>3 DEF RcInv, UserInstallTypeOK, Emptied
<1>9. PICK g : g = <<x>>
  OBVIOUS
<1> QED BY <1>3, <1>5, <1>6, <1>7, <1>8, <1>9, Appends

LEMMA EmptyRcStep == ASSUME RcInv, NEW p \in Installers, EmptyRc(p) PROVE RcInv'
<1>1. PICK c : c = installer[p].copy
  OBVIOUS
<1>2. /\ Now(p) = "dropSnippet" /\ installer[p].at = 1 /\ WriteRc(<<>>) /\ GoOn(p, 2, c)
      /\ put' = put /\ late' = late /\ mangled' = mangled
      /\ shims' = shims /\ foreign' = foreign /\ binary' = binary
  BY <1>1 DEF EmptyRc
<1>3. c \in Seq(RcLines) /\ OwnStand(c) /\ InsideStand(c) /\ (mangled \/ NoneMissing(c))
  <2>1. Held(p)
    BY <1>2 DEF Held
  <2> QED BY <1>1, <2>1, CopyKnown
<1>4. PICK e : /\ installer' = [installer EXCEPT ![p] = e] /\ Waiting(e)
               /\ e.todo = installer[p].todo /\ e.at = 2 /\ e.copy = c
  BY <1>2, Proceeds DEF GoOn
<1>5. TaskOf(e) = "dropSnippet"
  BY <1>2, <1>4 DEF TaskOf, Now
<1>6. Emptying(e) /\ CopyStands(e) /\ BlockStands(e)
  BY <1>3, <1>4, <1>5 DEF Emptying, CopyStands, BlockStands
<1>7. PICK f : f = <<>>
  OBVIOUS
<1>8. f \in Seq(RcLines) /\ OwnStand(f) /\ WriteRc(f)
  BY <1>2, <1>7 DEF OwnStand, Has
<1>9. /\ mangled' \in BOOLEAN /\ shims' \in [ShimNames -> {"none", "cut", "whole"}]
      /\ foreign' \in BOOLEAN /\ binary' \in BOOLEAN
  BY <1>2 DEF RcInv, UserInstallTypeOK
<1> QED BY <1>2, <1>4, <1>6, <1>8, <1>9, Writes

LEMMA FillRcStep == ASSUME RcInv, NEW p \in Installers, FillRc(p) PROVE RcInv'
<1>1. PICK c : c = installer[p].copy
  OBVIOUS
<1>2. PICK k : k = OutsideSnippet(c)
  OBVIOUS
<1>3. PICK t : t = SubSeq(rc, Len(k) + 1, Len(rc))
  OBVIOUS
<1>4. /\ Now(p) = "dropSnippet" /\ installer[p].at = 2 /\ WriteRc(k \o t) /\ NextTask(p)
      /\ mangled' = (mangled \/ rc # <<>>) /\ put' = put /\ late' = late
      /\ shims' = shims /\ foreign' = foreign /\ binary' = binary
  BY <1>1, <1>2, <1>3 DEF FillRc
<1>5. c \in Seq(RcLines) /\ OwnStand(c) /\ InsideStand(c) /\ (mangled \/ NoneMissing(c))
  <2>1. Emptied(p)
    BY <1>4 DEF Emptied
  <2> QED BY <1>1, <2>1, CopyKnown
<1>6. /\ k \in Seq(RcLines) /\ \A u : Has(k, u) => Has(c, u)
      /\ \A u \in OwnLines : Has(c, u) => Has(k, u) \/ u \in Inside(c)
  BY <1>2, <1>5, OutsideHolds
<1>7. rc \in Seq(RcLines) /\ put \subseteq OwnLines /\ OwnStand(rc)
  BY DEF RcInv, UserInstallTypeOK, RcLines
<1>8. t \in Seq(RcLines) /\ \A u : InSeq(t, u) => Has(rc, u)
  <2>1. PICK r : r = rc
    OBVIOUS
  <2>2. PICK n \in Nat : n = Len(r)
    BY <1>7, <2>1, LenProperties
  <2>3. PICK i \in Nat : i = Len(k)
    BY <1>6, LenProperties
  <2>4. r \in Seq(RcLines) /\ t = SubSeq(r, i + 1, n) /\ DOMAIN r = 1 .. n
    BY <1>3, <1>7, <2>1, <2>2, <2>3, LenProperties
  <2>5. CASE i <= n
    <3>1. /\ t \in Seq(RcLines) /\ Len(t) = n - i /\ n - i \in Nat
          /\ \A j \in 1 .. n - i : t[j] = r[i + j]
      BY <2>2, <2>4, <2>5, SliceHolds
    <3>2. \A j \in 1 .. n - i : i + j \in 1 .. n
      BY <2>5
    <3>3. DOMAIN t = 1 .. n - i
      BY <3>1, LenProperties
    <3> QED BY <2>1, <2>4, <3>1, <3>2, <3>3 DEF InSeq, Has
  <2>6. CASE ~(i <= n)
    <3>1. t = <<>>
      BY <2>4, <2>6, SubSeqEmpty
    <3> QED BY <3>1 DEF InSeq
  <2> QED BY <2>5, <2>6
<1>9. PICK f : f = k \o t
  OBVIOUS
<1>10. f \in Seq(RcLines) /\ \A u : Has(f, u) <=> Has(k, u) \/ InSeq(t, u)
  <2>1. f \in Seq(RcLines) /\ \A u : InSeq(f, u) <=> InSeq(k, u) \/ InSeq(t, u)
    BY <1>6, <1>8, <1>9, ConcatHolds
  <2>2. \A g, u : Has(g, u) <=> InSeq(g, u)
    BY DEF InSeq, Has
  <2> QED BY <2>1, <2>2
<1>11. OwnStand(f)
  BY <1>5, <1>6, <1>7, <1>8, <1>10 DEF OwnStand
<1>12. NoneMissing(c) => NoneMissing(f)
  BY <1>5, <1>6, <1>7, <1>10 DEF NoneMissing, InsideStand
<1>13. PICK e : /\ installer' = [installer EXCEPT ![p] = e] /\ Waiting(e)
                /\ ~Copying(e) /\ ~Emptying(e)
  BY <1>4, NextMeans
<1>14. CopyStands(e) /\ BlockStands(e)
  BY <1>13, NoCopy
<1>15. /\ mangled' \in BOOLEAN /\ shims' \in [ShimNames -> {"none", "cut", "whole"}]
       /\ foreign' \in BOOLEAN /\ binary' \in BOOLEAN /\ (mangled => mangled')
       /\ mangled' \/ NoneMissing(f)
  BY <1>4, <1>5, <1>12 DEF RcInv, UserInstallTypeOK
<1>16. WriteRc(f)
  BY <1>4, <1>9
<1> QED BY <1>4, <1>10, <1>11, <1>13, <1>14, <1>15, <1>16, Writes

LEMMA InstallerStopsStep == ASSUME RcInv, NEW p \in Installers, InstallerStops(p) PROVE RcInv'
<1>1. PICK n : n = installer[p].at
  OBVIOUS
<1>2. /\ Quit(p) /\ mangled' = (mangled \/ Emptied(p)) /\ put' = put /\ late' = late
      /\ shims' = IF Now(p) = "shims" THEN [shims EXCEPT ![Shims[n + 1]] = "cut"] ELSE shims
      /\ foreign' = foreign /\ binary' = binary
      /\ \/ /\ Now(p) = "snippet"
            /\ \E m \in 1 .. 2 : WriteRc(rc \o SubSeq(Block("snippet"), 1, m))
         \/ rc' = rc /\ enclosed' = enclosed
  BY <1>1 DEF InstallerStops
<1>3. PICK e : /\ installer' = [installer EXCEPT ![p] = e] /\ Waiting(e)
               /\ ~Copying(e) /\ ~Emptying(e)
  BY <1>2, QuitMeans
<1>4. /\ mangled' \in BOOLEAN /\ (mangled => mangled') /\ (mangled' \/ ~Emptied(p))
      /\ shims' \in [ShimNames -> {"none", "cut", "whole"}] /\ foreign' \in BOOLEAN /\ binary' \in BOOLEAN
  <2>1. mangled \in BOOLEAN /\ Emptied(p) \in BOOLEAN
    BY DEF RcInv, UserInstallTypeOK, Emptied
  <2>2. mangled' \in BOOLEAN /\ (mangled => mangled') /\ (mangled' \/ ~Emptied(p))
    BY <1>2, <2>1
  <2>3. shims' \in [ShimNames -> {"none", "cut", "whole"}]
    BY <1>2 DEF RcInv, UserInstallTypeOK
  <2> QED BY <1>2, <2>2, <2>3 DEF RcInv, UserInstallTypeOK
<1>5. CASE rc' = rc /\ enclosed' = enclosed
  BY <1>2, <1>3, <1>4, <1>5, StepsAside
<1>6. CASE Now(p) = "snippet" /\ \E m \in 1 .. 2 : WriteRc(rc \o SubSeq(Block("snippet"), 1, m))
  <2>1. PICK m \in 1 .. 2 : WriteRc(rc \o SubSeq(Block("snippet"), 1, m))
    BY <1>6
  <2>2. PICK b : b = Block("snippet")
    OBVIOUS
  <2>3. PICK g : g = SubSeq(b, 1, m)
    OBVIOUS
  <2>4. b \in Seq(RcLines) /\ Len(b) = 3 /\ \A k \in 1 .. 3 : b[k] \in RcLines /\ b[k] \notin OwnLines
    BY <2>2, BlockHolds DEF Blocks
  <2>5. g \in Seq(RcLines) /\ \A k \in DOMAIN g : g[k] \notin OwnLines
    <3>1. Len(g) = m /\ g \in Seq(RcLines) /\ \A k \in 1 .. m : g[k] = b[k]
      BY <2>3, <2>4
    <3>2. \A k \in 1 .. m : k \in 1 .. 3
      OBVIOUS
    <3> QED BY <2>4, <3>1, <3>2, LenProperties
  <2>6. WriteRc(rc \o g) /\ ~Emptied(p)
    BY <1>6, <2>1, <2>2, <2>3 DEF Emptied
  <2> QED BY <1>2, <1>3, <1>4, <2>5, <2>6, Appends
<1> QED BY <1>2, <1>5, <1>6

LEMMA StartsStep ==
    ASSUME RcInv, NEW p \in Installers,
           \/ \E yes : Setup(p, yes)
           \/ \E op \in {"install", "uninstall", "installStrict", "uninstallStrict"} : Shell(p, op)
           \/ \E keep : Purge(p, keep)
           \/ RunInstallSh(p)
    PROVE  RcInv'
<1>1. ASSUME NEW yes, Setup(p, yes) PROVE RcInv'
  <2>1. PICK todo : Begin(p, "setup", todo)
    BY <1>1 DEF Setup
  <2> QED BY <2>1, BeginStep
<1>2. ASSUME NEW op \in {"install", "uninstall", "installStrict", "uninstallStrict"}, Shell(p, op)
      PROVE  RcInv'
  <2>1. PICK todo : Begin(p, op, todo)
    BY <1>2 DEF Shell
  <2> QED BY <2>1, BeginStep
<1>3. ASSUME NEW keep, Purge(p, keep) PROVE RcInv'
  <2>1. PICK op, todo : op # "idle" /\ Begin(p, op, todo)
    BY <1>3 DEF Purge
  <2> QED BY <2>1, BeginStep
<1>4. CASE RunInstallSh(p)
  BY <1>4, BeginStep DEF RunInstallSh
<1> QED BY <1>1, <1>2, <1>3, <1>4

LEMMA RcStays == RcInv /\ [UserInstallNext]_installVars => RcInv'
<1> SUFFICES ASSUME RcInv, [UserInstallNext]_installVars PROVE RcInv'
  OBVIOUS
<1>1. CASE UNCHANGED installVars
  <2>1. /\ UserInstallTypeOK' /\ OwnStand(rc)' /\ InsideStand(rc)'
        /\ installer' = installer /\ mangled' = mangled
        /\ mangled' \/ (\E p \in Installers : Emptied(p)') \/ NoneMissing(rc)'
    <3>1. Inside(rc)' = Inside(rc)
      BY <1>1 DEF Inside, installVars
    <3>2. UserInstallTypeOK' /\ installer' = installer /\ mangled' = mangled
      BY <1>1 DEF RcInv, UserInstallTypeOK, installVars
    <3>3. OwnStand(rc)' /\ InsideStand(rc)' /\ (NoneMissing(rc) => NoneMissing(rc)')
      BY <1>1, <3>1 DEF RcInv, installVars, OwnStand, InsideStand, NoneMissing, Has
    <3>4. \A p \in Installers : Emptied(p)' <=> Emptied(p)
      BY <3>2 DEF Emptied, Now
    <3> QED BY <3>2, <3>3, <3>4 DEF RcInv
  <2>2. put' = put /\ late' = late /\ enclosed' = enclosed
    BY <1>1 DEF installVars
  <2>3. ASSUME NEW p \in Installers
        PROVE  Waiting(installer[p])' /\ CopyStands(installer[p])' /\ BlockStands(installer[p])'
    <3>1. PICK e : e = installer[p]
      OBVIOUS
    <3>2. Waiting(e) /\ CopyStands(e) /\ BlockStands(e)
      BY <3>1 DEF RcInv
    <3>3. CopyStands(e)'
      BY <2>1, <2>2, <3>2, CopyLasts
    <3> QED BY <2>1, <3>1, <3>2, <3>3 DEF Waiting, CopyStands, BlockStands
  <2> QED BY <2>1, <2>3 DEF RcInv
<1>2. CASE \E u \in OwnLines : OwnEdit(u)
  BY <1>2, OwnEditStep
<1>3. ASSUME NEW p \in Installers,
             \/ \E yes \in SUBSET {"shims", "path", "snippet"} : Setup(p, yes) \/ RunSetup(p, yes)
             \/ \E op \in {"install", "uninstall", "installStrict", "uninstallStrict"} : Shell(p, op)
             \/ \E keep \in BOOLEAN : Purge(p, keep)
             \/ RunInstallSh(p)
             \/ WriteShim(p) \/ RemoveShim(p) \/ CopyBinary(p) \/ RemoveHome(p)
             \/ ReadRc(p) \/ RenameRc(p) \/ AppendSnippet(p) \/ AppendBinLine(p)
             \/ EmptyRc(p) \/ FillRc(p)
             \/ InstallerEnds(p) \/ InstallerStops(p)
      PROVE  RcInv'
  <2>1. ASSUME NEW yes, Setup(p, yes) \/ RunSetup(p, yes) PROVE RcInv'
    BY <2>1, StartsStep, RunSetupStep
  <2>2. CASE \/ \E op \in {"install", "uninstall", "installStrict", "uninstallStrict"} : Shell(p, op)
             \/ \E keep \in BOOLEAN : Purge(p, keep)
             \/ RunInstallSh(p)
    BY <2>2, StartsStep
  <2>3. CASE WriteShim(p) \/ RemoveShim(p)
    BY <2>3, WriteShimStep
  <2>4. CASE CopyBinary(p) \/ RemoveHome(p)
    BY <2>4, HomeStep
  <2>5. CASE ReadRc(p)
    BY <2>5, ReadRcStep
  <2>6. CASE RenameRc(p)
    BY <2>6, RenameRcStep
  <2>7. CASE AppendSnippet(p)
    BY <2>7, AppendSnippetStep
  <2>8. CASE AppendBinLine(p)
    BY <2>8, AppendBinLineStep
  <2>9. CASE EmptyRc(p)
    BY <2>9, EmptyRcStep
  <2>10. CASE FillRc(p)
    BY <2>10, FillRcStep
  <2>11. CASE InstallerEnds(p)
    BY <2>11, InstallerEndsStep
  <2>12. CASE InstallerStops(p)
    BY <2>12, InstallerStopsStep
  <2> QED
    BY <1>3, <2>1, <2>2, <2>3, <2>4, <2>5, <2>6, <2>7, <2>8, <2>9, <2>10, <2>11, <2>12
<1> QED BY <1>1, <1>2, <1>3 DEF UserInstallNext

LEMMA RcHolds == UserInstallSpec => []RcInv
BY RcStarts, RcStays, PTL DEF UserInstallSpec

\* The rc file is a sequence of lines, the user's and those of our three blocks, and what is
\* said of it as history is about lines the user put there, whatever setup.go, purge.go and
\* installer.go do at one time, and wherever they stop.
THEOREM InstallTypeCorrect == UserInstallSpec => []UserInstallTypeOK
<1>1. RcInv => UserInstallTypeOK
  BY DEF RcInv
<1> QED BY <1>1, RcHolds, PTL

\* The user's lines survive (UserLinesKept), for any number of processes that install and
\* remove at one time, any lines and shims: a copy an installer works from has every line
\* that was in the file, and what came since is late.
THEOREM UserLinesKeptCorrect == UserInstallSpec => []UserLinesKept
<1>1. RcInv => UserLinesKept
  BY DEF RcInv, UserLinesKept, NoneMissing
<1> QED BY <1>1, RcHolds, PTL
=============================================================================
