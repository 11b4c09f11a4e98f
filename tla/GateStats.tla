------------------------------ MODULE GateStats ------------------------------
(***************************************************************************)
(* The answers given from the decision log: the reports of the agent API   *)
(* (agentapi/service.go), the dashboard's /stats and the benchmark scorer, *)
(* each a few SQL statements over the index that the ingest makes of the   *)
(* audit logs.  The statements of one answer are no transaction: the index *)
(* may grow between them.  The API refreshes the index lazily, one         *)
(* question in an interval; /stats and the benchmark at every call.        *)
(*                                                                         *)
(* The index only grows here, and a log is time-ordered and never pruned   *)
(* (LogRetention has offsets, rotation and the rebuild).  A finding is     *)
(* [frame, severity, at]; its fingerprint does not include the severity.   *)
(* Left out: the API's rate guard, the three top findings of a receipt,    *)
(* hours per hit (a frame has an estimate or not), the wording.            *)
(***************************************************************************)
EXTENDS Naturals, Sequences, FiniteSets, SequencesExt, TLC

CONSTANTS RepoOrder,     \* the repositories, in the order of their audit logs' paths
          PushKinds,     \* pushes: [repo, observe, tip, found], found a sequence of findings
          Estimated,     \* frames of the standard library
          ScoredFrames,  \* [scored] of a benchmark
          Excused,       \* fingerprints its whitelist matches
          Readers,       \* requests
          BareRepos,     \* the repositories under --repos-root, links followed
          TopLimit,      \* topFramesLimit
          DefaultRows,   \* rows an answer has when no limit is given
          RowCap,        \* rows an answer of the API has at most
          Backstop,      \* rows an answer to the dashboard has at most
          MinPushes,     \* Params.MinPushes
          RefreshEvery,  \* ingestEvery, in ticks
          MaxPushes, MaxQuestions, MaxStatTicks, MaxStatFaults    \* bounds

ASSUME GateStatsAssumption ==
    /\ RepoOrder \in Seq(STRING) \ {<<>>}
    /\ \A p \in PushKinds : p.repo \in Range(RepoOrder) /\ p.found \in Seq(Range(p.found))
    /\ {TopLimit, DefaultRows, RowCap, Backstop, MinPushes, RefreshEvery} \subseteq Nat \ {0}
    /\ DefaultRows <= RowCap
    /\ {MaxPushes, MaxQuestions, MaxStatTicks, MaxStatFaults} \subseteq Nat

VARIABLES logged,        \* the audit logs: every decision, with its time
          decided,       \* the decisions table: numbers of `logged` in the order of their ids
          lastIngest,    \* when the API began its last refresh
          refresh,       \* history: what became of it
          reader,        \* the requests under way
          statClock, questions, statFaults

statVars == <<logged, decided, lastIngest, refresh, reader, statClock, questions, statFaults>>

GateRepos == Range(RepoOrder)

\* The statements behind each answer.
Statements ==
    [gateStats   |-> <<"repos", "totals", "perRepo", "topFrames">>,
     topRules    |-> <<"repos", "totals", "perRepo", "topFrames">>,
     bounceRate  |-> <<"repos", "bounceRate">>,
     recurring   |-> <<"repos", "recurring">>,
     decisions   |-> <<"repos", "decisions">>,
     timeSaved   |-> <<"repos", "prevented">>,
     whatChanged |-> <<"verdicts">>,
     stats       |-> <<"totals", "perRepo", "topFrames", "prevented", "recurring">>,
     benchmark   |-> <<"pushes">>]

IdleReader == [st |-> "idle", report |-> "none", file |-> 0, asked |-> 0, note |-> FALSE,
               excused |-> FALSE, saw |-> <<>>]

StatInit ==
    /\ logged = <<>> /\ decided = <<>>
    /\ lastIngest = 0 /\ refresh = [by |-> "none", done |-> TRUE]
    /\ reader = [r \in Readers |-> IdleReader]
    /\ statClock = RefreshEvery /\ questions = 0 /\ statFaults = 0

-----------------------------------------------------------------------------
(* The statements, over the first n rows.  A query is [repo, since], repo   *)
(* "" for all of them.                                                      *)

Severe(f) == f.severity \in {"BLOCK", "ERROR"}
Accepted(p) == p.observe \/ \A k \in DOMAIN p.found : ~Severe(p.found[k])
Fingerprint(f) == <<f.frame, f.at>>

Row(i) == logged[decided[i]]

\* whereClause.
InScope(p, q) == q.repo \in {"", p.repo} /\ p.time >= q.since

Selected(n, q) == {i \in 1 .. n : InScope(Row(i), q)}
Rejects(is) == {i \in is : ~Accepted(Row(i))}

\* findings JOIN decisions: pairs of a row and a place among its findings.
Joined(is) == UNION {{i} \X DOMAIN Row(i).found : i \in is}
Finding(o) == Row(o[1]).found[o[2]]

Totals(n, q) ==
    LET is == Selected(n, q)
    IN  [decisions |-> Cardinality(is),
         accepts   |-> Cardinality({i \in is : Accepted(Row(i))}),
         rejects   |-> Cardinality(Rejects(is)),
         repos     |-> Cardinality({Row(i).repo : i \in is})]

\* GROUP BY repo: a repository without a decision has no row.
PerRepo(n, q) ==
    LET is == Selected(n, q)
        of(r) == {i \in is : Row(i).repo = r}
    IN  [r \in {Row(i).repo : i \in is} |->
            [decisions |-> Cardinality(of(r)), rejects |-> Cardinality(Rejects(of(r)))]]

\* BounceRate: HAVING n >= ?.
BounceRate(n, q, min) ==
    LET per == PerRepo(n, q)
    IN  [r \in {x \in DOMAIN per : per[x].decisions >= min} |-> per[r]]

\* The findings by frame and severity, the most frequent first, ties by the frame.
FrameCounts(n, q) ==
    LET os == Joined(Selected(n, q))
        of(g) == {o \in os : <<Finding(o).frame, Finding(o).severity>> = g}
    IN  [g \in {<<Finding(o).frame, Finding(o).severity>> : o \in os} |-> Cardinality(of(g))]

TopFrames(n, q) ==
    LET c == FrameCounts(n, q)
        before(g) == {h \in DOMAIN c : c[h] > c[g] \/ (c[h] = c[g] /\ h[1] < g[1])}
    IN  [g \in {h \in DOMAIN c : Cardinality(before(h)) < TopLimit} |-> c[g]]

\* TopRules: the severity is chosen among the rows that are left.
TopRules(n, q, severity) ==
    LET top == TopFrames(n, q)
    IN  [g \in {h \in DOMAIN top : severity \in {"", h[2]}} |-> top[g]]

\* Recurring: GROUP BY fingerprint.  COUNT(*) counts findings, two of one push as two.
Recurring(n, q) ==
    LET os == Joined(Selected(n, q))
        of(x) == {o \in os : Fingerprint(Finding(o)) = x}
        times(x) == {Row(o[1]).time : o \in of(x)}
    IN  [x \in {Fingerprint(Finding(o)) : o \in os} |->
            [seen |-> Cardinality(of(x)), first |-> Min(times(x)), last |-> Max(times(x))]]

\* PreventedBreakdown: distinct fingerprints of findings that block, by what became of the push.
Prevented(n, q) ==
    LET os == {o \in Joined(Selected(n, q)) : Severe(Finding(o))}
        count(frame, rejected) ==
            Cardinality({Fingerprint(Finding(o)) : o \in
                {o \in os : Finding(o).frame = frame /\ Accepted(Row(o[1])) = ~rejected}})
    IN  [frame \in {Finding(o).frame : o \in os} |->
            [rejected |-> count(frame, TRUE), observed |-> count(frame, FALSE)]]

\* PreventedTime: the frames with an estimate.
TimeSaved(n, q) ==
    LET p == Prevented(n, q) IN [frame \in DOMAIN p \cap Estimated |-> p[frame]]

\* clamp: the limit a request gets; `most` is what the dashboard raises the cap to, 0 for the API.
Clamp(limit, most) ==
    LET ceiling == IF most > RowCap THEN Min({most, Backstop}) ELSE RowCap
    IN  IF limit = 0 THEN DefaultRows ELSE Min({limit, ceiling})

\* RecentDecisions: the newest, by time and then id; with a cap of its own.
Receipts(n, q, result, limit) ==
    LET is == {i \in Selected(n, q) : \/ result = ""
                                      \/ result = "accepted" /\ Accepted(Row(i))
                                      \/ result = "rejected" /\ ~Accepted(Row(i))}
        newer(i) == {j \in is : \/ Row(j).time > Row(i).time
                                \/ Row(j).time = Row(i).time /\ j > i}
    IN  {i \in is : Cardinality(newer(i)) < Min({limit, RowCap})}

\* The note that older decisions are not shown.
Capped(shown, limit) == Cardinality(shown) >= limit

\* Variant: the first push of a revision keeps the row.
TipRowFirst(n, tip) ==
    LET is == {i \in 1 .. n : Row(i).tip = tip} IN IF is = {} THEN 0 ELSE Min(is)

\* push_tips has one row for a revision, whichever repository it was pushed to: the last one
\* indexed.  A deleted ref has no tip.
TipRow(n, tip) ==
    LET is == {i \in 1 .. n : Row(i).tip = tip} IN IF is = {} THEN 0 ELSE Max(is)

\* VerdictForSHAs: 0 for a commit that is shown without one.
VerdictRow(n, repo, tip) ==
    LET i == TipRow(n, tip) IN IF i # 0 /\ Row(i).repo = repo THEN i ELSE 0

\* WhatChanged: every commit of the repositories asked about, all of them for a name that is
\* none of theirs; the verdict, if there is one.
WhatChanged(n, repo, commits) ==
    {<<r, tip, VerdictRow(n, r, tip)>> : r \in IF repo \in BareRepos THEN {repo} ELSE BareRepos,
                                         tip \in commits}

\* repoNote: a repository without a decision is answered for all.
Scope(n, repo) == IF \E i \in 1 .. n : Row(i).repo = repo THEN repo ELSE ""

\* Every push of a run of a benchmark: one repository, all its time.
RunPushes(n, repo) == Selected(n, [repo |-> repo, since |-> 0])

\* Score, for one run; one without pushes is left out.
ScoreRun(n, repo) ==
    LET pushes == RunPushes(n, repo)
        left == {o \in Joined(pushes) : Fingerprint(Finding(o)) \notin Excused}
        scored == {o \in left : Finding(o).frame \in ScoredFrames}
        clean == {i \in pushes : \A o \in scored : o[1] # i}
        on(x) == {o[1] : o \in {o \in scored : Fingerprint(Finding(o)) = x}}
    IN  [pushes      |-> Cardinality(pushes),
         scored      |-> Cardinality(scored),
         observed    |-> Cardinality(left \ scored),
         convergedAt |-> IF clean = {} THEN 0
                         ELSE Cardinality({i \in pushes : i <= Min(clean)}),
         repeated    |-> {x \in {Fingerprint(Finding(o)) : o \in scored} : Cardinality(on(x)) >= 2}]

-----------------------------------------------------------------------------
(* The log and its ingest.                                                 *)

DecisionLine(p, t) ==
    [repo |-> p.repo, observe |-> p.observe, tip |-> p.tip, found |-> p.found, time |-> t]

\* The pre-receive hook decides and appends a line.
LogDecision(p) ==
    /\ Len(logged) < MaxPushes
    /\ logged' = Append(logged, DecisionLine(p, statClock))
    /\ UNCHANGED <<decided, lastIngest, refresh, reader, statClock, questions, statFaults>>

\* What the log of a repository has that the index has not.
Unindexed(repo) ==
    FlattenSeq([i \in DOMAIN logged |->
                   IF logged[i].repo = repo /\ i \notin Range(decided) THEN <<i>> ELSE <<>>])

Due == statClock - lastIngest >= RefreshEvery

\* A question: of the API (open), or of /stats or the benchmark, which always ingest.
Ask(r, report) ==
    LET api == report \notin {"stats", "benchmark"}
        due == ~api \/ Due
    IN  /\ reader[r].st = "idle" /\ questions < MaxQuestions
        /\ questions' = questions + 1
        /\ reader' = [reader EXCEPT ![r] =
               [IdleReader EXCEPT !.st = IF due THEN "refresh" ELSE "read", !.report = report,
                    !.file = 1, !.asked = statClock, !.excused = ~due /\ ~refresh.done]]
        /\ IF api /\ due THEN /\ lastIngest' = statClock
                              /\ refresh' = [by |-> r, done |-> FALSE]
           ELSE UNCHANGED <<lastIngest, refresh>>
        /\ UNCHANGED <<logged, decided, statClock, statFaults>>

\* Variant: a log with nothing new ends the ingest.
NextFileUnlessIdle(r) ==
    IF Unindexed(RepoOrder[reader[r].file]) = <<>> THEN Len(RepoOrder) + 1 ELSE reader[r].file + 1

NextFile(r) == reader[r].file + 1

\* ingestFile: what is new in one log, in one transaction.
IngestLog(r) ==
    LET last == NextFile(r) > Len(RepoOrder)
    IN  /\ reader[r].st = "refresh"
        /\ decided' = decided \o Unindexed(RepoOrder[reader[r].file])
        /\ reader' = [reader EXCEPT ![r].file = NextFile(r),
                                    ![r].st = IF last THEN "read" ELSE "refresh"]
        /\ refresh' = IF last /\ refresh.by = r THEN [refresh EXCEPT !.done = TRUE] ELSE refresh
        /\ UNCHANGED <<logged, lastIngest, statClock, questions, statFaults>>

\* The database fails: what was committed stays, and the answer says so.  The benchmark gives up.
IngestBreaks(r) ==
    /\ reader[r].st = "refresh" /\ statFaults < MaxStatFaults
    /\ statFaults' = statFaults + 1
    /\ reader' = [reader EXCEPT ![r] = IF reader[r].report = "benchmark" THEN IdleReader
                                       ELSE [reader[r] EXCEPT !.st = "read", !.note = TRUE]]
    /\ UNCHANGED <<logged, decided, lastIngest, refresh, statClock, questions>>

-----------------------------------------------------------------------------
(* Answering.                                                              *)

Answered(r) == reader[r].st = "read" /\ Len(reader[r].saw) = Len(Statements[reader[r].report])

\* One statement, over the rows there are now.
RunStatement(r) ==
    /\ reader[r].st = "read" /\ ~Answered(r)
    /\ reader' = [reader EXCEPT ![r].saw = Append(reader[r].saw, Len(decided))]
    /\ UNCHANGED <<logged, decided, lastIngest, refresh, statClock, questions, statFaults>>

CloseAnswer(r) ==
    /\ Answered(r)
    /\ reader' = [reader EXCEPT ![r] = IdleReader]
    /\ UNCHANGED <<logged, decided, lastIngest, refresh, statClock, questions, statFaults>>

\* The dashboard, which serves the API too, stops and starts.
StatRestart ==
    /\ statFaults < MaxStatFaults
    /\ statFaults' = statFaults + 1
    /\ lastIngest' = 0
    /\ refresh' = [by |-> "none", done |-> TRUE]
    /\ reader' = [r \in Readers |-> IF reader[r].report = "benchmark" THEN reader[r] ELSE IdleReader]
    /\ UNCHANGED <<logged, decided, statClock, questions>>

StatTick ==
    /\ statClock < MaxStatTicks
    /\ statClock' = statClock + 1
    /\ UNCHANGED <<logged, decided, lastIngest, refresh, reader, questions, statFaults>>

StatNext ==
    \/ \E p \in PushKinds : LogDecision(p)
    \/ \E r \in Readers :
          \/ \E report \in DOMAIN Statements : Ask(r, report)
          \/ IngestLog(r) \/ IngestBreaks(r) \/ RunStatement(r) \/ CloseAnswer(r)
    \/ StatRestart
    \/ StatTick

StatSpec == StatInit /\ [][StatNext]_statVars

GateStatsTypeOK ==
    /\ Range(decided) \subseteq DOMAIN logged
    /\ lastIngest \in 0 .. statClock
    /\ \A r \in Readers : /\ reader[r].st \in {"idle", "refresh", "read"}
                          /\ reader[r].file \in 0 .. Len(RepoOrder) + 1
                          /\ Range(reader[r].saw) \subseteq 0 .. Len(decided)

-----------------------------------------------------------------------------
(* Properties.                                                             *)

Queries == [repo : {""} \cup GateRepos, since : 0 .. statClock]

\* What a statement of the answer saw.
Saw(r, statement) ==
    LET list == Statements[reader[r].report]
    IN  reader[r].saw[CHOOSE k \in DOMAIN list : list[k] = statement]

\* An answer without a note has every decision that was in a log a whole interval before the
\* question: of every repository, whoever did the refresh it relies on (service.go: one
\* question in an interval ingests, file by file, and others answer meanwhile).  Unless that
\* refresh was not done when the question came, still under way or broken: then the code says
\* nothing.
NotStale ==
    \A r \in Readers :
        Answered(r) /\ ~reader[r].note /\ ~reader[r].excused
        => \A i \in DOMAIN logged :
              logged[i].time + RefreshEvery <= reader[r].asked
              => \E k \in 1 .. Head(reader[r].saw) : decided[k] = i

SumOf(f, S) == FoldFunctionOnSet(LAMBDA x, y : x + y, 0, f, S)

\* The totals of the first m rows and the breakdown of the first n, which came later.
TotalsAgree(m, n, q) ==
    LET total == Totals(m, q)
        per == PerRepo(n, q)
        bounces == BounceRate(n, q, MinPushes)
        decisions == SumOf([x \in DOMAIN per |-> per[x].decisions], DOMAIN per)
        rejects == SumOf([x \in DOMAIN per |-> per[x].rejects], DOMAIN per)
    IN  /\ total.accepts + total.rejects = total.decisions
        /\ total.decisions <= decisions /\ total.rejects <= rejects
        /\ m = n => total.decisions = decisions
        /\ \A x \in DOMAIN bounces : bounces[x] = per[x]
        /\ \A limit \in 0 .. MaxPushes :
              LET shown == Receipts(n, q, "rejected", Clamp(limit, 0))
              IN  Capped(shown, Clamp(limit, 0)) \/ Cardinality(shown) = rejects

\* The top rules of the first m rows, what was prevented of n, and what recurs of l.
FindingsAgree(m, n, l, q) ==
    LET again == Recurring(l, q)
        saved == TimeSaved(n, q)
        of(frame) == {x \in DOMAIN again : x[1] = frame}
    IN  /\ \A severity \in {"", "BLOCK"} :
              LET top == TopRules(m, q, severity)
              IN  \A g \in DOMAIN top :
                     top[g] <= SumOf([x \in of(g[1]) |-> again[x].seen], of(g[1]))
        /\ \A frame \in DOMAIN saved : /\ saved[frame].rejected <= Cardinality(of(frame))
                                       /\ saved[frame].observed <= Cardinality(of(frame))

\* The verdicts shown, from the first n rows.
VerdictsAgree(n, repo) ==
    LET own(x) == {k \in 1 .. n : Row(k).repo = x[1] /\ Row(k).tip = x[2]}
    IN  \A x \in WhatChanged(n, repo, {p.tip : p \in PushKinds}) :
           IF x[3] # 0 THEN x[3] = Max(own(x))
           ELSE own(x) = {} \/ \E k \in 1 .. n : k > Max(own(x)) /\ Row(k).tip = x[2]

\* The score of a run and what recurs in it.
ScoresAgree(n, repo) ==
    LET run == ScoreRun(n, repo)
        again == Recurring(n, [repo |-> repo, since |-> 0])
    IN  /\ \A x \in run.repeated : again[x].seen >= 2
        /\ run.scored + run.observed
              = SumOf([x \in DOMAIN again |-> again[x].seen], DOMAIN again \ Excused)
        /\ run.pushes > 0 /\ run.scored = 0 => run.convergedAt = 1

\* The reports of one window agree, though each is a query of its own and the index grows
\* between the statements of one: a total never exceeds the sum of its later breakdown, and
\* equals it when nothing came in between; every rejection counted has its receipt, and every
\* repository's bounce is what /stats says; the findings of a frame are those that recur; an
\* issue counted as prevented was seen, once however often it was pushed.
\* A commit is shown with the verdict of the newest push of it to that repository, never
\* another repository's; and a list of decisions without the note of the row cap is complete
\* (of the API: the dashboard's larger limits meet the cap of the query without the note).
AnswersAgree ==
    \A r \in Readers : Answered(r) =>
        LET report == reader[r].report
        IN  /\ report \in {"gateStats", "topRules", "stats"} => \A asked \in Queries :
                  TotalsAgree(Saw(r, "totals"), Saw(r, "perRepo"),
                              IF report = "stats" THEN asked
                              ELSE [asked EXCEPT !.repo = Scope(Saw(r, "repos"), asked.repo)])
            /\ report = "stats" => \A q \in Queries :
                  FindingsAgree(Saw(r, "topFrames"), Saw(r, "prevented"), Saw(r, "recurring"), q)
            /\ report = "whatChanged" => \A repo \in GateRepos : VerdictsAgree(Saw(r, "verdicts"), repo)
            /\ report = "benchmark" => \A repo \in GateRepos : ScoresAgree(Saw(r, "pushes"), repo)

=============================================================================
