--------------------------- MODULE StickyComment ---------------------------
(***************************************************************************)
(* Delivery of a queued notification at the forge: which repository and    *)
(* which pull request it is taken to, which comment there is rewritten,    *)
(* and when the record counts as delivered.                                *)
(*                                                                         *)
(* NotifRail has the rail of one branch, its files and its crashes.  Here  *)
(* are several repositories, whose upstreams the operator may change, with *)
(* the forge's lists, its pages, its people and its two kinds of API.  A   *)
(* comment is the record it shows; its rendering, the attempts and the     *)
(* mentions are left out.                                                  *)
(***************************************************************************)
EXTENDS Naturals, Sequences, FiniteSets, SequencesExt

CONSTANTS Mirrored,      \* the gateway's repositories
          Urls,          \* upstreams; each has its repository at a forge
          GitHubUrls,    \* those that isGitHubURL takes for GitHub's
          PrefixPairs,   \* <<u, v>>: u, as a string, is a proper prefix of v
          FirstUpstream, \* repository -> its upstream at first
          FirstPulls,    \* upstream -> its pull requests at first
          PullPage,      \* pull requests in the page Gitea answers with
          ScanPage,      \* comments in the page GitHub answers with
          MaxDeliveries, \* DeliveryMaxAttempts
          MaxNotices, MaxForgeEvents, MaxForgeFaults  \* bounds

\* Pull requests come from a branch of the repository, from a branch of the same name in a
\* fork, or from another branch.
Origins == {"own", "fork", "other"}

ASSUME StickyAssumption ==
    /\ GitHubUrls \subseteq Urls
    /\ PrefixPairs \subseteq Urls \X Urls
    /\ \A u \in Urls : <<u, u>> \notin PrefixPairs
    /\ FirstUpstream \in [Mirrored -> Urls]
    /\ FirstPulls \in [Urls -> Seq([from : Origins, open : BOOLEAN])]
    /\ {PullPage, ScanPage, MaxDeliveries} \subseteq Nat \ {0}

VARIABLES upstreamOf,  \* repository -> the upstream its policy names
          movedRepos,  \* those whose upstream was changed (history)
          pulls,       \* upstream -> its pull requests, the number is the index
          remarks,     \* upstream -> its comments, the identifier is the index
          stickyOf,    \* loops: <<repository, pull request, identifier in the state or 0>>
          notices,     \* the records queued so far
          pending,     \* the numbers of those still in the queue
          courier,     \* the daemon's pass and the delivery in progress
          taken,       \* records removed as delivered (history)
          forgeEvents, forgeFaults

stickyVars == <<upstreamOf, movedRepos, pulls, remarks, stickyOf, notices, pending, courier,
                taken, forgeEvents, forgeFaults>>
forge == <<pulls, remarks>>
upstreams == <<upstreamOf, movedRepos>>

NoParcel == [pc |-> "idle", todo |-> {}, urls |-> {}, rec |-> 0, url |-> "none", pull |-> 0,
             target |-> 0, owed |-> FALSE, told |-> FALSE, excused |-> FALSE]

StickyInit ==
    /\ upstreamOf = FirstUpstream /\ movedRepos = {}
    /\ pulls = FirstPulls
    /\ remarks = [u \in Urls |-> <<>>]
    /\ stickyOf = {}
    /\ notices = <<>> /\ pending = {}
    /\ courier = NoParcel
    /\ taken = {}
    /\ forgeEvents = 0 /\ forgeFaults = 0

-----------------------------------------------------------------------------
(* The registry. *)

\* Variant: every adapter answers for its host, and all are of one.
AdaptersOfHost(url, urls) == urls

\* LookupByURL: an adapter whose URL is a prefix of the record's, the first in the order of the
\* map.
Adapters(url, urls) == {u \in urls : u = url \/ <<u, url>> \in PrefixPairs}

(* What the forge answers. *)

OpenPulls(u) == {n \in DOMAIN pulls[u] : pulls[u][n].open}

\* The newest pull requests fill the page.
FirstPage(u) == {n \in OpenPulls(u) : Cardinality({m \in OpenPulls(u) : m > n}) < PullPage}

Newest(ns) == {n \in ns : \A m \in ns : m <= n}
Oldest(ns) == {n \in ns : \A m \in ns : m >= n}

\* Gitea lists every open pull request; the branch's name is compared, not its owner.
PullOnGitea(u) == Newest({n \in FirstPage(u) : pulls[u][n].from \in {"own", "fork"}})

\* GitHub filters by owner and branch.
PullOnGitHub(u) == Newest({n \in OpenPulls(u) : pulls[u][n].from = "own"})

PullFor(u) == IF u \in GitHubUrls THEN PullOnGitHub(u) ELSE PullOnGitea(u)

RemarksOn(u, n) == {i \in DOMAIN remarks[u] : remarks[u][i].pull = n /\ ~remarks[u][i].gone}

\* Variant: a comment that names the gate.
MarkedByName(c) == TRUE

Marked(c) == c.marker

\* Gitea answers with all comments of the issue.
MarkedOnGitea(u, n) == Newest({i \in RemarksOn(u, n) : Marked(remarks[u][i])})

\* GitHub answers with its first page, the oldest comments.
MarkedOnGitHub(u, n) ==
    Newest({i \in RemarksOn(u, n) :
              /\ Marked(remarks[u][i])
              /\ Cardinality({j \in RemarksOn(u, n) : j < i}) < ScanPage})

MarkedOn(u, n) == IF u \in GitHubUrls THEN MarkedOnGitHub(u, n) ELSE MarkedOnGitea(u, n)

\* FindStickyComment asks by the identifier alone, in any pull request of the repository.
FindSticky(u, id) == {i \in DOMAIN remarks[u] : i = id /\ ~remarks[u][i].gone}

LoopOf(r, n) == {x \in stickyOf : x[1] = r /\ x[2] = n}
StickyId(r, n) == {x[3] : x \in LoopOf(r, n)} \ {0}

-----------------------------------------------------------------------------
Parcel == notices[courier.rec]

Notice(r, event, n) ==
    [repo |-> r, url |-> upstreamOf[r], event |-> event, loop |-> n, tries |-> 0,
     sticky |-> IF event = "resolved" THEN StickyId(r, n) ELSE {}]

\* A rejected push; the pull request is found at delivery.
NotifyReject(r) ==
    /\ Len(notices) < MaxNotices
    /\ notices' = Append(notices, Notice(r, "rejected", 0))
    /\ pending' = pending \cup {Len(notices')}
    /\ UNCHANGED <<upstreams, forge, stickyOf, courier, taken, forgeEvents, forgeFaults>>

\* In the order of their files.
LoopsFrom(r) == SetToSeq({x[2] : x \in {y \in stickyOf : y[1] = r}})

\* A clean push: one record for each loop of the branch, with the identifier of its comment.
\* The loops' states and the rejections not yet delivered are removed.
NotifyResolved(r) ==
    LET over == LoopsFrom(r)
    IN  /\ over # <<>> /\ Len(notices) + Len(over) <= MaxNotices
        /\ notices' = notices \o [i \in DOMAIN over |-> Notice(r, "resolved", over[i])]
        /\ pending' = {n \in pending : notices[n].repo = r => notices[n].event = "resolved"}
                         \cup (DOMAIN notices' \ DOMAIN notices)
        /\ stickyOf' = {x \in stickyOf : x[1] # r}
        /\ UNCHANGED <<upstreams, forge, courier, taken, forgeEvents, forgeFaults>>

\* A tick: adapters are made for the upstreams as the policies name them now, and the queue is
\* read.
BeginPass ==
    /\ courier.pc = "idle" /\ courier.todo = {} /\ pending # {}
    /\ courier' = [NoParcel EXCEPT !.todo = pending, !.urls = {upstreamOf[r] : r \in Mirrored}]
    /\ UNCHANGED <<upstreams, forge, stickyOf, notices, pending, taken, forgeEvents, forgeFaults>>

Between(pc) == [NoParcel EXCEPT !.todo = courier.todo, !.urls = courier.urls]

\* A delivery that failed is counted; at the limit the record is moved to the deadletter.
GiveUp ==
    LET tries == Parcel.tries + 1
    IN  /\ notices' = [notices EXCEPT ![courier.rec].tries = tries]
        /\ pending' = IF tries >= MaxDeliveries THEN pending \ {courier.rec} ELSE pending
        /\ courier' = Between("idle")
        /\ UNCHANGED <<upstreams, forge, stickyOf, taken, forgeEvents>>

TakeRecord ==
    /\ courier.pc = "idle"
    /\ \E n \in Oldest(courier.todo) :
         courier' = [courier EXCEPT !.pc = "find", !.rec = n, !.todo = @ \ {n}]
    /\ UNCHANGED <<upstreams, forge, stickyOf, notices, pending, taken, forgeEvents, forgeFaults>>

\* No adapter for the record's upstream: it has been changed, or its rail switched off.
NoAdapter ==
    /\ courier.pc = "find" /\ Adapters(Parcel.url, courier.urls) = {}
    /\ GiveUp
    /\ UNCHANGED forgeFaults

OwnPulls(u) == {n \in OpenPulls(u) : pulls[u][n].from = "own"}

\* FindPRForRef.  Without a pull request only the webhook remains.  The record is owed to the
\* branch's own pull request; missing it is excused when on Gitea others stand before it, or
\* when another repository's adapter was taken.
FindPull(u) ==
    /\ courier.pc = "find" /\ u \in Adapters(Parcel.url, courier.urls)
    /\ LET found == PullFor(u)
       IN  courier' =
             [courier EXCEPT
                !.url = u, !.pull = IF found = {} THEN 0 ELSE CHOOSE n \in found : TRUE,
                !.pc = IF found = {} THEN "webhook" ELSE "look",
                !.owed = OwnPulls(Parcel.url) # {},
                !.excused = \/ u # Parcel.url
                            \/ u \notin GitHubUrls /\ found \cap OwnPulls(u) = {}]
    /\ UNCHANGED <<upstreams, forge, stickyOf, notices, pending, taken, forgeEvents, forgeFaults>>

\* A rejection takes the identifier from the loop's state, a resolution from its record.
KnownId ==
    IF Parcel.event = "resolved" THEN Parcel.sticky ELSE StickyId(Parcel.repo, courier.pull)

\* A resolution is owed to the comment of its loop.
CommentOf(n) ==
    {i \in RemarksOn(courier.url, n) :
       remarks[courier.url][i].by = "gate" /\ remarks[courier.url][i].repo = Parcel.repo}

BeyondScan ==
    courier.url \in GitHubUrls /\ Cardinality(RemarksOn(courier.url, courier.pull)) > ScanPage

\* By the marker the comment is looked for on the newest pull request only.
Elsewhere == courier.pull # Parcel.loop

\* By identifier, then by marker.  A lookup that fails is taken for one that finds nothing.
LookUp(failing) ==
    /\ courier.pc = "look"
    /\ forgeFaults' = forgeFaults + Cardinality(failing)
    /\ forgeFaults' <= MaxForgeFaults
    /\ LET byId == IF "id" \in failing THEN {} ELSE UNION {FindSticky(courier.url, i) : i \in KnownId}
           marked == IF "scan" \in failing THEN {} ELSE MarkedOn(courier.url, courier.pull)
           found == IF byId # {} THEN byId ELSE marked
           resolves == Parcel.event = "resolved"
           mayMiss == failing # {} \/ BeyondScan \/ (byId = {} /\ Elsewhere)
       IN  courier' = [courier EXCEPT !.pc = "write",
                                      !.target = IF found = {} THEN 0 ELSE CHOOSE i \in found : TRUE,
                                      !.owed = @ /\ (resolves => CommentOf(Parcel.loop) # {}),
                                      !.excused = @ \/ (resolves /\ mayMiss)]
    /\ UNCHANGED <<upstreams, forge, stickyOf, notices, pending, taken, forgeEvents>>

\* Comment: what it shows, and the hidden data that begins with the marker.
Comment(by, n) ==
    [pull |-> n, by |-> by, shows |-> courier.rec, about |-> Parcel.url, repo |-> Parcel.repo,
     marker |-> TRUE, gone |-> FALSE]

\* Variant: a comment deleted meanwhile is passed over.
DeletedNever(u, i) == FALSE

\* UpdateComment answers 404 when the comment was deleted since it was looked up.
Deleted(u, i) == remarks[u][i].gone

\* The identifiers of a repository may be another upstream's: its own was changed, or the adapter
\* of a prefix was taken.
Strayed(r, url) == r \in movedRepos \/ \E v \in Urls : <<v, url>> \in PrefixPairs

Tells(n) ==
    /\ courier.url = Parcel.url
    /\ IF Parcel.event = "resolved" THEN n = Parcel.loop
       ELSE n = courier.pull /\ pulls[courier.url][n].from = "own"

\* The loop's state is written with the identifier it has.
LoopWritten ==
    IF LoopOf(Parcel.repo, courier.pull) = {} THEN {<<Parcel.repo, courier.pull, 0>>} ELSE {}

\* The body of a comment is replaced, whoever wrote it.
UpdateComment ==
    /\ courier.pc = "write" /\ courier.target # 0
    /\ ~Deleted(courier.url, courier.target)
    /\ LET c == remarks[courier.url][courier.target]
       IN  /\ remarks' = [remarks EXCEPT ![courier.url][courier.target] =
                            [Comment(c.by, c.pull) EXCEPT !.gone = c.gone]]
           /\ courier' = [courier EXCEPT !.pc = "webhook",
                                         !.told = Tells(c.pull) /\ ~c.gone,
                                         !.excused = @ \/ Strayed(Parcel.repo, Parcel.url)]
           /\ stickyOf' = stickyOf \cup (IF Parcel.event = "rejected" THEN LoopWritten ELSE {})
    /\ UNCHANGED <<upstreams, pulls, notices, pending, taken, forgeEvents, forgeFaults>>

UpdateRefused ==
    /\ courier.pc = "write" /\ courier.target # 0
    /\ Deleted(courier.url, courier.target)
    /\ GiveUp
    /\ UNCHANGED forgeFaults

Posted ==
    remarks' = [remarks EXCEPT ![courier.url] = Append(@, Comment("gate", courier.pull))]

\* The identifier of a new comment is saved with the loop's state.
CreateComment ==
    /\ courier.pc = "write" /\ courier.target = 0 /\ Parcel.event = "rejected"
    /\ Posted
    /\ stickyOf' = (stickyOf \ LoopOf(Parcel.repo, courier.pull))
                      \cup {<<Parcel.repo, courier.pull, Len(remarks'[courier.url])>>}
    /\ courier' = [courier EXCEPT !.pc = "webhook", !.told = Tells(courier.pull)]
    /\ UNCHANGED <<upstreams, pulls, notices, pending, taken, forgeEvents, forgeFaults>>

\* A resolution without a comment to rewrite.
NothingToResolve ==
    /\ courier.pc = "write" /\ courier.target = 0 /\ Parcel.event = "resolved"
    /\ courier' = [courier EXCEPT !.pc = "webhook"]
    /\ UNCHANGED <<upstreams, forge, stickyOf, notices, pending, taken, forgeEvents, forgeFaults>>

ForgeFault == forgeFaults < MaxForgeFaults /\ forgeFaults' = forgeFaults + 1

\* A request that must succeed fails, the one for the people of the pull request included.
RequestFails ==
    /\ courier.pc \in {"find", "look", "write", "webhook"} /\ ForgeFault
    /\ GiveUp

\* The comment is there and the answer is not.
AnswerLost ==
    /\ courier.pc = "write" /\ courier.target = 0 /\ Parcel.event = "rejected"
    /\ forgeFaults < MaxForgeFaults /\ forgeFaults' = forgeFaults + 1
    /\ Posted
    /\ LET tries == Parcel.tries + 1
       IN  /\ notices' = [notices EXCEPT ![courier.rec].tries = tries]
           /\ pending' = IF tries >= MaxDeliveries THEN pending \ {courier.rec} ELSE pending
    /\ courier' = Between("idle")
    /\ UNCHANGED <<upstreams, pulls, stickyOf, taken, forgeEvents>>

\* The webhook is called and the record removed.
FireWebhook ==
    /\ courier.pc = "webhook"
    /\ pending' = pending \ {courier.rec}
    /\ taken' = taken \cup {[rec |-> courier.rec, owed |-> courier.owed, told |-> courier.told,
                             excused |-> courier.excused]}
    /\ courier' = Between("idle")
    /\ UNCHANGED <<upstreams, forge, stickyOf, notices, forgeEvents, forgeFaults>>

-----------------------------------------------------------------------------
(* The forge's people and the operator. *)

ForgeEvent == forgeEvents < MaxForgeEvents /\ forgeEvents' = forgeEvents + 1

OpenPull(u, from) ==
    /\ ForgeEvent
    /\ pulls' = [pulls EXCEPT ![u] = Append(@, [from |-> from, open |-> TRUE])]
    /\ UNCHANGED <<upstreams, remarks, stickyOf, notices, pending, courier, taken, forgeFaults>>

ClosePull(u, n) ==
    /\ ForgeEvent /\ n \in OpenPulls(u)
    /\ pulls' = [pulls EXCEPT ![u][n].open = FALSE]
    /\ UNCHANGED <<upstreams, remarks, stickyOf, notices, pending, courier, taken, forgeFaults>>

\* A person answers; a quotation in full repeats the marker.
Remark(u, n, quotes) ==
    /\ ForgeEvent /\ n \in OpenPulls(u)
    /\ remarks' = [remarks EXCEPT ![u] = Append(@, [pull |-> n, by |-> "person", shows |-> 0,
                                                    about |-> u, repo |-> "none",
                                                    marker |-> quotes, gone |-> FALSE])]
    /\ UNCHANGED <<upstreams, pulls, stickyOf, notices, pending, courier, taken, forgeFaults>>

DeleteRemark(u, i) ==
    /\ ForgeEvent /\ ~remarks[u][i].gone
    /\ remarks' = [remarks EXCEPT ![u][i].gone = TRUE]
    /\ UNCHANGED <<upstreams, pulls, stickyOf, notices, pending, courier, taken, forgeFaults>>

\* The operator gives a repository another upstream; loops keep their state.
PointUpstream(r, u) ==
    /\ ForgeEvent /\ upstreamOf[r] # u
    /\ upstreamOf' = [upstreamOf EXCEPT ![r] = u]
    /\ movedRepos' = movedRepos \cup {r}
    /\ UNCHANGED <<forge, stickyOf, notices, pending, courier, taken, forgeFaults>>

StickyNext ==
    \/ \E r \in Mirrored : NotifyReject(r) \/ NotifyResolved(r)
    \/ BeginPass \/ TakeRecord \/ NoAdapter
    \/ \E u \in Urls : FindPull(u)
    \/ \E failing \in SUBSET {"id", "scan"} : LookUp(failing)
    \/ UpdateComment \/ UpdateRefused \/ CreateComment \/ NothingToResolve
    \/ RequestFails \/ AnswerLost \/ FireWebhook
    \/ \E u \in Urls, from \in Origins : OpenPull(u, from)
    \/ \E u \in Urls : \E n \in OpenPulls(u) : ClosePull(u, n)
    \/ \E u \in Urls : \E n \in OpenPulls(u) : \E quotes \in BOOLEAN : Remark(u, n, quotes)
    \/ \E u \in Urls : \E i \in DOMAIN remarks[u] : DeleteRemark(u, i)
    \/ \E r \in Mirrored, u \in Urls : PointUpstream(r, u)

StickySpec == StickyInit /\ [][StickyNext]_stickyVars

-----------------------------------------------------------------------------
(* Properties. *)

StickyTypeOK ==
    /\ upstreamOf \in [Mirrored -> Urls] /\ movedRepos \subseteq Mirrored
    /\ pending \subseteq DOMAIN notices
    /\ courier.pc \in {"idle", "find", "look", "write", "webhook"}
    /\ courier.rec \in {0} \cup DOMAIN notices
    /\ \A u \in Urls : \A i \in DOMAIN remarks[u] : remarks[u][i].pull \in DOMAIN pulls[u]
    /\ \A x \in stickyOf : x[1] \in Mirrored
    /\ \A t \in taken : t.rec \notin pending

\* What the gate says about a push is said in the repository the push was for, however the
\* operator changes upstreams meanwhile, unless another upstream is a prefix of that one.
RightRepository ==
    \A u \in Urls : \A i \in DOMAIN remarks[u] :
       LET c == remarks[u][i] IN c.shows # 0 => c.about = u \/ <<u, c.about>> \in PrefixPairs

\* A record removed as delivered was shown on the branch's pull request, if there was one when
\* it was looked for.
TakenMeansTold == \A t \in taken : t.owed => t.told \/ t.excused

\* The gate rewrites a person's comment only when it holds the marker, quoted in full, or when
\* its identifier may be that of a comment elsewhere.
WordsKept ==
    [][\A u \in Urls : \A i \in DOMAIN remarks[u] :
          LET c == remarks[u][i]
          IN  c.by # "gate" /\ remarks'[u][i].shows # c.shows =>
                 c.marker \/ Strayed(remarks'[u][i].repo, remarks'[u][i].about)]_stickyVars

=============================================================================
