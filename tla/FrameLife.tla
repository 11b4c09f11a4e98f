------------------------------ MODULE FrameLife ------------------------------
(***************************************************************************)
(* A project's own frames, .appframes/<category>/<name>.md: `incident new` *)
(* writes a draft, `incident promote` makes a frame of it, which the user  *)
(* completes, and `frame archive` and `frame revive` take it out of use    *)
(* and back, with --move also out of its directory and into another.  Every*)
(* file is written in place, under no lock.                                *)
(*                                                                         *)
(* Left out: the words of the drafts and of the frames (the user's edits   *)
(* of a draft while it is promoted are overwritten), `frame test`, frames  *)
(* whose file has not the frame's name, and what is left when two write    *)
(* one file at one time (here, what was written last).                     *)
(***************************************************************************)
EXTENDS Naturals, Sequences, FiniteSets

CONSTANTS Directories,    \* of .appframes, in the order they are walked
          ProjectNames,   \* names of frames
          Slugs,          \* of incidents
          Authors,        \* processes at one time
          Builtin,        \* the frames the library has too
          MaxWorks,       \* bound: commands in one behaviour
          MaxDays,        \* bound: days
          MaxWorkFaults   \* bound: deaths, and commands that begin while another runs

DirSet == {Directories[i] : i \in DOMAIN Directories}
Categories == DirSet \ {"frames", "history"}
Ids == Categories \X ProjectNames
FramePlaces == DirSet \X ProjectNames
Gone == <<"gone", "gone">>

ASSUME FrameLifeAssumption ==
    /\ Directories \in Seq(STRING)
    /\ \A i, j \in DOMAIN Directories : Directories[i] = Directories[j] => i = j
    /\ {"frames", "history"} \subseteq DirSet /\ Gone \notin Ids
    /\ Builtin \subseteq Ids
    /\ {MaxWorks, MaxWorkFaults} \subseteq Nat /\ MaxDays \in Nat \ {0}

VARIABLES drafts,     \* the incidents' files, by day and slug
          own,        \* the frames' files, by directory and name
          today,
          author,     \* the processes
          had, clobbered, torn, crossed, out, aside,  \* history, see Properties
          works, workFaults

frameLifeVars == <<drafts, own, today, author, had, clobbered, torn, crossed, out, aside, works,
                   workFaults>>

\* life: none, cut (emptied, not filled), stub (it lacks what the parser asks for), active or
\* archived.
OwnFile(id, life) == [id |-> id, life |-> life]
NoOwn == OwnFile(Gone, "none")
DraftFile(status, to) == [status |-> status, to |-> to]
NoDraft == DraftFile("none", Gone)

\* What the loader makes of the directory: the first file of each id, in the order it walks.
Parses(f) == f.life \in {"active", "archived"}
Copies(id) == {l \in FramePlaces : Parses(own[l]) /\ own[l].id = id}
Rank(dir) == CHOOSE i \in DOMAIN Directories : Directories[i] = dir
Loaded(id) == CHOOSE l \in Copies(id) : \A m \in Copies(id) : Rank(l[1]) <= Rank(m[1])

\* Variant: the archived ones are dropped before the first of each id is taken.
AtCheckEarly(id) == IF \E l \in Copies(id) : own[l].life = "active" THEN "project"
                    ELSE IF id \in Builtin THEN "library" ELSE "none"

\* Whose version of a frame `check` and a push's scan use: the project's frames that are
\* archived are dropped, and the library's of that name is used again.  (A wrapped command
\* does not drop them.)
AtCheck(id) == IF Copies(id) # {} /\ own[Loaded(id)].life = "active" THEN "project"
               ELSE IF id \in Builtin THEN "library" ELSE "none"

IdleAuthor == [op |-> "idle", draft |-> <<1, "none">>, src |-> Gone, dst |-> Gone,
               new |-> NoOwn, at |-> "end", alone |-> TRUE, lost |-> FALSE]

FrameLifeInit ==
    /\ \E ids \in SUBSET Ids :
          own = [l \in FramePlaces |-> IF l \in ids THEN OwnFile(l, "active") ELSE NoOwn]
    /\ drafts = [i \in (1 .. MaxDays) \X Slugs |-> NoDraft]
    /\ today = 1
    /\ author = [p \in Authors |-> IdleAuthor]
    /\ had = {own[l].id : l \in {m \in FramePlaces : own[m] # NoOwn}}
    /\ clobbered = {} /\ torn = {} /\ crossed = {} /\ out = {} /\ aside = {}
    /\ works = 0 /\ workFaults = 0

-----------------------------------------------------------------------------
(* The beginnings: what a command reads decides what it will do.           *)

Fault == /\ workFaults < MaxWorkFaults
         /\ workFaults' = workFaults + 1

BusyWith(id) == {q \in Authors : id \in Ids /\ author[q].new.id = id}

Start(p, work) ==
    /\ author[p].op = "idle" /\ works < MaxWorks
    /\ works' = works + 1
    /\ author' = [q \in Authors |->
           CASE q = p -> [work EXCEPT !.alone = BusyWith(work.new.id) = {}]
             [] q \in BusyWith(work.new.id) -> [author[q] EXCEPT !.alone = FALSE]
             [] OTHER -> author[q]]
    /\ IF \A q \in Authors : author[q].op = "idle" THEN UNCHANGED workFaults ELSE Fault
    /\ crossed' = IF BusyWith(work.new.id) # {} THEN crossed \cup {work.new.id}
                   ELSE crossed
    /\ out' = out \ {work.new.id}
    /\ UNCHANGED <<drafts, own, today, had, clobbered, torn, aside>>

\* `incident new`, and the question after a bypass: refused when the file is there.
NewIncident(p, s) ==
    /\ drafts[<<today, s>>] = NoDraft
    /\ Start(p, [IdleAuthor EXCEPT !.op = "new", !.draft = <<today, s>>, !.at = "draft"])

\* The drafts a slug names, on whatever day they were written.
Named(s) == {i \in DOMAIN drafts : i[2] = s /\ drafts[i].status \in {"draft", "promoted"}}

\* `incident promote`: of one draft with that slug, to a place that is free.
Promote(p, s, id) ==
    /\ Cardinality(Named(s)) = 1
    /\ own[id] = NoOwn
    /\ \E i \in Named(s) :
          Start(p, [IdleAuthor EXCEPT !.op = "promote", !.draft = i, !.src = id, !.dst = id,
                                      !.new = OwnFile(id, "stub"), !.at = "open"])

Archive(p, id, move) ==
    /\ Copies(id) # {}
    /\ LET src == Loaded(id)
           dst == IF move THEN <<"history", src[2]>> ELSE src
       IN  Start(p, [IdleAuthor EXCEPT !.op = "archive", !.src = src, !.dst = dst,
                                       !.new = OwnFile(id, "archived"), !.at = "open"])

\* --move only takes a frame out of the history.
Revive(p, id, move) ==
    /\ Copies(id) # {}
    /\ LET src == Loaded(id)
           dst == IF move /\ src[1] = "history" THEN <<"frames", src[2]>> ELSE src
       IN  Start(p, [IdleAuthor EXCEPT !.op = "revive", !.src = src, !.dst = dst,
                                       !.new = OwnFile(id, "active"), !.at = "open"])

-----------------------------------------------------------------------------
(* The commands' writes.                                                   *)

At(p, step) == author[p].at = step
Moves(p) == author[p].dst # author[p].src

GoTo(p, step) == author' = [author EXCEPT ![p] = IF step = "end" THEN IdleAuthor
                                                 ELSE [@ EXCEPT !.at = step]]

\* An archive that says it is done, when nothing else worked on the frame: it is out of use.
\* --move puts the file behind those of the directories walked before the history.
Retire(p) ==
    LET id == author[p].new.id
        done == author[p].op = "archive" /\ author[p].alone
    IN  /\ out' = IF done THEN out \cup {id} ELSE out
        /\ aside' = IF done /\ Moves(p) /\ Copies(id) \ {author[p].src, author[p].dst} # {}
                    THEN aside \cup {id} ELSE aside

WriteDraft(p) ==
    /\ At(p, "draft")
    /\ drafts' = [drafts EXCEPT ![author[p].draft] = DraftFile("draft", Gone)]
    /\ GoTo(p, "end")
    /\ UNCHANGED <<own, today, had, clobbered, torn, crossed, out, aside, works, workFaults>>

\* The id of a namesake that a write or a removal at l takes away.
Victims(p, l) == {own[l].id} \ {Gone, author[p].new.id}

\* Variant: --move removes the old file before it writes the new one.
OpenFrameLast(p) ==
    LET dst == author[p].dst
    IN  /\ At(p, "open")
        /\ own' = [own EXCEPT ![author[p].src] = NoOwn,
                             ![dst] = OwnFile(author[p].new.id, "cut")]
        /\ clobbered' = clobbered \cup Victims(p, dst)
        /\ GoTo(p, "fill")
        /\ UNCHANGED <<drafts, today, had, torn, crossed, out, aside, works, workFaults>>

OpenFrame(p) ==
    LET dst == author[p].dst
    IN  /\ At(p, "open")
        /\ own' = [own EXCEPT ![dst] = OwnFile(author[p].new.id, "cut")]
        /\ clobbered' = clobbered \cup Victims(p, dst)
        /\ GoTo(p, "fill")
        /\ UNCHANGED <<drafts, today, had, torn, crossed, out, aside, works, workFaults>>

\* A file unlinked since it was opened is filled, and found nowhere.
FillFrame(p) ==
    LET w == author[p]
    IN  /\ At(p, "fill")
        /\ IF w.lost THEN UNCHANGED <<own, clobbered>>
           ELSE /\ own' = [own EXCEPT ![w.dst] = w.new]
                /\ clobbered' = clobbered \cup Victims(p, w.dst)
        /\ had' = had \cup {w.new.id}
        /\ CASE Moves(p) -> GoTo(p, "remove") /\ UNCHANGED <<out, aside>>
             [] ~Moves(p) /\ w.op = "promote" -> GoTo(p, "mark") /\ UNCHANGED <<out, aside>>
             [] OTHER -> GoTo(p, "end") /\ Retire(p)
        /\ UNCHANGED <<drafts, today, torn, crossed, works, workFaults>>

\* The file at the old place goes; when it is gone already, the command reports that.
RemoveSource(p) ==
    LET src == author[p].src
    IN  /\ At(p, "remove")
        /\ own' = [own EXCEPT ![src] = NoOwn]
        /\ clobbered' = clobbered \cup Victims(p, src)
        /\ author' = [q \in Authors |->
               IF q = p THEN IdleAuthor
               ELSE IF At(q, "fill") /\ author[q].dst = src
                    THEN [author[q] EXCEPT !.lost = TRUE] ELSE author[q]]
        /\ IF own[src] = NoOwn THEN UNCHANGED <<out, aside>> ELSE Retire(p)
        /\ UNCHANGED <<drafts, today, had, torn, crossed, works, workFaults>>

\* The draft says what became of it, only when the frame is there.
MarkDraft(p) ==
    /\ At(p, "mark")
    /\ drafts' = [drafts EXCEPT ![author[p].draft] = DraftFile("promoted", author[p].new.id)]
    /\ GoTo(p, "end")
    /\ UNCHANGED <<own, today, had, clobbered, torn, crossed, out, aside, works, workFaults>>

-----------------------------------------------------------------------------
(* The user and the clock.                                                 *)

\* The user completes a stub: then it loads.
Complete(l) ==
    /\ own[l].life = "stub"
    /\ own' = [own EXCEPT ![l].life = "active"]
    /\ out' = out \ {own[l].id}
    /\ author' = [q \in Authors |-> IF q \in BusyWith(own[l].id)
                                   THEN [author[q] EXCEPT !.alone = FALSE] ELSE author[q]]
    /\ UNCHANGED <<drafts, today, had, clobbered, torn, crossed, aside, works,
                   workFaults>>

NextDay ==
    /\ today < MaxDays
    /\ today' = today + 1
    /\ UNCHANGED <<drafts, own, author, had, clobbered, torn, crossed, out, aside, works,
                   workFaults>>

\* A process dies, or a write fails: what it had emptied stays empty.
AuthorStops(p) ==
    LET w == author[p]
    IN  /\ w.op # "idle" /\ Fault
        /\ GoTo(p, "end")
        /\ \/ UNCHANGED drafts
           \/ /\ w.at \in {"draft", "mark"}
              /\ drafts' = [drafts EXCEPT ![w.draft] = DraftFile("cut", Gone)]
        /\ torn' = IF At(p, "fill") /\ ~Moves(p) THEN torn \cup {w.new.id} ELSE torn
        /\ UNCHANGED <<own, today, had, clobbered, crossed, out, aside, works>>

FrameLifeNext ==
    \/ \E p \in Authors :
          \/ \E s \in Slugs : NewIncident(p, s) \/ \E id \in Ids : Promote(p, s, id)
          \/ \E id \in Ids, move \in BOOLEAN : Archive(p, id, move) \/ Revive(p, id, move)
          \/ WriteDraft(p) \/ OpenFrame(p) \/ FillFrame(p) \/ RemoveSource(p) \/ MarkDraft(p)
          \/ AuthorStops(p)
    \/ \E l \in FramePlaces : Complete(l)
    \/ NextDay

FrameLifeSpec == FrameLifeInit /\ [][FrameLifeNext]_frameLifeVars

FrameLifeTypeOK ==
    /\ own \in [FramePlaces -> {NoOwn} \cup [id : Ids, life : {"cut", "stub", "active", "archived"}]]
    /\ drafts \in [(1 .. MaxDays) \X Slugs ->
                      {NoDraft} \cup [status : {"cut", "draft", "promoted"}, to : Ids \cup {Gone}]]
    /\ had \cup clobbered \cup torn \cup out \cup aside \subseteq Ids

-----------------------------------------------------------------------------
(* Properties.                                                             *)

\* A frame the project had, and one an incident says it was promoted to, is still in some
\* file, in use or not (frame.go, incident.go).  Except one a namesake of another category
\* was moved over (clobbered), one rewritten in place by a command that died (torn), or that
\* is at it, and one that two commands changed at one time (crossed).
FramesKept ==
    \A id \in had \cup {drafts[i].to : i \in {j \in DOMAIN drafts : drafts[j].status = "promoted"}} :
        \/ \E l \in FramePlaces : own[l].id = id /\ own[l].life \in {"stub", "active", "archived"}
        \/ id \in clobbered \cup torn \cup crossed
        \/ \E p \in Authors : At(p, "fill") /\ author[p].new.id = id /\ ~Moves(p)

\* Once `frame archive` said so, and until a command or the user touches that frame again,
\* `check` does not use the project's version of it (check.go, loader.go), however many
\* files have its id; except one moved out of the way of a second file (aside), and one
\* whose archived file a namesake overwrote while a second was there (clobbered).
ArchivedStaysOut == \A id \in out \ (aside \cup clobbered) : AtCheck(id) # "project"
=============================================================================
