----------------------------- MODULE FramesFile -----------------------------
(***************************************************************************)
(* appframes.toml of one repository: the frames that run, the severities   *)
(* set for them, the custom checks, the hours estimates and, for the       *)
(* dashboard, the kits that were applied and the operator's own kits.      *)
(*                                                                         *)
(* Three families of requests rewrite it.  Text edits replace one array    *)
(* and keep the rest.  Policy saves (FramePolicy, LinterPolicy) render the *)
(* sections they know from one reading of each.  Whole-file saves          *)
(* (writeFullConfig) render theirs.  The first and the third go through    *)
(* one temporary name that all requests share; the second has its own.     *)
(***************************************************************************)
EXTENDS Naturals, FiniteSets

CONSTANTS Frames,          \* the frames of the standard library
          KitNames,        \* the kits of the standard library
          KitFrames,       \* the frames of each of them, and of each own kit
          OwnKits,         \* names for the operator's own kits
          GroupTokens,     \* the @names the groups form accepts
          Checks,          \* names for custom checks
          Edits,           \* the requests tried, pairs of an operation and a set
          AtRegistration,  \* the file before the dashboard starts
          Editors,         \* the requests that may run at the same time
          MaxEditRequests, \* bound: requests started
          MaxEditFaults    \* bound: requests that stop half-way

\* The sections of the file.  kind tells an empty file, which parses, and one that two
\* requests wrote over each other, which does not.
Documents ==
    [kind : {"whole", "empty", "torn"},
     frames : SUBSET (Frames \cup KitNames \cup GroupTokens), severity : SUBSET Frames,
     checks : SUBSET Checks, hours : BOOLEAN, kits : SUBSET KitNames, own : SUBSET OwnKits]

TextEdits == {"toggle", "apply", "clear", "label", "unlabel"}
WholeFileSaves == {"create", "drop", "clearOwn", "category"}
PolicySaves == {"severity", "addCheck", "deleteCheck", "hours", "groups", "scan", "repair"}

\* What a request names.
EditArgs(op) ==
    CASE op \in {"toggle", "severity", "category"} -> Frames
      [] op \in {"apply", "clear", "label", "unlabel", "scan", "repair"} -> KitNames
      [] op \in {"create", "drop", "clearOwn"} -> OwnKits
      [] op \in {"addCheck", "deleteCheck"} -> Checks
      [] OTHER -> GroupTokens

ASSUME FramesFileAssumption ==
    /\ KitFrames \in [KitNames \cup OwnKits -> SUBSET Frames]
    /\ AtRegistration \in Documents
    /\ \A e \in Edits : /\ e[1] \in TextEdits \cup WholeFileSaves \cup PolicySaves
                        /\ e[2] \subseteq EditArgs(e[1])
    /\ MaxEditRequests \in Nat
    /\ MaxEditFaults \in Nat

Blank == [kind |-> "empty", frames |-> {}, severity |-> {}, checks |-> {}, hours |-> FALSE,
          kits |-> {}, own |-> {}]
Torn == [Blank EXCEPT !.kind = "torn"]

VARIABLES live,        \* appframes.toml
          shared,      \* appframes.toml.tmp
          hasTmp,      \* it exists
          startup,     \* the dashboard: "new", in its "repair", or "done": it serves requests
          editor,      \* the requests
          editCount, editFaults

framesVars == <<live, shared, hasTmp, startup, editor, editCount, editFaults>>

NoEditor == [at |-> "idle", op |-> "toggle", arg |-> {}, first |-> Blank,
             second |-> Blank, fd |-> "none", overlapped |-> FALSE]

InFlight == {r \in Editors : editor[r].at # "idle"}

FramesInit ==
    /\ live = AtRegistration
    /\ shared = Blank
    /\ hasTmp = FALSE
    /\ startup = "new"
    /\ editor = [r \in Editors |-> NoEditor]
    /\ editCount = 0
    /\ editFaults = 0

-----------------------------------------------------------------------------
(* What a request writes.  first is what it decided from, second what it   *)
(* read again to write the rest; a request that reads once has both equal. *)

\* Variant: it does not know the custom checks.
RenderedBare(d) == [d EXCEPT !.kind = "whole", !.checks = {}, !.kits = {}, !.own = {}]

\* A policy save renders the frames, severity, linters and estimates it was given.
Rendered(d) == [d EXCEPT !.kind = "whole", !.kits = {}, !.own = {}]

\* A whole-file save renders the frames and the kits.
RenderedFull(d) ==
    [d EXCEPT !.kind = "whole", !.severity = {}, !.checks = {}, !.hours = FALSE]

\* Variant: the names of the kits stand for their frames.
KitsThemselves(kits) == kits

FramesOf(kits) == UNION {KitFrames[k] : k \in kits}

\* The label is one line of text: in an empty file it is the whole file, in a torn one it
\* repairs nothing.
Labelled(d, kits) == IF d.kind = "torn" THEN d ELSE [d EXCEPT !.kind = "whole", !.kits = kits]

TextEdit(op, x, d1, d2) ==
    CASE op = "toggle" -> [d2 EXCEPT !.frames = IF x \subseteq d1.frames THEN @ \ x ELSE @ \cup x]
      [] op = "apply" -> [d2 EXCEPT !.frames = @ \cup FramesOf(x)]
      [] op = "clear" -> [d2 EXCEPT !.frames = @ \ FramesOf(x)]
      [] op = "label" -> Labelled(d2, d1.kits \cup x)
      [] op = "unlabel" -> Labelled(d2, d1.kits \ x)

WholeFileSave(op, x, d) ==
    RenderedFull(
      CASE op = "create" -> [d EXCEPT !.own = @ \cup x, !.frames = @ \cup FramesOf(x)]
        [] op = "drop" -> [d EXCEPT !.own = @ \ x]
        [] op = "clearOwn" -> [d EXCEPT !.own = @ \ x, !.frames = @ \ FramesOf(x)]
        [] op = "category" -> [d EXCEPT !.frames = @ \ x])

PolicySave(op, x, d1, d2) ==
    LET frames(s) == [d2 EXCEPT !.frames = s, !.severity = d1.severity]
    IN Rendered(
      CASE op = "severity" -> [d2 EXCEPT !.frames = d1.frames, !.severity = d1.severity \cup x]
        [] op = "addCheck" -> [d2 EXCEPT !.checks = d1.checks \cup x]
        [] op = "deleteCheck" -> [d2 EXCEPT !.checks = d1.checks \ x]
        [] op = "hours" -> [d2 EXCEPT !.hours = ~@]
        [] op = "groups" -> frames(x)
        [] op = "scan" -> frames(d1.frames \cup FramesOf(x))
        [] op = "repair" -> frames((d1.frames \ KitNames) \cup FramesOf(d1.frames \cap KitNames)))

Written(r) ==
    LET e == editor[r]
    IN CASE e.op \in TextEdits -> TextEdit(e.op, e.arg, e.first, e.second)
         [] e.op \in WholeFileSaves -> WholeFileSave(e.op, e.arg, e.first)
         [] e.op \in PolicySaves -> PolicySave(e.op, e.arg, e.first, e.second)

\* A document that does not parse is an error, except for the labels; the edits of the
\* enabled list find none in an empty one.
Unreadable(op, d) ==
    \/ d.kind = "torn" /\ op \notin {"label", "unlabel"}
    \/ d.kind = "empty" /\ op \in {"toggle", "apply", "clear"}

\* The handler's own checks on what it read first.
Refused(op, x, d) ==
    \/ Unreadable(op, d)
    \/ op = "create" /\ x \subseteq d.own
    \/ op = "clearOwn" /\ ~(x \subseteq d.own)
    \/ op = "severity" /\ ~(x \subseteq d.frames)
    \/ op = "addCheck" /\ x \subseteq d.checks
    \/ op = "deleteCheck" /\ ~(x \subseteq d.checks)
    \/ op = "label" /\ x \subseteq d.kits

\* The operations that read the document twice.
ReadsTwice == {"toggle", "label", "unlabel"} \cup (PolicySaves \ {"hours"})

-----------------------------------------------------------------------------
(* The steps of a request.                                                 *)

\* A request arrives: the dashboard's forms once it serves, the repair before that.
StartEdit(r, e) ==
    /\ editor[r].at = "idle"
    /\ editCount < MaxEditRequests
    /\ startup = "done"
    /\ editor' = [q \in Editors |->
                     IF q = r THEN [NoEditor EXCEPT !.at = "read", !.op = e[1], !.arg = e[2],
                                                    !.overlapped = InFlight # {}]
                     ELSE IF q \in InFlight THEN [editor[q] EXCEPT !.overlapped = TRUE]
                     ELSE editor[q]]
    /\ editCount' = editCount + 1
    /\ UNCHANGED <<live, shared, hasTmp, startup, editFaults>>

\* RepairFrameAllowlists, once per start: kit names in the list become frames, then the
\* kits are labelled.
StartRepair(r) ==
    /\ startup = "new"
    /\ live.frames \cap KitNames # {}
    /\ startup' = "repair"
    /\ editor' = [editor EXCEPT ![r] = [NoEditor EXCEPT !.at = "read", !.op = "repair",
                                            !.arg = live.frames \cap KitNames]]
    /\ UNCHANGED <<live, shared, hasTmp, editCount, editFaults>>

\* The dashboard serves when the repair ended, failed or had nothing to do.
Serve ==
    /\ startup = "repair" \/ (startup = "new" /\ live.frames \cap KitNames = {})
    /\ InFlight = {}
    /\ startup' = "done"
    /\ UNCHANGED <<live, shared, hasTmp, editor, editCount, editFaults>>

\* The first reading, after which the handler may refuse.
ReadDocument(r) ==
    /\ editor[r].at = "read"
    /\ LET e == editor[r]
       IN editor' = [editor EXCEPT ![r] =
             IF Refused(e.op, e.arg, live) THEN NoEditor
             ELSE [e EXCEPT !.at = IF e.op \in ReadsTwice THEN "reread" ELSE "write",
                            !.first = live, !.second = live]]
    /\ UNCHANGED <<live, shared, hasTmp, startup, editCount, editFaults>>

\* The second reading.
RereadDocument(r) ==
    /\ editor[r].at = "reread"
    /\ LET e == editor[r]
       IN editor' = [editor EXCEPT ![r] =
             IF Unreadable(e.op, live) THEN NoEditor
             ELSE [e EXCEPT !.at = "write", !.second = live]]
    /\ UNCHANGED <<live, shared, hasTmp, startup, editCount, editFaults>>

\* What follows the last write of an operation: the label of a kit, or the end.
Follows(e) ==
    CASE e.op \in {"apply", "scan", "repair"} ->
             [e EXCEPT !.at = "read", !.op = "label", !.fd = "none"]
      [] e.op = "clear" -> [e EXCEPT !.at = "read", !.op = "unlabel", !.fd = "none"]
      [] OTHER -> NoEditor

\* A rename replaces the directory entry: who has the old live file open writes into
\* nothing, and who has the renamed file open writes into the live one from now on.
Renamed(e, moved) ==
    [e EXCEPT !.fd = IF @ = "live" THEN "gone" ELSE IF @ = "tmp" /\ moved THEN "live" ELSE @]

\* A policy save has a temporary file of its own: its rename is the only visible step.
SavePolicy(r) ==
    /\ editor[r].at = "write"
    /\ editor[r].op \in PolicySaves
    /\ live' = Written(r)
    /\ editor' = [q \in Editors |-> IF q = r THEN Follows(editor[r])
                                    ELSE Renamed(editor[q], FALSE)]
    /\ UNCHANGED <<shared, hasTmp, startup, editCount, editFaults>>

\* os.WriteFile opens the shared name and truncates it ...
OpenShared(r) ==
    /\ editor[r].at = "write"
    /\ editor[r].op \notin PolicySaves
    /\ shared' = Blank
    /\ hasTmp' = TRUE
    /\ editor' = [editor EXCEPT ![r].at = "fill", ![r].fd = "tmp"]
    /\ UNCHANGED <<live, startup, editCount, editFaults>>

\* ... and writes the document, over whatever another request wrote there meanwhile.
Laid(document, over) == {document} \cup (IF over.kind = "empty" THEN {} ELSE {Torn})

FillShared(r) ==
    /\ editor[r].at = "fill"
    /\ IF editor[r].fd = "tmp" THEN shared' \in Laid(Written(r), shared) ELSE UNCHANGED shared
    /\ IF editor[r].fd = "live" THEN live' \in Laid(Written(r), live) ELSE UNCHANGED live
    /\ editor' = [editor EXCEPT ![r].at = "rename"]
    /\ UNCHANGED <<hasTmp, startup, editCount, editFaults>>

\* The rename; the name is gone when another request renamed it first.
RenameShared(r) ==
    /\ editor[r].at = "rename"
    /\ IF hasTmp
       THEN /\ live' = shared
            /\ hasTmp' = FALSE
            /\ editor' = [q \in Editors |-> IF q = r THEN Follows(editor[r])
                                            ELSE Renamed(editor[q], TRUE)]
       ELSE /\ editor' = [editor EXCEPT ![r] = NoEditor]
            /\ UNCHANGED <<live, hasTmp>>
    /\ UNCHANGED <<shared, startup, editCount, editFaults>>

\* A request stops between two steps, or one of its writes fails.
StopEdit(r) ==
    /\ editor[r].at # "idle"
    /\ editFaults < MaxEditFaults
    /\ editor' = [editor EXCEPT ![r] = NoEditor]
    /\ editFaults' = editFaults + 1
    /\ UNCHANGED <<live, shared, hasTmp, startup, editCount>>

FramesNext ==
    \/ Serve
    \/ \E r \in Editors :
          \/ \E e \in Edits : StartEdit(r, e)
          \/ StartRepair(r)
          \/ ReadDocument(r)
          \/ RereadDocument(r)
          \/ SavePolicy(r)
          \/ OpenShared(r)
          \/ FillShared(r)
          \/ RenameShared(r)
          \/ StopEdit(r)

FramesSpec == FramesInit /\ [][FramesNext]_framesVars

-----------------------------------------------------------------------------
(* Properties.                                                             *)

FramesTypeOK ==
    /\ live \in Documents
    /\ shared \in Documents
    /\ startup \in {"new", "repair", "done"}
    /\ hasTmp \in BOOLEAN
    /\ editCount \in 0 .. MaxEditRequests
    /\ editFaults \in 0 .. MaxEditFaults
    /\ \A r \in Editors :
          /\ editor[r].at \in {"idle", "read", "reread", "write", "fill", "rename"}
          /\ editor[r].op \in TextEdits \cup WholeFileSaves \cup PolicySaves
          /\ editor[r].first \in Documents /\ editor[r].second \in Documents
          /\ editor[r].fd \in {"none", "tmp", "live", "gone"}

\* The requests whose write a step is.
Writers == {r \in Editors : editor[r].at # editor'[r].at}

\* A section is lost only to a request that deletes from it, to one whose renderer does
\* not know it (a policy save drops the kits, a whole-file save the checks, severities and
\* hours), or to one that overlapped with another.
SectionsSurvive ==
    [][\A r \in Writers :
          \/ editor[r].overlapped
          \/ /\ editor[r].op \notin WholeFileSaves =>
                   /\ live.severity \subseteq live'.severity
                   /\ live.checks \subseteq live'.checks \/ editor[r].op = "deleteCheck"
                   /\ live.hours => live'.hours \/ editor[r].op = "hours"
             /\ editor[r].op \notin PolicySaves =>
                   /\ live.kits \subseteq live'.kits \/ editor[r].op = "unlabel"
                   /\ live.own \subseteq live'.own \/ editor[r].op \in {"drop", "clearOwn"}
      ]_framesVars
=============================================================================
