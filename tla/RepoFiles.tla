----------------------------- MODULE RepoFiles -----------------------------
(***************************************************************************)
(* One repository name on the gateway's disk: a policy directory and a     *)
(* bare repository in the library (_repos), and the two symbolic links     *)
(* that make them active.  git serves what the link of the bare repository *)
(* leads to, and runs the hooks it finds there.                            *)
(*                                                                         *)
(* Registering, archiving, restoring, deleting, migrating and repairing    *)
(* are lists of file operations.  Each may fail, and what a request does   *)
(* then is a list too; a request may also stop between any two.            *)
(***************************************************************************)
EXTENDS Naturals, Sequences

CONSTANTS Admins,           \* the requests that may run at the same time
          MaxAdminRequests, \* bound: requests started
          MaxAdminFaults    \* bound: steps that fail and requests that stop

ASSUME RepoFilesAssumption == MaxAdminRequests \in Nat /\ MaxAdminFaults \in Nat

PolicyFiles == {"toml", "frames", "credential", "pending"}
BareParts == {"capped", "preHook", "postHook", "history"}
Places == {"libPolicy", "libBare", "linkPolicy", "linkBare", "dirPolicy", "dirBare"}

VARIABLES disk,      \* what exists: places, and the contents of the two directories
          admin,     \* the requests, each with the file operations it has left
          met,       \* two requests for the name overlapped
          cutShort,  \* a registration stopped, or a removal failed after another failure
          halfDone,  \* a step failed that its request does not undo, or a removal
          adminCount, adminFaults

repoVars == <<disk, admin, met, cutShort, halfDone, adminCount, adminFaults>>

Make(x) == [do |-> "make", item |-> x]        \* in the library
Link(x) == [do |-> "link", item |-> x]        \* a symbolic link
Drop(x) == [do |-> "drop", item |-> x]        \* a link, or a directory with its contents
Try(x) == [do |-> "try", item |-> x]          \* the same, its errors ignored
Write(x) == [do |-> "write", item |-> x]      \* a file at the active path, with its directory
Move(x) == [do |-> "move", item |-> x]        \* a directory of the old layout, to the library
Seed == [do |-> "seed", item |-> "history"]   \* git fetch from the upstream

LibOf(x) == IF x \in {"linkPolicy", "dirPolicy"} \cup PolicyFiles THEN "libPolicy" ELSE "libBare"
ContentsOf(lib) == IF lib = "libPolicy" THEN PolicyFiles ELSE BareParts
DirOf(link) == IF link = "linkPolicy" THEN "dirPolicy" ELSE "dirBare"

Active == {"linkPolicy", "linkBare", "libPolicy", "libBare"} \subseteq disk
Taken == disk \cap Places

-----------------------------------------------------------------------------
(* The lists.                                                              *)

\* Variant: the links come with the directories.
AddLinksFirst == <<Make("libPolicy"), Make("libBare"), Link("linkPolicy"), Link("linkBare"),
                   Make("capped"), Make("toml"), Make("frames"), Make("preHook"),
                   Make("postHook")>>

\* AddRepo: the links come last.  Then the starter kit, the credential and the history.
AddSteps == <<Make("libPolicy"), Make("libBare"), Make("capped"), Make("toml"),
              Make("frames"), Make("preHook"), Make("postHook"),
              Link("linkPolicy"), Link("linkBare")>>
AfterAdd == <<Write("frames"), Write("credential"), Seed>>

ArchiveSteps == <<Drop("linkPolicy"), Drop("linkBare")>>
RestoreSteps == <<Link("linkPolicy"), Link("linkBare")>>
DeleteSteps == <<Try("linkPolicy"), Try("linkBare"), Try("libPolicy"), Try("libBare")>>

\* MigrateToSymlinkLayout takes what is a directory and has no place in the library yet.
MigrateSteps(place, link) ==
    IF place \in disk /\ LibOf(place) \notin disk THEN <<Move(place), Link(link)>> ELSE <<>>

\* What a request does when a step fails: AddRepo removes what it made, but for a failed
\* git init only the policy; archiving and restoring undo their first step; a removal that
\* fails is ignored.
Undo(op, step, rest) ==
    CASE step.do = "try" -> rest
      [] op = "add" /\ step \in {Make("libPolicy"), Make("libBare")} -> <<Try("libPolicy")>>
      [] op = "add" /\ (step = Link("linkPolicy") \/ (step.do = "make" /\ step.item \notin Places)) ->
             <<Try("libPolicy"), Try("libBare")>>
      [] op = "add" /\ step = Link("linkBare") ->
             <<Try("linkPolicy"), Try("libPolicy"), Try("libBare")>>
      [] op = "archive" /\ step = Drop("linkBare") -> <<Link("linkPolicy")>>
      [] op = "restore" /\ step = Link("linkBare") -> <<Try("linkPolicy")>>
      [] OTHER -> <<>>

\* The handler's checks, and the list it goes through.
Requests == {"add", "archive", "restore", "delete", "migrate", "credential", "regen", "sync"}

\* Variant: deleting asks for both directories.
AdmittedWhenBoth(op) ==
    CASE op = "add" -> Taken = {}
      [] op \in {"archive", "credential", "sync", "regen"} ->
             {"linkPolicy", "linkBare"} \subseteq disk
      [] op \in {"restore", "delete"} -> {"libPolicy", "libBare"} \subseteq disk
      [] op = "migrate" -> {"dirPolicy", "dirBare"} \cap disk # {}

Admitted(op) ==
    CASE op = "add" -> Taken = {}
      [] op = "archive" -> {"linkPolicy", "linkBare"} \subseteq disk
      [] op = "restore" -> /\ {"libPolicy", "libBare"} \subseteq disk
                           /\ {"linkPolicy", "linkBare", "dirPolicy", "dirBare"} \cap disk = {}
      [] op = "delete" -> {"libPolicy", "libBare"} \cap disk # {}
      [] op = "migrate" -> {"dirPolicy", "dirBare"} \cap disk # {}
      [] op \in {"credential", "sync"} -> {"linkPolicy", "libPolicy", "toml"} \subseteq disk
      [] op = "regen" -> {"linkPolicy", "libPolicy"} \subseteq disk /\ "frames" \notin disk

AddList == AddSteps \o AfterAdd

StepsOf(op) ==
    CASE op = "add" -> AddList
      [] op = "archive" -> ArchiveSteps
      [] op = "restore" -> RestoreSteps
      [] op = "delete" -> DeleteSteps
      [] op = "migrate" -> MigrateSteps("dirPolicy", "linkPolicy")
                               \o MigrateSteps("dirBare", "linkBare")
      [] op = "credential" -> <<Write("credential")>>
      [] op = "regen" -> <<Make("frames")>>
      [] op = "sync" -> <<Seed>>

-----------------------------------------------------------------------------
(* One file operation.                                                     *)

\* Whether the file system lets it happen.
Possible(step) ==
    CASE step.do = "make" -> step.item \in Places \/ LibOf(step.item) \in disk
      [] step.do = "link" -> {step.item, DirOf(step.item)} \cap disk = {}
      [] step.do = "drop" -> step.item \in disk
      [] step.do = "write" -> "linkPolicy" \in disk => "libPolicy" \in disk
      [] step.do = "move" -> step.item \in disk /\ LibOf(step.item) \notin disk
      [] OTHER -> TRUE

\* What it leaves.  A write to an active path that is gone makes a plain directory of it.
Result(step) ==
    CASE step.do = "make" -> disk \cup {step.item}
      [] step.do = "link" -> disk \cup {step.item}
      [] step.do \in {"drop", "try"} ->
             disk \ ({step.item} \cup (IF step.item \in disk \cap {"libPolicy", "libBare"}
                                       THEN ContentsOf(step.item) ELSE {}))
      [] step.do = "write" -> IF "linkPolicy" \in disk THEN disk \cup {step.item}
                              ELSE disk \cup {"dirPolicy"}
      [] step.do = "move" -> (disk \ {step.item}) \cup {LibOf(step.item)}
      [] step.do = "seed" -> IF Active THEN (disk \ {"pending"}) \cup {"history"} ELSE disk

NoRequest == [op |-> "none", todo |-> <<>>]
Idle(a) == admin[a].todo = <<>>

RepoFilesInit ==
    /\ disk \in {{}, {"dirPolicy", "dirBare", "toml", "preHook", "postHook", "history"}}
    /\ admin = [a \in Admins |-> NoRequest]
    /\ met = FALSE
    /\ cutShort = FALSE
    /\ halfDone = FALSE
    /\ adminCount = 0
    /\ adminFaults = 0

StartAdmin(a, op) ==
    /\ Idle(a)
    /\ adminCount < MaxAdminRequests
    /\ Admitted(op)
    /\ admin' = [admin EXCEPT ![a] = [op |-> op, todo |-> StepsOf(op)]]
    /\ met' = (met \/ \E b \in Admins : ~Idle(b))
    /\ adminCount' = adminCount + 1
    /\ UNCHANGED <<disk, cutShort, halfDone, adminFaults>>

\* The next operation of the list, or the undoing when it cannot happen.
AdminStep(a) ==
    /\ ~Idle(a)
    /\ LET step == Head(admin[a].todo)
           rest == Tail(admin[a].todo)
       IN IF Possible(step)
          THEN /\ disk' = Result(step)
               /\ admin' = [admin EXCEPT ![a].todo = rest]
          ELSE /\ admin' = [admin EXCEPT ![a].todo = Undo(admin[a].op, step, rest)]
               /\ UNCHANGED disk
    /\ UNCHANGED <<met, cutShort, halfDone, adminCount, adminFaults>>

\* A removal that fails, or is stopped, may have removed what is in the directory.
HalfRemoved(step) ==
    {disk} \cup (IF step.do = "try" /\ step.item \in disk \cap {"libPolicy", "libBare"}
                 THEN {disk \ ContentsOf(step.item)} ELSE {})

\* An operation fails for another reason.  A git init may leave its directory, a fetch
\* leaves the marker that offers it again.  Deleting and migrating undo nothing.
AdminStepFails(a) ==
    /\ ~Idle(a)
    /\ adminFaults < MaxAdminFaults
    /\ LET step == Head(admin[a].todo)
           undo == Undo(admin[a].op, step, Tail(admin[a].todo))
       IN /\ disk' \in HalfRemoved(step)
                        \cup (IF step = Make("libBare") THEN {disk \cup {"libBare"}}
                              ELSE IF step = Seed /\ Active THEN {disk \cup {"pending"}}
                              ELSE {})
          /\ halfDone' = (halfDone \/ admin[a].op \in {"delete", "migrate"}
                                  \/ step = Make("libBare") \/ step.do = "try")
          /\ cutShort' = (cutShort \/ (halfDone /\ step.do = "try"))
          /\ admin' = [admin EXCEPT ![a].todo = undo]
    /\ adminFaults' = adminFaults + 1
    /\ UNCHANGED <<met, adminCount>>

\* The request's process stops.
AdminStops(a) ==
    /\ ~Idle(a)
    /\ adminFaults < MaxAdminFaults
    /\ LET step == Head(admin[a].todo)
       IN /\ disk' \in HalfRemoved(step)
          /\ cutShort' = (cutShort \/ admin[a].op = "add" \/ (halfDone /\ step.do = "try"))
    /\ admin' = [admin EXCEPT ![a].todo = <<>>]
    /\ adminFaults' = adminFaults + 1
    /\ UNCHANGED <<met, halfDone, adminCount>>

RepoFilesNext ==
    \E a \in Admins :
        \/ \E op \in Requests : StartAdmin(a, op)
        \/ AdminStep(a)
        \/ AdminStepFails(a)
        \/ AdminStops(a)

RepoFilesSpec == RepoFilesInit /\ [][RepoFilesNext]_repoVars

-----------------------------------------------------------------------------
(* Properties.                                                             *)

RepoFilesTypeOK ==
    /\ disk \subseteq Places \cup PolicyFiles \cup BareParts
    /\ \A a \in Admins : Len(admin[a].todo) <= Len(AddList)
    /\ {met, cutShort, halfDone} \subseteq BOOLEAN
    /\ adminCount \in 0 .. MaxAdminRequests
    /\ adminFaults \in 0 .. MaxAdminFaults

AtRest == \A a \in Admins : Idle(a)

\* What git serves under the name, a directory or what the link leads to.
Served == "dirBare" \in disk \/ {"linkBare", "libBare"} \subseteq disk

\* A bare repository that git serves has the hook that gates it, wherever a request fails
\* or stops, as long as no two requests for the name overlapped, no registration stopped before
\* its end, and no removal of a directory failed when something had failed before it: what
\* these leave looks archived, and can be restored without its hooks.
ServedIsGated == Served /\ ~met /\ ~cutShort => "preHook" \in disk

\* Whatever a request left, the name can be used again: deleting the repository applies
\* when registering it does not.  The exception is a deletion that could not remove a link:
\* it removes what the link leads to all the same, and both refuse from then on.
SomeWayOut ==
    AtRest /\ ~met
        => \/ Admitted("add") \/ Admitted("delete") \/ Admitted("migrate")
           \/ halfDone /\ Taken \subseteq {"linkPolicy", "linkBare"}
=============================================================================
