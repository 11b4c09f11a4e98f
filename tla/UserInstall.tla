----------------------------- MODULE UserInstall -----------------------------
(***************************************************************************)
(* nimblegate on a developer's machine: the shims in ~/.appframes/shims    *)
(* and the blocks between markers in the rc file of the shell, which also  *)
(* holds the user's own lines.  install.sh, `setup`, `shell` and `purge`   *)
(* change them without a lock, each in its own way: by a rename, by        *)
(* appending, and by rewriting in place; editors and other installers      *)
(* append to the same file.                                                *)
(*                                                                         *)
(* One shell, whose rc file exists.  Left out: blank lines (a block brings *)
(* one and takes one away), the dry run, and temporary files left behind.  *)
(***************************************************************************)
EXTENDS Naturals, Sequences, FiniteSets, SequencesExt

CONSTANTS OwnLines,         \* lines of the user
          LongLines,        \* those over 64 KiB
          Shims,            \* the wrapped commands, in the order they are written
          Installers,       \* processes at one time
          MaxInstalls,      \* bound: commands in one behaviour
          MaxDisturbances   \* bound: lines appended by the user, failures and deaths, and
                            \* commands that begin while another runs

ASSUME UserInstallAssumption ==
    /\ LongLines \subseteq OwnLines
    /\ OwnLines \cap ({"path", "bin", "snippet"} \X {"begin", "body", "end"}) = {}
    /\ Shims \in Seq(STRING)
    /\ {MaxInstalls, MaxDisturbances} \subseteq Nat

VARIABLES rc,          \* the rc file, by lines
          shims,       \* each shim: none, cut or whole
          foreign,     \* is there a file of the user among the shims?
          binary,      \* is the binary in ~/.appframes/bin?
          installer,   \* the processes
          put, late, enclosed, mangled,  \* history, see Properties
          installs, disturbances

installVars == <<rc, shims, foreign, binary, installer, put, late, enclosed, mangled, installs,
                 disturbances>>

\* The markers, and what is between them.
Blocks == {"path", "bin", "snippet"}
Block(b) == << <<b, "begin">>, <<b, "body">>, <<b, "end">> >>
OurLines == Blocks \X {"begin", "body", "end"}

Has(file, line) == \E i \in DOMAIN file : file[i] = line
ShimNames == ToSet(Shims)

\* What `setup` and `purge` look for: any file among the shims, and the marker lines.
ShimsSeen == foreign \/ \E n \in ShimNames : shims[n] # "none"
SnippetSeen == Has(rc, <<"snippet", "begin">>) \/ Has(rc, <<"snippet", "end">>)
PathSeen == Has(rc, <<"path", "begin">>)
BinSeen == Has(rc, <<"bin", "begin">>)
HomeSeen == binary \/ ShimsSeen

Todo(order, tasks) == SelectSeq(order, LAMBDA t : t \in tasks)

NoInstaller == [op |-> "idle", todo |-> <<>>, at |-> 0, copy |-> <<>>]

\* The lines inside a block or behind a marker that opens one and is never closed.
Inside(file) ==
    {file[i] : i \in {j \in DOMAIN file :
        \E b \in Blocks, k \in 1 .. j :
            /\ file[k] = <<b, "begin">>
            /\ \A m \in k .. j : file[m] # <<b, "end">>}}

UserInstallInit ==
    /\ \E own \in OwnLines : rc \in {<<>>, <<own>>}
    /\ shims = [n \in ShimNames |-> "none"]
    /\ foreign \in BOOLEAN /\ binary = FALSE
    /\ installer = [p \in Installers |-> NoInstaller]
    /\ put = ToSet(rc) /\ late = {} /\ enclosed = {} /\ mangled = FALSE
    /\ installs = 0 /\ disturbances = 0

-----------------------------------------------------------------------------
(* The user, and the commands' beginnings.                                 *)

Now(p) == IF installer[p].todo = <<>> THEN "none" ELSE Head(installer[p].todo)

\* Held: p read the rc file and will write it anew.  Emptied: p truncated it.
Held(p) == installer[p].at = 1 /\ Now(p) \in {"path", "dropPath", "dropBin", "dropSnippet"}
Emptied(p) == installer[p].at = 2 /\ Now(p) = "dropSnippet"

WriteRc(file) ==
    /\ rc' = file
    /\ enclosed' = enclosed \cup (Inside(file) \cap OwnLines)

Disturb == /\ disturbances < MaxDisturbances
           /\ disturbances' = disturbances + 1

OwnEdit(u) ==
    /\ u \notin put
    /\ Disturb
    /\ WriteRc(Append(rc, u))
    /\ put' = put \cup {u}
    /\ late' = IF \E p \in Installers : Held(p) \/ Emptied(p) THEN late \cup {u} ELSE late
    /\ UNCHANGED <<shims, foreign, binary, installer, mangled, installs>>

Running == {o \in Installers : installer[o].op # "idle"}

Begin(p, op, todo) ==
    /\ installer[p].op = "idle" /\ installs < MaxInstalls
    /\ installs' = installs + 1
    /\ IF Running = {} THEN UNCHANGED disturbances ELSE Disturb
    /\ installer' = [installer EXCEPT ![p] = [op |-> op, todo |-> todo, at |-> 0, copy |-> <<>>]]
    /\ UNCHANGED <<rc, shims, foreign, binary, put, late, enclosed, mangled>>

\* `setup`: the steps that are missing, of those the user says yes to.  Its answer to an
\* installation that looks complete, without a look at the snippet, is to do nothing.
SetupTodo(yes) ==
    LET missing == {t \in yes : \/ t = "shims" /\ ~ShimsSeen
                                \/ t = "path" /\ ~PathSeen
                                \/ t = "snippet" /\ ~SnippetSeen}
    IN  IF ShimsSeen /\ PathSeen THEN <<>> ELSE Todo(<<"shims", "path", "snippet">>, missing)

Setup(p, yes) == Begin(p, "setup", SetupTodo(yes))

\* `shell install` and `shell uninstall`, with --strict or without.
Shell(p, op) ==
    \/ op = "install" /\ Begin(p, op, <<"snippet">>)
    \/ op = "uninstall" /\ Begin(p, op, <<"dropSnippet">>)
    \/ op = "installStrict" /\ Begin(p, op, <<"shims">>)
    \/ op = "uninstallStrict" /\ Begin(p, op, <<"dropShims">>)

\* `purge`: what is there, and the directory itself unless --keep-config.
Purge(p, keep) ==
    /\ ShimsSeen \/ PathSeen \/ SnippetSeen \/ BinSeen \/ HomeSeen
    /\ Begin(p, IF keep THEN "purgeKeep" ELSE "purge",
             Todo(<<"dropShims", "dropPath", "dropBin", "dropSnippet", "home">>,
                  {t \in {"dropShims", "dropPath", "dropBin", "dropSnippet", "home"} :
                      \/ t = "dropShims" /\ ShimsSeen
                      \/ t = "dropPath" /\ PathSeen
                      \/ t = "dropBin" /\ BinSeen
                      \/ t = "dropSnippet" /\ SnippetSeen
                      \/ t = "home" /\ ~keep}))

\* install.sh: the binary, its directory on PATH, then `setup`.
RunInstallSh(p) == Begin(p, "installSh", <<"binary", "bin", "setup">>)

-----------------------------------------------------------------------------
(* The tasks.                                                              *)

Proceed(p, todo, at, copy) ==
    installer' = [installer EXCEPT
        ![p] = [op |-> installer[p].op, todo |-> todo, at |-> at, copy |-> copy]]
GoOn(p, at, copy) == Proceed(p, installer[p].todo, at, copy)
NextTask(p) == Proceed(p, Tail(installer[p].todo), 0, <<>>)
Quit(p) == installer' = [installer EXCEPT ![p] = NoInstaller]

RcKept == UNCHANGED <<rc, put, late, enclosed, installs, disturbances>>

\* InstallShims: one file after the other, truncated and written.
WriteShim(p) ==
    /\ Now(p) = "shims"
    /\ LET n == installer[p].at + 1
       IN  /\ shims' = [shims EXCEPT ![Shims[n]] = "whole"]
           /\ IF n = Len(Shims) THEN NextTask(p) ELSE GoOn(p, n, <<>>)
    /\ RcKept /\ UNCHANGED <<foreign, binary, mangled>>

\* UninstallShims: ours, one after the other; the directory stays when there is another.
RemoveShim(p) ==
    /\ Now(p) = "dropShims"
    /\ LET n == installer[p].at + 1
       IN  /\ shims' = [shims EXCEPT ![Shims[n]] = "none"]
           /\ IF n = Len(Shims) THEN NextTask(p) ELSE GoOn(p, n, <<>>)
    /\ RcKept /\ UNCHANGED <<foreign, binary, mangled>>

CopyBinary(p) ==
    /\ Now(p) = "binary"
    /\ binary' = TRUE
    /\ NextTask(p)
    /\ RcKept /\ UNCHANGED <<shims, foreign, mangled>>

RemoveHome(p) ==
    /\ Now(p) = "home"
    /\ binary' = FALSE /\ foreign' = FALSE
    /\ shims' = [n \in ShimNames |-> "none"]
    /\ NextTask(p)
    /\ RcKept /\ UNCHANGED <<mangled>>

\* install.sh hands over to `setup`, which looks at what is there now.
RunSetup(p, yes) ==
    /\ Now(p) = "setup"
    /\ Proceed(p, SetupTodo(yes), 0, <<>>)
    /\ RcKept /\ UNCHANGED <<shims, foreign, binary, mangled>>

\* The first line of b's block and the first closing line behind it.
Marks(file, b) ==
    LET i == SelectInSeq(file, LAMBDA l : l = <<b, "begin">>)
        j == SelectInSeq(SubSeq(file, i + 1, Len(file)), LAMBDA l : l = <<b, "end">>)
    IN  [begin |-> i, end |-> IF j = 0 THEN 0 ELSE i + j]

\* Variant: one line too many is taken away, as for the blank line behind a block.
WithoutNext(file, b) ==
    LET m == Marks(file, b)
    IN  SubSeq(file, 1, m.begin - 1) \o SubSeq(file, m.end + 2, Len(file))

\* removeMarkerBlockFromRC: the first block, whole, with what stands in it.
Without(file, b) ==
    LET m == Marks(file, b)
    IN  SubSeq(file, 1, m.begin - 1) \o SubSeq(file, m.end + 1, Len(file))

HalfBlock(file, b) == Marks(file, b).begin # 0 /\ Marks(file, b).end = 0

\* gitwrap.Uninstall: every line from a BEGIN marker up to the next END marker, or the end.
OutsideSnippet(file) ==
    LET outside(i) ==
            /\ file[i] # <<"snippet", "end">>
            /\ \A k \in 1 .. i : file[k] = <<"snippet", "begin">>
                                => \E m \in k .. i - 1 : file[m] = <<"snippet", "end">>
    IN  FlattenSeq([i \in DOMAIN file |-> IF outside(i) THEN <<file[i]>> ELSE <<>>])

BlockOf(task) == CASE task \in {"path", "dropPath"} -> "path"
                   [] task \in {"bin", "dropBin"} -> "bin"
                   [] OTHER -> "snippet"

\* A task looks at the rc file: nothing to do, a refusal, or a copy to work on.
ReadRc(p) ==
    LET b == BlockOf(Now(p))
        begun == Has(rc, <<b, "begin">>)
    IN  /\ Now(p) \in {"path", "bin", "snippet", "dropPath", "dropBin", "dropSnippet"}
        /\ installer[p].at = 0
        /\ \/ Now(p) = "snippet" /\ begun /\ Quit(p)
           \/ Now(p) \in {"path", "bin"} /\ begun /\ NextTask(p)
           \/ Now(p) \in {"path", "bin", "snippet"} /\ ~begun /\ GoOn(p, 1, rc)
           \/ Now(p) \in {"dropPath", "dropBin"} /\ ~begun /\ NextTask(p)
           \/ Now(p) \in {"dropPath", "dropBin"} /\ HalfBlock(rc, b) /\ Quit(p)
           \/ Now(p) \in {"dropPath", "dropBin"} /\ begun /\ ~HalfBlock(rc, b) /\ GoOn(p, 1, rc)
           \/ Now(p) = "dropSnippet" /\ ToSet(rc) \cap LongLines # {} /\ Quit(p)
           \/ Now(p) = "dropSnippet" /\ ToSet(rc) \cap LongLines = {} /\ GoOn(p, 1, rc)
        /\ mangled' = (mangled \/ \E q \in Installers : Emptied(q))
        /\ RcKept /\ UNCHANGED <<shims, foreign, binary>>

\* addPATHToRC and removeMarkerBlockFromRC rename the new file over the old one.
RenameRc(p) ==
    LET copy == installer[p].copy
    IN  /\ Now(p) \in {"path", "dropPath", "dropBin"} /\ installer[p].at = 1
        /\ WriteRc(IF Now(p) = "path" THEN copy \o Block("path")
                   ELSE Without(copy, BlockOf(Now(p))))
        /\ NextTask(p)
        /\ UNCHANGED <<shims, foreign, binary, put, late, mangled, installs, disturbances>>

\* gitwrap.Install appends its block with one write.
AppendSnippet(p) ==
    /\ Now(p) = "snippet" /\ installer[p].at = 1
    /\ WriteRc(rc \o Block("snippet"))
    /\ NextTask(p)
    /\ UNCHANGED <<shims, foreign, binary, put, late, mangled, installs, disturbances>>

\* install.sh appends line by line.
AppendBinLine(p) ==
    LET n == installer[p].at
    IN  /\ Now(p) = "bin" /\ n \in 1 .. 3
        /\ WriteRc(Append(rc, Block("bin")[n]))
        /\ IF n = 3 THEN NextTask(p) ELSE GoOn(p, n + 1, <<>>)
        /\ UNCHANGED <<shims, foreign, binary, put, late, mangled, installs, disturbances>>

\* os.WriteFile truncates the file, and fills it from its beginning.
EmptyRc(p) ==
    /\ Now(p) = "dropSnippet" /\ installer[p].at = 1
    /\ WriteRc(<<>>)
    /\ GoOn(p, 2, installer[p].copy)
    /\ UNCHANGED <<shims, foreign, binary, put, late, mangled, installs, disturbances>>

FillRc(p) ==
    LET kept == OutsideSnippet(installer[p].copy)
    IN  /\ Now(p) = "dropSnippet" /\ installer[p].at = 2
        /\ WriteRc(kept \o SubSeq(rc, Len(kept) + 1, Len(rc)))
        /\ mangled' = (mangled \/ rc # <<>>)
        /\ NextTask(p)
        /\ UNCHANGED <<shims, foreign, binary, put, late, installs, disturbances>>

InstallerEnds(p) ==
    /\ installer[p].op # "idle" /\ installer[p].todo = <<>>
    /\ Quit(p)
    /\ RcKept /\ UNCHANGED <<shims, foreign, binary, mangled>>

-----------------------------------------------------------------------------
(* Failures.                                                               *)

\* An operation fails or the process is killed: a shim or the snippet may be cut short.
InstallerStops(p) ==
    LET n == installer[p].at
    IN  /\ Now(p) # "none" /\ Disturb
        /\ Quit(p)
        /\ mangled' = (mangled \/ Emptied(p))
        /\ shims' = IF Now(p) = "shims" THEN [shims EXCEPT ![Shims[n + 1]] = "cut"] ELSE shims
        /\ IF Now(p) = "snippet" /\ n = 1
           THEN \E m \in 1 .. 2 : WriteRc(rc \o SubSeq(Block("snippet"), 1, m))
           ELSE UNCHANGED <<rc, enclosed>>
        /\ UNCHANGED <<foreign, binary, put, late, installs>>

UserInstallNext ==
    \/ \E u \in OwnLines : OwnEdit(u)
    \/ \E p \in Installers :
          \/ \E yes \in SUBSET {"shims", "path", "snippet"} : Setup(p, yes) \/ RunSetup(p, yes)
          \/ \E op \in {"install", "uninstall", "installStrict", "uninstallStrict"} : Shell(p, op)
          \/ \E keep \in BOOLEAN : Purge(p, keep)
          \/ RunInstallSh(p)
          \/ WriteShim(p) \/ RemoveShim(p) \/ CopyBinary(p) \/ RemoveHome(p)
          \/ ReadRc(p) \/ RenameRc(p) \/ AppendSnippet(p) \/ AppendBinLine(p)
          \/ EmptyRc(p) \/ FillRc(p)
          \/ InstallerEnds(p) \/ InstallerStops(p)

UserInstallSpec == UserInstallInit /\ [][UserInstallNext]_installVars

UserInstallTypeOK ==
    /\ rc \in Seq(OwnLines \cup OurLines)
    /\ shims \in [ShimNames -> {"none", "cut", "whole"}]
    /\ foreign \in BOOLEAN /\ binary \in BOOLEAN /\ mangled \in BOOLEAN
    /\ put \subseteq OwnLines /\ late \subseteq put /\ enclosed \subseteq put

-----------------------------------------------------------------------------
(* Properties.                                                             *)

\* A line the user put into the rc file is there, whatever was installed and removed since:
\* setup.go, purge.go and installer.go change the file around it.  Except a line written
\* while one of them had its copy of the file (late), a line that got between two markers
\* (enclosed), and all of them when `shell uninstall` was stopped, or others read its empty
\* file or appended to it, between truncating and filling (mangled).
UserLinesKept ==
    \A u \in put : \/ Has(rc, u)
                   \/ u \in late \cup enclosed \/ mangled
                   \/ \E p \in Installers : Emptied(p)

=============================================================================
