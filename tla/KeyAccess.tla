----------------------------- MODULE KeyAccess -----------------------------
(***************************************************************************)
(* Who may reach which repository over ssh: the lines of authorized_keys   *)
(* and, in scoped mode, one access.json per repository.  The dashboard     *)
(* adds and removes keys under its lock and renames a rewritten file into  *)
(* place; it and the command line grant and revoke without a lock, by      *)
(* truncating access.json and writing it again; `gateway access migrate`   *)
(* turns every plain line into one that runs `gateway shell`.  sshd and    *)
(* that shell read the files while all this happens.                       *)
(***************************************************************************)
EXTENDS Naturals, FiniteSets

CONSTANTS SshKeys,          \* fingerprints
          ScopedRepos,      \* repositories
          Clerks,           \* the requests that may run at the same time
          MaxClerkRequests, \* bound: requests started
          MaxClerkFaults    \* bound: requests that stop half-way

ASSUME KeyAccessAssumption ==
    /\ SshKeys # {} /\ ScopedRepos # {}
    /\ MaxClerkRequests \in Nat /\ MaxClerkFaults \in Nat

Levels == {"none", "read", "write"}
LineForms == {"none", "plain", "scoped"}
Grants == [SshKeys -> Levels]
NoGrants == [k \in SshKeys |-> "none"]

VARIABLES lines,     \* the authorized_keys line of each key
          access,    \* access.json of each repository: its grants, or not whole
          wanted,    \* the grants as the requests that completed left them
          dashboard, \* the running dashboard writes plain or scoped lines
          clerk,     \* the requests
          mixed,     \* two requests overlapped, or one stopped half-way
          session,   \* the last shell: what it allowed, and what was wanted
          clerkCount, clerkFaults

keyVars == <<lines, access, wanted, dashboard, clerk, mixed, session, clerkCount, clerkFaults>>

IdleClerk == [op |-> "none", at |-> "idle", key |-> CHOOSE k \in SshKeys : TRUE,
              repo |-> CHOOSE r \in ScopedRepos : TRUE, level |-> "none", copy |-> NoGrants,
              seen |-> [k \in SshKeys |-> "none"], todo |-> {}, open |-> FALSE]

KeyOps == {"add", "remove"}                    \* these hold the dashboard's lock
GrantOps == {"grant", "revoke"}

ClerkStates ==
    [op : KeyOps \cup GrantOps \cup {"migrate", "none"},
     at : {"idle", "load", "save", "fill", "grants", "append", "rename"},
     key : SshKeys, repo : ScopedRepos, level : Levels, copy : Grants,
     seen : [SshKeys -> LineForms], todo : SUBSET (ScopedRepos \X SshKeys), open : BOOLEAN]

ActiveClerks == {c \in Clerks : clerk[c].at # "idle"}

KeyAccessInit ==
    /\ lines \in [SshKeys -> {"none", "plain"}]
    /\ access = [r \in ScopedRepos |-> [whole |-> TRUE, grants |-> NoGrants]]
    /\ wanted = [r \in ScopedRepos |-> NoGrants]
    /\ dashboard = "plain"
    /\ clerk = [c \in Clerks |-> IdleClerk]
    /\ mixed = FALSE
    /\ session = [allowed |-> FALSE, wanted |-> FALSE, scoped |-> FALSE]
    /\ clerkCount = 0
    /\ clerkFaults = 0

-----------------------------------------------------------------------------
(* The requests.                                                           *)

StartClerk(c, op, k, r, level) ==
    /\ clerk[c].at = "idle"
    /\ clerkCount < MaxClerkRequests
    /\ op \in KeyOps => \A d \in ActiveClerks : clerk[d].op \notin KeyOps
    /\ op \in KeyOps => dashboard # "down"
    /\ clerk' = [clerk EXCEPT ![c] = [IdleClerk EXCEPT !.op = op, !.at = "load", !.key = k,
                                          !.repo = r, !.level = level]]
    /\ mixed' = (mixed \/ ActiveClerks # {})
    /\ clerkCount' = clerkCount + 1
    /\ UNCHANGED <<lines, access, wanted, dashboard, session, clerkFaults>>

\* Grant and Revoke: Load, which fails on a file that is not whole, and the change.
LoadAccess(c) ==
    LET e == clerk[c]
    IN /\ e.at = "load"
       /\ e.op \in GrantOps
       /\ clerk' = [clerk EXCEPT ![c] =
             IF access[e.repo].whole
             THEN [e EXCEPT !.at = "save", !.copy = [access[e.repo].grants EXCEPT ![e.key] = e.level]]
             ELSE IdleClerk]
       /\ UNCHANGED <<lines, access, wanted, dashboard, mixed, session, clerkCount, clerkFaults>>

\* migrate grants every key it read on every repository, one after the other.
NextGrant(c) ==
    LET e == clerk[c]
    IN /\ e.at = "grants"
       /\ \E todo \in e.todo :
             LET r == todo[1]
             IN clerk' = [clerk EXCEPT ![c] =
                   IF access[r].whole
                   THEN [e EXCEPT !.at = "save", !.repo = r, !.key = todo[2], !.level = "write",
                             !.todo = @ \ {todo},
                             !.copy = [access[r].grants EXCEPT ![todo[2]] = "write"]]
                   ELSE IdleClerk]
       /\ UNCHANGED <<lines, access, wanted, dashboard, mixed, session, clerkCount, clerkFaults>>

\* os.WriteFile truncates ...
CutAccess(c) ==
    /\ clerk[c].at = "save"
    /\ access' = [access EXCEPT ![clerk[c].repo].whole = FALSE]
    /\ clerk' = [clerk EXCEPT ![c].at = "fill"]
    /\ UNCHANGED <<lines, wanted, dashboard, mixed, session, clerkCount, clerkFaults>>

\* ... and writes.
FillAccess(c) ==
    LET e == clerk[c]
    IN /\ e.at = "fill"
       /\ access' = [access EXCEPT ![e.repo] = [whole |-> TRUE, grants |-> e.copy]]
       /\ wanted' = [wanted EXCEPT ![e.repo][e.key] = e.level]
       /\ clerk' = [clerk EXCEPT ![c] = IF e.op = "migrate" THEN [e EXCEPT !.at = "grants"]
                                        ELSE IdleClerk]
       /\ UNCHANGED <<lines, dashboard, mixed, session, clerkCount, clerkFaults>>

\* addKey, removeKey and migrate read authorized_keys; the first refuses a key it finds and
\* opens the file, the second ends when it finds none.
ReadLines(c) ==
    LET e == clerk[c]
    IN /\ e.at = "load"
       /\ e.op \notin GrantOps
       /\ clerk' = [clerk EXCEPT ![c] =
             CASE e.op = "add" /\ lines[e.key] = "none" -> [e EXCEPT !.at = "append", !.open = TRUE]
               [] e.op = "remove" /\ lines[e.key] # "none" -> [e EXCEPT !.at = "rename", !.seen = lines]
               [] e.op = "migrate" -> [e EXCEPT !.at = "grants", !.seen = lines,
                     !.todo = ScopedRepos \X {k \in SshKeys : lines[k] # "none"}]
               [] OTHER -> IdleClerk]
       /\ UNCHANGED <<lines, access, wanted, dashboard, mixed, session, clerkCount, clerkFaults>>

\* The append goes to the file that was opened: to nothing when it was replaced meanwhile.
AppendLine(c) ==
    LET e == clerk[c]
    IN /\ e.at = "append"
       /\ lines' = IF e.open THEN [lines EXCEPT ![e.key] = dashboard] ELSE lines
       /\ clerk' = [clerk EXCEPT ![c] = IdleClerk]
       /\ UNCHANGED <<access, wanted, dashboard, mixed, session, clerkCount, clerkFaults>>

\* Variant: a migration takes a line that was disabled for one to scope.
RewrittenForAll(e) ==
    [k \in SshKeys |-> IF e.op = "migrate" THEN "scoped"
                       ELSE IF k = e.key THEN "none" ELSE e.seen[k]]

\* The rewritten file takes the place of authorized_keys: without the removed key, or with
\* every line scoped once migrate has granted everything.
Rewritten(e) ==
    [k \in SshKeys |-> IF e.seen[k] = "none" THEN "none"
                       ELSE IF e.op = "migrate" THEN "scoped"
                       ELSE IF k = e.key THEN "none" ELSE e.seen[k]]

RenameLines(c) ==
    LET e == clerk[c]
    IN /\ e.at = "rename" \/ (e.at = "grants" /\ e.todo = {})
       /\ lines' = Rewritten(e)
       /\ clerk' = [d \in Clerks |-> IF d = c THEN IdleClerk ELSE [clerk[d] EXCEPT !.open = FALSE]]
       /\ UNCHANGED <<access, wanted, dashboard, mixed, session, clerkCount, clerkFaults>>

ClerkStops(c) ==
    /\ clerk[c].at # "idle"
    /\ clerkFaults < MaxClerkFaults
    /\ clerk' = [clerk EXCEPT ![c] = IdleClerk]
    /\ mixed' = (mixed \/ clerk[c].at = "fill")
    /\ clerkFaults' = clerkFaults + 1
    /\ UNCHANGED <<lines, access, wanted, dashboard, session, clerkCount>>

-----------------------------------------------------------------------------
(* The dashboard and sshd.                                                 *)

\* The dashboard stops; its requests with it.
DashboardStops ==
    /\ dashboard # "down"
    /\ \A c \in ActiveClerks : clerk[c].op \notin KeyOps
    /\ dashboard' = "down"
    /\ UNCHANGED <<lines, access, wanted, clerk, mixed, session, clerkCount, clerkFaults>>

\* Variant: no guard.
DashboardStartsUnguarded(mode) ==
    /\ dashboard = "down"
    /\ dashboard' = mode
    /\ UNCHANGED <<lines, access, wanted, clerk, mixed, session, clerkCount, clerkFaults>>

\* scopedAccessGuard: it starts in scoped mode only when no line would bypass it.
DashboardStarts(mode) ==
    /\ dashboard = "down"
    /\ mode = "scoped" => \A k \in SshKeys : lines[k] # "plain"
    /\ dashboard' = mode
    /\ UNCHANGED <<lines, access, wanted, clerk, mixed, session, clerkCount, clerkFaults>>

Allows(grants, k, write) == grants[k] = "write" \/ (grants[k] = "read" /\ ~write)

\* A client connects.  A plain line runs git; a scoped one runs `gateway shell`, which
\* denies what access.json does not grant, and everything when it does not parse.
Connect(k, r, write) ==
    /\ lines[k] # "none"
    /\ session' = [allowed |-> \/ lines[k] = "plain"
                               \/ access[r].whole /\ Allows(access[r].grants, k, write),
                   wanted |-> Allows(wanted[r], k, write),
                   scoped |-> dashboard = "scoped"]
    /\ UNCHANGED <<lines, access, wanted, dashboard, clerk, mixed, clerkCount, clerkFaults>>

KeyAccessNext ==
    \/ \E c \in Clerks :
          \/ \E k \in SshKeys :
                \/ \E op \in KeyOps : StartClerk(c, op, k, IdleClerk.repo, "none")
                \/ \E r \in ScopedRepos :
                      \/ \E level \in {"read", "write"} : StartClerk(c, "grant", k, r, level)
                      \/ StartClerk(c, "revoke", k, r, "none")
          \/ StartClerk(c, "migrate", IdleClerk.key, IdleClerk.repo, "write")
          \/ LoadAccess(c)
          \/ NextGrant(c)
          \/ CutAccess(c)
          \/ FillAccess(c)
          \/ ReadLines(c)
          \/ AppendLine(c)
          \/ RenameLines(c)
          \/ ClerkStops(c)
    \/ DashboardStops
    \/ \E mode \in {"plain", "scoped"} : DashboardStarts(mode)
    \/ \E k \in SshKeys, r \in ScopedRepos, write \in BOOLEAN : Connect(k, r, write)

KeyAccessSpec == KeyAccessInit /\ [][KeyAccessNext]_keyVars

-----------------------------------------------------------------------------
(* Properties.                                                             *)

KeyAccessTypeOK ==
    /\ lines \in [SshKeys -> LineForms]
    /\ access \in [ScopedRepos -> [whole : BOOLEAN, grants : Grants]]
    /\ wanted \in [ScopedRepos -> Grants]
    /\ dashboard \in {"plain", "scoped", "down"}
    /\ mixed \in BOOLEAN
    /\ session \in [allowed : BOOLEAN, wanted : BOOLEAN, scoped : BOOLEAN]
    /\ clerkCount \in 0 .. MaxClerkRequests
    /\ clerkFaults \in 0 .. MaxClerkFaults
    /\ clerk \in [Clerks -> ClerkStates]

\* While the dashboard runs in scoped mode, what the shell allows is what the completed
\* grants and revocations say: a reader never gets in on a file that is half-written, and
\* no line added, removed or migrated meanwhile goes around the grants.  The exception is
\* two requests that overlapped, or one that stopped in its write.
OnlyTheGranted == session.scoped /\ session.allowed => session.wanted \/ mixed

\* A key that was removed comes back only when somebody adds it, unless two requests
\* overlapped: a migration that read the file before the removal writes it back.
RemovedStaysOut ==
    [][\A k \in SshKeys :
          lines[k] = "none" /\ lines'[k] # "none"
             => mixed \/ \E c \in Clerks : clerk[c].op = "add" /\ clerk[c].key = k]_keyVars
=============================================================================
