----------------------------- MODULE GatePolicy -----------------------------
(***************************************************************************)
(* gateway.toml of one repository.  Dashboard requests read it, change one *)
(* setting and write the whole file back; the hooks and the relay service  *)
(* read it while they do.  Most requests truncate the file and write it in *)
(* place (FilePolicyStore.Save); the notification form writes a temporary  *)
(* file and renames it (writeNotifRailTOML).                               *)
(*                                                                         *)
(* A request is one process: it may stop between two of its steps, and it  *)
(* overlaps with the other requests and with the pushes.                   *)
(***************************************************************************)
EXTENDS Naturals, FiniteSets

CONSTANTS Savers,          \* the requests that may run at the same time
          Forms,           \* the settings the requests change
          GatePushes,      \* the pushes
          MaxSaves,        \* bound: requests started
          MaxSaveFaults    \* bound: requests that stop half-way

\* The settings: the gate, advisory mode, the upstream with the protected refs, the
\* notification section.
Fields == {"enabled", "observe", "refs", "rail"}

ASSUME GatePolicyAssumption ==
    Forms \subseteq Fields /\ MaxSaves \in Nat /\ MaxSaveFaults \in Nat

Policies == SUBSET Fields          \* a policy is the set of the settings that are on

With(policy, f, v) == IF v THEN policy \cup {f} ELSE policy \ {f}

Registered == {"enabled", "refs"}

\* The file: whole; empty, which is valid TOML and decodes to a policy with every setting
\* off; or two writes laid over each other, which does not decode.
Whole(policy) == [kind |-> "whole", on |-> policy]
Empty == [kind |-> "empty", on |-> {}]
Garbled == [kind |-> "garbled", on |-> {}]
Contents == {Whole(policy) : policy \in Policies} \cup {Empty, Garbled}

VARIABLES toml,      \* gateway.toml
          asked,     \* each setting as the last request that completed wanted it
          spoilt,    \* a request stopped in its write, or two of them overlapped
          saver,     \* the requests
          gate,      \* the pushes: where the hooks are and what they saw
          saveCount, saveFaults

gatePolicyVars == <<toml, asked, spoilt, saver, gate, saveCount, saveFaults>>

IdleSaver == [at |-> "idle", field |-> "enabled", copy |-> {}]

GatePolicyTypeOK ==
    /\ toml \in Contents
    /\ asked \in Policies
    /\ spoilt \in BOOLEAN
    /\ saver \in [Savers -> [at : {"idle", "loaded", "truncated"}, field : Fields,
                             copy : Policies]]
    /\ gate \in [GatePushes -> [at : {"new", "accepted", "relayed", "failed", "rejected"},
                                checked : BOOLEAN, off : BOOLEAN, gap : BOOLEAN]]
    /\ saveCount \in 0 .. MaxSaves
    /\ saveFaults \in 0 .. MaxSaveFaults

GatePolicyInit ==
    /\ toml = Whole(Registered)
    /\ asked = Registered
    /\ spoilt = FALSE
    /\ saver = [s \in Savers |-> IdleSaver]
    /\ gate = [p \in GatePushes |->
                  [at |-> "new", checked |-> FALSE, off |-> FALSE, gap |-> FALSE]]
    /\ saveCount = 0
    /\ saveFaults = 0

Busy == {s \in Savers : saver[s].at # "idle"}

\* The setting request s is about, as it wants it.
Request(s) == With(asked, saver[s].field, saver[s].field \in saver[s].copy)

-----------------------------------------------------------------------------
(* The requests.                                                           *)

\* A request loads the policy and sets its field; a file that does not parse is an error.
LoadPolicy(s, f, v) ==
    /\ saver[s].at = "idle"
    /\ saveCount < MaxSaves
    /\ toml # Garbled
    /\ saver' = [saver EXCEPT ![s] = [at |-> "loaded", field |-> f,
                                      copy |-> With(toml.on, f, v)]]
    /\ spoilt' = (spoilt \/ Busy # {})
    /\ saveCount' = saveCount + 1
    /\ UNCHANGED <<toml, asked, gate, saveFaults>>

\* O_TRUNC: from here to the write the file is empty.
Truncate(s) ==
    /\ saver[s].at = "loaded"
    /\ saver[s].field # "rail"
    /\ toml' = Empty
    /\ saver' = [saver EXCEPT ![s].at = "truncated"]
    /\ UNCHANGED <<asked, spoilt, gate, saveCount, saveFaults>>

\* Variant: the renderer does not know the notification section.
WriteWithoutRail(s) ==
    /\ saver[s].at = "truncated"
    /\ toml' = Whole(saver[s].copy \ {"rail"})
    /\ asked' = Request(s)
    /\ saver' = [saver EXCEPT ![s] = IdleSaver]
    /\ UNCHANGED <<spoilt, gate, saveCount, saveFaults>>

\* A policy fits the encoder's buffer, so it is written at once, at the offset of the
\* request's own file handle: over what another request wrote there since the truncation.
WritePolicy(s) ==
    /\ saver[s].at = "truncated"
    /\ toml' \in {Whole(saver[s].copy)} \cup (IF toml = Empty THEN {} ELSE {Garbled})
    /\ asked' = Request(s)
    /\ saver' = [saver EXCEPT ![s] = IdleSaver]
    /\ UNCHANGED <<spoilt, gate, saveCount, saveFaults>>

\* The notification form: a temporary file, then a rename.
RenamePolicy(s) ==
    /\ saver[s].at = "loaded"
    /\ saver[s].field = "rail"
    /\ toml' = Whole(saver[s].copy)
    /\ asked' = Request(s)
    /\ saver' = [saver EXCEPT ![s] = IdleSaver]
    /\ UNCHANGED <<spoilt, gate, saveCount, saveFaults>>

\* The request's process stops, or the write fails (a full disk).
SaverStops(s) ==
    /\ saver[s].at # "idle"
    /\ saveFaults < MaxSaveFaults
    /\ saver' = [saver EXCEPT ![s] = IdleSaver]
    /\ spoilt' = (spoilt \/ saver[s].at = "truncated")
    /\ saveFaults' = saveFaults + 1
    /\ UNCHANGED <<toml, asked, gate, saveCount>>

-----------------------------------------------------------------------------
(* The pushes.                                                             *)

\* Variant: advisory mode skips the check instead of its verdict.
GatePushAdvisory(p, dirty) ==
    LET check == {"enabled", "refs"} \subseteq toml.on /\ "observe" \notin toml.on
    IN /\ gate[p].at = "new"
       /\ gate' = [gate EXCEPT ![p] =
             [at |-> IF toml = Garbled \/ (check /\ dirty) THEN "rejected" ELSE "accepted",
              checked |-> check,
              off |-> ~({"enabled", "refs"} \subseteq asked),
              gap |-> toml = Empty]]
       /\ UNCHANGED <<toml, asked, spoilt, saver, saveCount, saveFaults>>

\* pre-receive loads the policy once and decides.  A load error rejects; a gate that is
\* off, or that names no ref, accepts without a check.  A checked push that is dirty is
\* rejected, unless the mode is advisory.
GatePush(p, dirty) ==
    LET check == {"enabled", "refs"} \subseteq toml.on
    IN /\ gate[p].at = "new"
       /\ gate' = [gate EXCEPT ![p] =
             [at |-> IF toml = Garbled \/ (check /\ dirty /\ "observe" \notin toml.on)
                     THEN "rejected" ELSE "accepted",
              checked |-> check,
              off |-> ~({"enabled", "refs"} \subseteq asked),
              gap |-> toml = Empty]]
       /\ UNCHANGED <<toml, asked, spoilt, saver, saveCount, saveFaults>>

\* post-receive, or the relay service, loads the policy again for the upstream: an error
\* and an empty upstream deliver nothing.
RelayPush(p) ==
    /\ gate[p].at = "accepted"
    /\ gate' = [gate EXCEPT ![p].at =
                   IF "refs" \in toml.on THEN "relayed" ELSE "failed"]
    /\ UNCHANGED <<toml, asked, spoilt, saver, saveCount, saveFaults>>

GatePolicyNext ==
    \/ \E s \in Savers :
          \/ \E f \in Forms, v \in BOOLEAN : LoadPolicy(s, f, v)
          \/ Truncate(s)
          \/ WritePolicy(s)
          \/ RenamePolicy(s)
          \/ SaverStops(s)
    \/ \E p \in GatePushes :
          \/ \E dirty \in BOOLEAN : GatePush(p, dirty)
          \/ RelayPush(p)

GatePolicySpec == GatePolicyInit /\ [][GatePolicyNext]_gatePolicyVars

-----------------------------------------------------------------------------
(* Properties.                                                             *)

\* A request changes the setting of its form and preserves the rest of the policy
\* (policy.go, SetObserve), as long as no two requests overlapped and none stopped in its
\* write.
RestPreserved == ~spoilt /\ Busy = {} => toml = Whole(asked)

\* A push that reached the upstream without a check was gated while the operator had the
\* gate off, or while the file was truncated, or after a request was spoilt: the gate never
\* opens for another reason, whatever the hooks read.
UncheckedExplained ==
    \A p \in GatePushes :
        gate[p].at = "relayed" /\ ~gate[p].checked
            => gate[p].off \/ gate[p].gap \/ spoilt

\* README: every push is checked against the rules the operator turned on.  What reaches
\* the upstream unchecked was pushed while the operator had the gate off.
EveryRelayChecked ==
    \A p \in GatePushes :
        gate[p].at = "relayed" /\ ~gate[p].checked => gate[p].off
=============================================================================
