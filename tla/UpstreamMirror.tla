--------------------------- MODULE UpstreamMirror ---------------------------
(***************************************************************************)
(* What the gateway promises about the upstream repository, seen from      *)
(* outside: the upstream is a mirror that only ever moves to ref values    *)
(* the gate has accepted, never rewinds a branch, never moves a tag, and   *)
(* loses a ref only when a delete of that very ref was accepted.  How a    *)
(* value travels (post-receive, relay service, reconcile backstop) and how *)
(* often a step fails is left open.  GateRelay implements this module.     *)
(***************************************************************************)
CONSTANTS Heads,     \* branch refs (refs/heads/...)
          Tags,      \* every other ref
          Revs,      \* revisions
          Ancestry,  \* <<a, b>>: a is b or one of its ancestors
          NoRev,     \* the zero revision: the ref does not exist
          Seed       \* the values the gateway and the upstream start from

Refs == Heads \cup Tags

VARIABLES accepted,  \* the ref updates <<ref, value>> the gate has accepted
          mirror     \* ref -> value at the upstream

vars == <<accepted, mirror>>

\* May ref r go from value a to value b without a forced update?
Advances(r, a, b) ==
    \/ a = NoRev
    \/ b = NoRev
    \/ r \in Heads /\ <<a, b>> \in Ancestry
    \/ a = b

Init ==
    /\ accepted = {<<r, Seed[r]>> : r \in {x \in Refs : Seed[x] # NoRev}}
    /\ mirror = Seed

\* The gate lets the updates in S through, all of them together.
Accept(S) ==
    /\ accepted' = accepted \cup S
    /\ UNCHANGED mirror

\* The upstream takes over some accepted values.
Deliver ==
    /\ mirror' \in [Refs -> Revs \cup {NoRev}]
    /\ \A r \in Refs :
          mirror'[r] # mirror[r] =>
             /\ <<r, mirror'[r]>> \in accepted
             /\ Advances(r, mirror[r], mirror'[r])
    /\ UNCHANGED accepted

Next == Deliver \/ \E S \in SUBSET (Refs \X (Revs \cup {NoRev})) : Accept(S)

Spec == Init /\ [][Next]_vars
=============================================================================
