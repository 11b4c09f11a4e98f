---------------------------- MODULE MCGateRelay ----------------------------
(* Small instances of GateRelay. *)
EXTENDS GateRelay, TLC

CONSTANTS p1, p2, v1, v2, x1, main, dev, tag, none, keep, backstop

\* v1 <- v2 is a line of history; x1 forked from v1.
Fork == {<<v1, v1>>, <<v2, v2>>, <<x1, x1>>, <<v1, v2>>, <<v1, x1>>}

Perms == Permutations({p1, p2})

Ref(r, v) == [x \in Refs |-> IF x = r THEN v ELSE keep]
Both(r, v, s, w) == [x \in Refs |-> CASE x = r -> v [] x = s -> w [] OTHER -> keep]

\* Two branches: deletes of a protected and of a free branch, and batches that mix an
\* update which must pass alone with one which must not.
BranchPushes == {Ref(main, none), Both(main, x1, dev, v2), Both(main, v2, dev, none)}

\* A branch and a tag, forced updates, moved and deleted tags.
TagPushes == {Ref(main, v2), Ref(main, v1), Ref(tag, none),
              Both(main, v2, tag, v1), Both(main, x1, tag, v2)}

\* One branch that moves forward, is forced aside and is deleted.
LinePushes == {Ref(main, v2), Ref(main, x1), Ref(main, none)}

\* Branch pushes without deletes and forced updates.
ForwardPushes == {Ref(main, v2)}

\* What both sides hold at registration.
BothSeeded == [r \in Refs |-> IF r \in Heads THEN v1 ELSE none]

MainSeeded == [r \in Refs |-> IF r = main THEN v1 ELSE none]
=============================================================================
