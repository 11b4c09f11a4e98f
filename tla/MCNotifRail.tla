---------------------------- MODULE MCNotifRail ----------------------------
(* Small instances of NotifRail. *)
EXTENDS NotifRail, TLC

CONSTANTS r1, r2, c1

Perms == Permutations({r1, r2})
=============================================================================
