----------------------------- MODULE MCFixLoop -----------------------------
(* Small instances of FixLoop. *)
EXTENDS FixLoop, TLC

CONSTANTS botA, botB, human, gateBot, none, f1

Cfg(max, perBot, bots, onRepeat, fallback) ==
    [max |-> max, perBot |-> perBot, bots |-> bots, onRepeat |-> onRepeat,
     fallback |-> fallback, default |-> gateBot]

\* No rotation; rotation that wraps; rotation that ends with the human before or at the
\* limit; a limit of one; a bot that is its own fallback.
AllConfigs ==
    {Cfg(3, 2, <<>>, TRUE, human), Cfg(6, 1, <<botA, botB>>, FALSE, none),
     Cfg(4, 2, <<botA, botB>>, FALSE, human), Cfg(6, 2, <<botA, botB>>, TRUE, human),
     Cfg(2, 2, <<botA, botB>>, TRUE, human), Cfg(3, 1, <<botA>>, FALSE, human),
     Cfg(1, 1, <<botA>>, TRUE, botA)}
=============================================================================
