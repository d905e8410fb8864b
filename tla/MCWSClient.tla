----------------------------- MODULE MCWSClient -----------------------------
(* Instance of WSClient for TLC: two timer threads, so that one of them may be overtaken. *)
EXTENDS WSClient, TLC

CONSTANTS h1, h2

MCTimerThreads == {h1, h2}
Symmetric == Permutations(MCTimerThreads)
=============================================================================
