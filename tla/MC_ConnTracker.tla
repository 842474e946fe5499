--------------------------- MODULE MC_ConnTracker ---------------------------
(* Model-checking instance of ConnTracker: two or three connections, an    *)
(* idle threshold of 2 ticks and an exit timeout of 3 ticks, so that a     *)
(* drain sees connections go idle, sleeps, polls again, and times out.     *)
EXTENDS ConnTracker, TLC

CONSTANTS c1, c2, c3

MCConns1 == {c1}
MCConns2 == {c1, c2}
MCConns3 == {c1, c2, c3}

ConnSymmetry == Permutations(MCConns3)

=============================================================================
