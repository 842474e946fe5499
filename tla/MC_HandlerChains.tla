--------------------------- MODULE MC_HandlerChains ---------------------------
(* Two requests, one response besides nil, chains of up to two handlers.   *)
EXTENDS HandlerChains

CONSTANTS q1, q2, p1, nil

MCReqs == {q1, q2}
MCResps == {p1}

=============================================================================
