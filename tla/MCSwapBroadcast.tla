--------------------------- MODULE MCSwapBroadcast ---------------------------
(* Two POSTs of a swap: the same hash again, or another one. *)
EXTENDS SwapBroadcast

CONSTANTS h1, h2, p1, p2

MCHash == {h1, h2}
MCPost == {p1, p2}
MCSubmits == {[p \in MCPost |-> h1], [p \in MCPost |-> IF p = p1 THEN h1 ELSE h2]}
=============================================================================
