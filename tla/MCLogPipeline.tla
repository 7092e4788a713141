--------------------------- MODULE MCLogPipeline ---------------------------
(* Two readers of one service's output; the second line of one is a long one. *)
EXTENDS LogPipeline

CONSTANTS out, err

MCLineBound == [s \in Senders |-> IF s = out THEN 3 ELSE 1]

MCNeeded(line) == IF line.n = 2 THEN 2 ELSE 1
=============================================================================
