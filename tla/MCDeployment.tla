----------------------------- MODULE MCDeployment -----------------------------
(* Two servers and three processes: the second server may find an orphan   *)
(* of the first, a child of a process that failed under it, and a module   *)
(* loaded with another port.                                               *)
EXTENDS Deployment

CONSTANTS none, zero, port, word

MCPortText == {none, zero, port, word}
MCDigits == [text \in {zero, port} |-> IF text = zero THEN 0 ELSE 7]
=============================================================================
