--------------------------- MODULE MCUserSpaceRelay ---------------------------
(* Two calls on ports of their own; the first is set up, set up again and  *)
(* torn down, and its requests differ in length.                           *)
EXTENDS UserSpaceRelay, TLC

CONSTANTS s1, s1again, d1, s2, p5, p6, p7, p8

MCMessage == {s1, s1again, d1, s2}
MCSetup == {s1, s1again, s2}
MCPort == {p5, p6, p7, p8}
MCFirstPort == s2 :> p7 @@ [m \in MCMessage |-> p5]
MCSecondPort == s2 :> p8 @@ [m \in MCMessage |-> p6]
MCSize == d1 :> 1 @@ [m \in MCMessage |-> 2]
MCCell == 1 .. 2
=============================================================================
