---------------------------- MODULE MCLinuxAgent ----------------------------
(* Instances of LinuxAgent for TLC: two commands, one of them delivered    *)
(* twice under different delivery ids.                                     *)
EXTENDS LinuxAgent, TLC

CONSTANTS c1, c2, d1, d2, d3

TwoCommands == {c1, c2}
ThreeDeliveries == {d1, d2, d3}
TwiceAndOnce == (d1 :> c1) @@ (d2 :> c1) @@ (d3 :> c2)

=============================================================================
