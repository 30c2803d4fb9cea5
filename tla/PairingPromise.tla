--------------------------- MODULE PairingPromise ---------------------------
(***************************************************************************)
(* What pairing promises the owner of an account, with no modal, no polls  *)
(* and no server cache in sight: a device becomes theirs only after it     *)
(* presented a code of theirs and they then answered the challenge for     *)
(* that very device.                                                       *)
(***************************************************************************)
CONSTANT Devices

VARIABLES presented, challenged, owned

vars == <<presented, challenged, owned>>

Init == presented = {} /\ challenged = {} /\ owned = {}

Present(d) == presented' = presented \cup {d} /\ UNCHANGED <<challenged, owned>>

Challenge(d) ==
    /\ d \in presented
    /\ challenged' = challenged \cup {d}
    /\ UNCHANGED <<presented, owned>>

Own(d) ==
    /\ d \in challenged
    /\ owned' = owned \cup {d}
    /\ UNCHANGED <<presented, challenged>>

Next == \E d \in Devices : Present(d) \/ Challenge(d) \/ Own(d)

Spec == Init /\ [][Next]_vars
=============================================================================
