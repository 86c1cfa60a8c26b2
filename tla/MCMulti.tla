------------------------------ MODULE MCMulti -------------------------------
(* An instance of Multi: three keys, two of them in one slot. *)
EXTENDS Multi, TLC

CONSTANTS k1, k2, k3, s1, s2

MCKeys == {k1, k2, k3}
MCSlotOf == k1 :> s1 @@ k2 :> s1 @@ k3 :> s2
=============================================================================
