----------------------------- MODULE RespChannel ----------------------------
(***************************************************************************)
(* What an encoder and a decoder at the two ends of a connection promise   *)
(* together: a channel of values. Values arrive whole, in the order they   *)
(* were sent, none twice and none that was not sent; the channel may stop  *)
(* at any point.                                                           *)
(***************************************************************************)
EXTENDS Sequences, Integers

VARIABLES
    sent,      \* the values sent so far
    received   \* the values received so far

vars == <<sent, received>>

Init == received = <<>>

Send ==
    /\ Len(sent') = Len(sent) + 1
    /\ SubSeq(sent', 1, Len(sent)) = sent
    /\ UNCHANGED received

Receive ==
    /\ Len(received) < Len(sent)
    /\ received' = Append(received, sent[Len(received) + 1])
    /\ UNCHANGED sent

Next == Send \/ Receive

Spec == Init /\ [][Next]_vars
=============================================================================
