-------------------------------- MODULE Pipe --------------------------------
(***************************************************************************)
(* What the reliable channel promises the application (SPEC.md 6.3, 6.4):  *)
(* packets come out whole, once each, in the order in which they went in.  *)
(***************************************************************************)
EXTENDS Sequences, Naturals

CONSTANT Packets

VARIABLES sent,     \* packets the sender's push accepted
          got       \* packets handed to the receiver's queue

vars == <<sent, got>>

Init == sent = <<>> /\ got = <<>>

(* One more packet, behind the others. *)
Send ==
    /\ Len(sent') = Len(sent) + 1
    /\ SubSeq(sent', 1, Len(sent)) = sent
    /\ sent'[Len(sent) + 1] \in Packets
    /\ UNCHANGED got

Deliver ==
    /\ Len(got) < Len(sent)
    /\ got' = Append(got, sent[Len(got) + 1])
    /\ UNCHANGED sent

Next == Send \/ Deliver

Spec == Init /\ [][Next]_vars
=============================================================================
