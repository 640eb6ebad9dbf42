------------------------------ MODULE MsgChannel ------------------------------
(***************************************************************************)
(* What a connection promises to the code that uses it: the messages the   *)
(* peer has sent since the connection was made arrive whole, once and in   *)
(* order.  A connection that breaks starts again with nothing.             *)
(***************************************************************************)
EXTENDS Naturals, Sequences

VARIABLES sent, delivered

\* The peer sends one more message, whatever it is.
Send ==
    /\ Len(sent') = Len(sent) + 1 /\ SubSeq(sent', 1, Len(sent)) = sent
    /\ UNCHANGED delivered

Deliver ==
    /\ Len(delivered) < Len(sent)
    /\ delivered' = Append(delivered, sent[Len(delivered) + 1])
    /\ UNCHANGED sent

Break == sent' = <<>> /\ delivered' = <<>>

Init == sent = <<>> /\ delivered = <<>>

Next == Send \/ Deliver \/ Break

Spec == Init /\ [][Next]_<<sent, delivered>>
=============================================================================
