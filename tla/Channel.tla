------------------------------- MODULE Channel -------------------------------
(***************************************************************************)
(* What one direction of a connection promises to the code above it: the   *)
(* messages handed to the other side are, whole and in order, the first    *)
(* ones of those that were sent, and each is handed over once.  A message  *)
(* may never arrive, and then neither does any after it.                   *)
(***************************************************************************)
EXTENDS Naturals, Sequences

VARIABLES
    sent,       \* the messages given to Send
    received    \* the messages given to the other side

Init == sent = <<>> /\ received = <<>>

\* One more message, of any kind.
Send ==
    /\ Len(sent') = Len(sent) + 1
    /\ \A i \in 1 .. Len(sent) : sent'[i] = sent[i]
    /\ UNCHANGED received

Receive ==
    /\ Len(received) < Len(sent)
    /\ received' = Append(received, sent[Len(received) + 1])
    /\ UNCHANGED sent

Next == Send \/ Receive

Spec == Init /\ [][Next]_<<sent, received>>
=============================================================================
