---------------------------- MODULE MessageQueue ----------------------------
(***************************************************************************)
(* What WcpClient::getMessage promises: a queue of whole messages.  The    *)
(* viewer puts one in; the reader takes the oldest.  Bytes, buffers, how    *)
(* recv cuts the stream and which thread reads are no part of it.           *)
(***************************************************************************)
EXTENDS Sequences

CONSTANT Msg       \* the messages

VARIABLES queue,   \* sent and not yet returned, oldest first
          got      \* the messages returned, in order

Init == queue = <<>> /\ got = <<>>

Put(m) == queue' = Append(queue, m) /\ UNCHANGED got

Take ==
  /\ queue # <<>>
  /\ got' = Append(got, Head(queue))
  /\ queue' = Tail(queue)

Next == Take \/ \E m \in Msg : Put(m)

Spec == Init /\ [][Next]_<<queue, got>>
=============================================================================
