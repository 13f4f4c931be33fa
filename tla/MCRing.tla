------------------------------- MODULE MCRing -------------------------------
(***************************************************************************)
(* Ring for TLC: the questions only TLC answers, what eventually happens.   *)
(* The bounds are constants of Ring; MCRing.cfg gives the instance.         *)
(***************************************************************************)
EXTENDS Ring

\* A published record is eventually returned by a drain of the frame loop.
EventuallyDelivered ==
  \A n \in 1 .. MaxSequence : head >= n ~> localTail >= n

\* The capacity of what the consumer has taken since it joined eventually comes
\* back to the producer through the acknowledgements (hfior_cursor_ack and the
\* bridge's validation), unless the device comes back as another generation: an
\* acknowledgement that overtakes is refused and not repeated.
EventuallyReclaimed ==
  \A n \in 1 .. MaxSequence :
    (consumerPC # "detached" /\ origin < n /\ localTail >= n) ~> (tail >= n \/ generation > 1)

=============================================================================
