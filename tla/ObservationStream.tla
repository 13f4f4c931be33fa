-------------------------- MODULE ObservationStream --------------------------
(***************************************************************************)
(* What HFIOR promises of the shared observation stream, with no memory,   *)
(* no slots and no messages: the producer offers observations one at a     *)
(* time; a full stream drops the NEWEST one; the consumer receives the     *)
(* accepted ones in order, each once; capacity is given back only for      *)
(* what the consumer already has.  Ring implements this specification.     *)
(*                                                                         *)
(* An observation is its sequence number: the n-th offered is n.           *)
(***************************************************************************)
EXTENDS Integers, Sequences

CONSTANTS
  Capacity      \* how many accepted, unreclaimed observations are retained

VARIABLES
  offered,      \* how many observations the producer has disposed of
  accepted,     \* the accepted ones, in order
  origin,       \* the consumer joined after this many accepted ones; -1 before
  received,     \* what the consumer was given since it joined
  reclaimed     \* accepted observations whose slots the producer may reuse

streamVars == <<offered, accepted, origin, received, reclaimed>>

Joined == origin # -1

\* The accepted observations the consumer has been given or has skipped.
ReadPosition == origin + Len(received)

StreamInit ==
  /\ offered = 0
  /\ accepted = <<>>
  /\ origin = -1
  /\ received = <<>>
  /\ reclaimed = 0

\* The stream has room: the observation is retained.
Accept ==
  /\ Len(accepted) - reclaimed < Capacity
  /\ offered' = offered + 1
  /\ accepted' = Append(accepted, offered')
  /\ UNCHANGED <<origin, received, reclaimed>>

\* The stream is full: the newest observation is dropped, nothing retained moves.
DropNewest ==
  /\ Len(accepted) - reclaimed = Capacity
  /\ offered' = offered + 1
  /\ UNCHANGED <<accepted, origin, received, reclaimed>>

\* The consumer starts at the reclaimed position or at the newest observation.
Join ==
  /\ ~Joined
  /\ origin' \in {reclaimed, Len(accepted)}
  /\ UNCHANGED <<offered, accepted, received, reclaimed>>

\* The consumer takes the next n accepted observations.
Deliver(n) ==
  /\ Joined
  /\ ReadPosition + n <= Len(accepted)
  /\ received' = received \o SubSeq(accepted, ReadPosition + 1, ReadPosition + n)
  /\ UNCHANGED <<offered, accepted, origin, reclaimed>>

\* Capacity comes back, and never for an observation the consumer still needs.
Reclaim(position) ==
  /\ Joined
  /\ position \in reclaimed .. ReadPosition
  /\ reclaimed' = position
  /\ UNCHANGED <<offered, accepted, origin, received>>

\* The one-call drain of a single process: take n and give their room back.
DeliverAndReclaim(n) ==
  /\ Joined
  /\ ReadPosition + n <= Len(accepted)
  /\ received' = received \o SubSeq(accepted, ReadPosition + 1, ReadPosition + n)
  /\ reclaimed' = ReadPosition + n
  /\ UNCHANGED <<offered, accepted, origin>>

StreamNext ==
  \/ Accept
  \/ DropNewest
  \/ Join
  \/ \E n \in 1 .. Len(accepted) : Deliver(n) \/ DeliverAndReclaim(n)
  \/ \E position \in 0 .. Len(accepted) : Reclaim(position)

StreamSpec == StreamInit /\ [][StreamNext]_streamVars
=============================================================================
