---------------------------- MODULE LeasedStream ----------------------------
(***************************************************************************)
(* What the Wayland integration promises: a stream is a lease.  While it   *)
(* lasts, what is observed is kept, or dropped when there is no room.  The *)
(* game applies a lease's history from its beginning, without a gap and    *)
(* each record once; room comes back for applied records only; and once    *)
(* the next lease is granted nothing of an older one is applied.           *)
(* GameClient implements this specification.                               *)
(*                                                                         *)
(* An observation is its sequence number, over all leases.                 *)
(***************************************************************************)
EXTENDS Integers, Sequences

CONSTANTS
  Capacity     \* how many accepted, unreclaimed observations a lease keeps

VARIABLES
  leased,      \* a lease lasts
  observed,    \* observations so far, in any lease
  accepted,    \* those the current lease, or the last one, has accepted
  position,    \* how many of them have been applied
  reclaimed,   \* how many of them have given their room back
  applied      \* everything applied, over all leases

leaseVars == <<leased, observed, accepted, position, reclaimed, applied>>

LeaseInit ==
  /\ leased = FALSE
  /\ observed = 0
  /\ accepted = <<>> /\ position = 0 /\ reclaimed = 0
  /\ applied = <<>>

\* A lease begins empty.
Grant ==
  /\ ~leased
  /\ leased' = TRUE
  /\ accepted' = <<>> /\ position' = 0 /\ reclaimed' = 0
  /\ UNCHANGED <<observed, applied>>

\* It is taken back, or given back.
End ==
  /\ leased
  /\ leased' = FALSE
  /\ UNCHANGED <<observed, accepted, position, reclaimed, applied>>

Accept ==
  /\ leased
  /\ Len(accepted) - reclaimed < Capacity
  /\ observed' = observed + 1
  /\ accepted' = Append(accepted, observed')
  /\ UNCHANGED <<leased, position, reclaimed, applied>>

DropNewest ==
  /\ leased
  /\ Len(accepted) - reclaimed = Capacity
  /\ observed' = observed + 1
  /\ UNCHANGED <<leased, accepted, position, reclaimed, applied>>

\* The next n records of the lease, if nothing is missing between its first record
\* and the last of them.  What was read before the lease ended may still be applied.
Apply(n) ==
  /\ position + n <= Len(accepted)
  /\ \A i \in 1 .. position + n - 1 : accepted[i + 1] = accepted[i] + 1
  /\ applied' = applied \o SubSeq(accepted, position + 1, position + n)
  /\ position' = position + n
  /\ UNCHANGED <<leased, observed, accepted, reclaimed>>

Reclaim(to) ==
  /\ leased
  /\ to \in reclaimed .. position
  /\ reclaimed' = to
  /\ UNCHANGED <<leased, observed, accepted, position, applied>>

LeaseNext ==
  \/ Grant \/ End \/ Accept \/ DropNewest
  \/ \E n \in 1 .. Len(accepted) : Apply(n) \/ Reclaim(n)

LeaseSpec == LeaseInit /\ [][LeaseNext]_leaseVars
=============================================================================
