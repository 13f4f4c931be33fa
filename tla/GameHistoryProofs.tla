------------------------- MODULE GameHistoryProofs -------------------------
(***************************************************************************)
(* Proofs about the history the camera moves by, for a game whose "eager"  *)
(* window always has a size (what a frame without size has read early is   *)
(* lost, which the runs show).                                             *)
(*                                                                         *)
(* HistoryInv is inductive on top of GameInv: there is a number of records *)
(* of the stream that have moved the camera, which are the newest of all   *)
(* that have, and the records a frame still holds come next, up to the     *)
(* cursor.                                                                 *)
(*                                                                         *)
(* The second half shows that the compositor, the client library and the   *)
(* frame loop together implement LeasedStream: each of their steps is a    *)
(* step of the lease or none, with how much of the stream was applied as   *)
(* its position, which HistoryInv makes the number it speaks of            *)
(* (AppliedIs).                                                            *)
(***************************************************************************)
EXTENDS GameProofs

-----------------------------------------------------------------------------
\* What the frame holds, place by place.
BatchesEmpty ==
  /\ pc \in {"connect", "roundtrip", "ready", "early", "earlyCopy", "earlyFailed"} =>
       early = <<>>
  /\ pc \in {"connect", "roundtrip", "ready", "early", "earlyCopy", "earlyFailed",
             "size", "late", "lateCopy", "lateFailed"} => late = <<>>

\* Nothing has moved the camera that was not observed.
UsedKnown == \A i \in 1 .. Len(used) : used[i] < nextSequence

\* The newest n of what has moved the camera are the first n records of the stream,
\* without a gap, and all before are older than the stream.
NewestApplied(n) ==
  /\ n <= Len(log) /\ n <= Len(used)
  /\ \A i \in 1 .. n : used[Len(used) - n + i] = log[i]
  /\ \A i \in 1 .. Len(used) - n : \A j \in 1 .. Len(log) : used[i] < log[j]
  /\ \A i \in 1 .. n - 1 : log[i + 1] = log[i] + 1

\* They cover what was given back, or will be by an acknowledgement on its way.
RoomGivenBack(n) ==
  /\ tail <= n
  /\ \A i \in 1 .. Len(requests) :
       requests[i].type = "acknowledge" /\ requests[i].generation = streams =>
         requests[i].consumed <= n
  /\ "active" \in Range(events) => n = 0

\* They cover all that was measured.
MeasuredOf(n) == measuring => Len(used) - measuredFrom <= n

\* What the frame holds comes next, and ends at the cursor.
CursorAfter(n) ==
  /\ client.generation = 0 => Unapplied = <<>>
  /\ client.generation # 0 /\ pc # "end" =>
       /\ n + Len(Unapplied) = client.localTail
       /\ \A i \in 1 .. Len(Unapplied) : Unapplied[i] = log[n + i]

AppliedAre(n) ==
  /\ NewestApplied(n)
  /\ RoomGivenBack(n)
  /\ MeasuredOf(n)
  /\ CursorAfter(n)

HistoryInv ==
  /\ BatchesEmpty
  /\ UsedKnown
  /\ \E n \in 0 .. Len(log) : AppliedAre(n)

\* The window has a size whenever "eager" reads.
EagerKeepsSize == "eager" \notin Minimised

-----------------------------------------------------------------------------
LEMMA ModeIs ==
  ASSUME TypeOK
  PROVE  mode \in {"eager", "hfior"}
  BY GameAssumption DEF GameAssumption, TypeOK

\* What the frame holds is a sequence of records, and nothing outside of a frame.
LEMMA UnappliedIs ==
  ASSUME TypeOK
  PROVE  /\ Unapplied \in Seq(Sequence) /\ Len(Unapplied) \in Nat
         /\ pc \in {"poll", "ack", "next", "end"} => Unapplied = <<>>
         /\ early = <<>> /\ late = <<>> => Unapplied = <<>>
         /\ mode = "hfior" /\ late = <<>> => Unapplied = <<>>
<1>1. early \in Seq(Sequence) /\ late \in Seq(Sequence) /\ <<>> \in Seq(Sequence)
  BY EmptySeq DEF TypeOK
<1>2. early \o late \in Seq(Sequence) /\ <<>> \o late = late /\ <<>> \o <<>> = <<>>
  BY <1>1, ConcatProperties, ConcatEmptySeq
<1>3. Unapplied \in Seq(Sequence)
  BY <1>1, <1>2 DEF Unapplied
<1>4. mode = "eager" \/ mode # "eager"
  OBVIOUS
<1>5. early = <<>> /\ late = <<>> => Unapplied = <<>>
  BY <1>2 DEF Unapplied
<1>6. mode = "hfior" /\ late = <<>> => Unapplied = <<>>
  BY <1>2 DEF Unapplied
<1>7. QED BY <1>3, <1>5, <1>6 DEF Unapplied

\* A step that leaves the stream, the cursor and what was applied alone keeps the
\* history, if it also keeps what the frame holds.
LEMMA HistoryKept ==
  ASSUME HistoryInv, BatchesEmpty',
         UNCHANGED <<streams, log, tail, used, nextSequence>>,
         client'.generation = client.generation, client'.localTail = client.localTail,
         \A i \in 1 .. Len(requests') : requests'[i].type = "acknowledge" =>
           \E j \in 1 .. Len(requests) : requests'[i] = requests[j],
         "active" \in Range(events') => "active" \in Range(events),
         measuring' => \/ measuredFrom' = Len(used)
                       \/ measuring /\ measuredFrom' = measuredFrom,
         \/ pc # "end" /\ Unapplied' = Unapplied
         \/ pc' = "end" /\ Unapplied' = <<>>,
         Len(used) \in Nat
  PROVE  HistoryInv'
<1>1. PICK n \in 0 .. Len(log) : AppliedAre(n)
  BY DEF HistoryInv
<1>2. NewestApplied(n)'
  BY <1>1 DEF AppliedAre, NewestApplied
<1>3. RoomGivenBack(n)'
  BY <1>1 DEF AppliedAre, RoomGivenBack
<1>4. MeasuredOf(n)'
  BY <1>1 DEF AppliedAre, MeasuredOf
<1>5. CursorAfter(n)'
  BY <1>1 DEF AppliedAre, CursorAfter
<1>6. QED
  BY <1>1, <1>2, <1>3, <1>4, <1>5 DEF HistoryInv, UsedKnown, AppliedAre

\* The camera moves by batch, the records of the stream after its first n, up to m.
MovesBy(n, m, batch) ==
  /\ m = n + Len(batch) /\ m <= Len(log)
  /\ \A i \in 1 .. Len(batch) : batch[i] = log[n + i]
  /\ \A i \in 1 .. m - 1 : log[i + 1] = log[i] + 1
  /\ used' = used \o batch
  /\ NewestApplied(m)'
  /\ used' \in Seq(Sequence) /\ Len(used') = Len(used) + Len(batch)
  /\ \A i \in 1 .. Len(used') :
       \/ i \in 1 .. Len(used) /\ used'[i] = used[i]
       \/ \E k \in 1 .. Len(log) : used'[i] = log[k]

\* The next records of the stream move the camera.
LEMMA NextApplied ==
  ASSUME TypeOK, NEW n \in Nat, NewestApplied(n), UNCHANGED log,
         NEW batch \in Seq(Sequence), used' = used \o batch,
         NEW m, m = n + Len(batch), m <= Len(log),
         \A i \in 1 .. Len(batch) : batch[i] = log[n + i],
         \A i \in 1 .. m - 1 : log[i + 1] = log[i] + 1
  PROVE  /\ NewestApplied(m)'
         /\ used' \in Seq(Sequence) /\ Len(used') = Len(used) + Len(batch)
         /\ \A i \in 1 .. Len(used') :
              \/ i \in 1 .. Len(used) /\ used'[i] = used[i]
              \/ \E k \in 1 .. Len(log) : used'[i] = log[k]
<1>1. used \in Seq(Sequence) /\ Len(used) \in Nat /\ Len(batch) \in Nat /\ Len(log) \in Nat
      /\ n <= Len(used)
  BY DEF TypeOK, NewestApplied
<1>2. /\ used' \in Seq(Sequence) /\ Len(used') = Len(used) + Len(batch)
      /\ \A i \in 1 .. Len(used) + Len(batch) :
           used'[i] = IF i <= Len(used) THEN used[i] ELSE batch[i - Len(used)]
  BY <1>1, ConcatProperties
<1>3. \A i \in 1 .. Len(used) : used'[i] = used[i]
  BY <1>1, <1>2
<1>4. \A i \in 1 .. Len(batch) : used'[Len(used) + i] = log[n + i]
  <2>1. TAKE i \in 1 .. Len(batch)
  <2>2. /\ Len(used) + i \in 1 .. Len(used) + Len(batch) /\ ~(Len(used) + i <= Len(used))
        /\ Len(used) + i - Len(used) = i
    BY <1>1
  <2>3. QED BY <1>2, <2>2
<1>5. m <= Len(used')
  BY <1>1, <1>2
<1>6. \A i \in 1 .. m : used'[Len(used') - m + i] = log[i]
  <2>1. TAKE i \in 1 .. m
  <2>2. Len(used') - m + i = Len(used) - n + i
    BY <1>1, <1>2
  <2>3. CASE i <= n
    <3>1. Len(used) - n + i \in 1 .. Len(used) /\ i \in 1 .. n
      BY <1>1, <2>3
    <3>2. used[Len(used) - n + i] = log[i]
      BY <3>1 DEF NewestApplied
    <3>3. QED BY <1>3, <2>2, <3>1, <3>2
  <2>4. CASE n < i
    <3>1. i - n \in 1 .. Len(batch) /\ Len(used) + (i - n) = Len(used) - n + i
          /\ n + (i - n) = i
      BY <1>1, <2>4
    <3>2. used'[Len(used) + (i - n)] = log[n + (i - n)]
      BY <1>4, <3>1
    <3>3. QED BY <2>2, <3>1, <3>2
  <2>5. QED BY <1>1, <2>3, <2>4
<1>7. \A i \in 1 .. Len(used') - m : \A j \in 1 .. Len(log) : used'[i] < log[j]
  <2>1. \A i \in 1 .. Len(used') - m :
          i \in 1 .. Len(used) - n /\ i \in 1 .. Len(used)
    BY <1>1, <1>2
  <2>2. QED BY <1>3, <2>1 DEF NewestApplied
<1>8. NewestApplied(m)'
  BY <1>5, <1>6, <1>7 DEF NewestApplied
<1>9. \A i \in 1 .. Len(used') :
        \/ i \in 1 .. Len(used) /\ used'[i] = used[i]
        \/ \E k \in 1 .. Len(log) : used'[i] = log[k]
  <2>1. TAKE i \in 1 .. Len(used')
  <2>2. CASE i <= Len(used)
    BY <1>1, <1>2, <1>3, <2>2
  <2>3. CASE Len(used) < i
    <3>1. i - Len(used) \in 1 .. Len(batch) /\ Len(used) + (i - Len(used)) = i
          /\ n + (i - Len(used)) \in 1 .. Len(log)
      BY <1>1, <1>2, <2>3
    <3>2. used'[Len(used) + (i - Len(used))] = log[n + (i - Len(used))]
      BY <1>4, <3>1
    <3>3. QED BY <3>1, <3>2
  <2>4. QED BY <1>1, <1>2, <2>2, <2>3
<1>10. QED BY <1>2, <1>8, <1>9

-----------------------------------------------------------------------------
\* Records the compositor publishes or drops come after all that was applied.
LEMMA ObserveHistory ==
  ASSUME GameInv, HistoryInv, Observe
  PROVE  HistoryInv'
<1>1. PICK n \in 0 .. Len(log) : AppliedAre(n)
  BY DEF HistoryInv
<1>2. /\ nextSequence \in Nat /\ Len(log) \in Nat /\ Len(log') \in Nat
      /\ Len(log) <= Len(log') /\ Len(used) \in Nat
      /\ \A i \in 1 .. Len(log) : log'[i] = log[i]
      /\ \A i \in 1 .. Len(log') : i \in 1 .. Len(log) \/ log'[i] = nextSequence
  <2>1. nextSequence \in Nat /\ Len(used) \in Nat
    BY ObserveEffect, BoundsNat DEF Sequence, GameInv, TypeOK
  <2>2. /\ Len(log) \in Nat /\ Len(log') \in Nat
        /\ \A i \in 1 .. Len(log) : log'[i] = log[i]
        /\ \/ Len(log') = Len(log) + 1 /\ log'[Len(log) + 1] = nextSequence
           \/ log' = log
    BY ObserveEffect
  <2>3. \A i \in 1 .. Len(log') : i \in 1 .. Len(log) \/ log'[i] = nextSequence
    BY <2>2
  <2>4. QED BY <2>1, <2>2, <2>3
<1>3. \A i \in 1 .. Len(used) : used[i] \in Nat
  <2>1. used \in Seq(Sequence) /\ Sequence \subseteq Nat
    BY BoundsNat DEF Sequence, GameInv, TypeOK
  <2>2. \A i \in 1 .. Len(used) : used[i] \in Sequence
    BY <2>1, ElementOfSeq
  <2>3. QED BY <2>1, <2>2
<1>4. BatchesEmpty' /\ UsedKnown'
  BY ObserveEffect, <1>2, <1>3 DEF HistoryInv, BatchesEmpty, UsedKnown
<1>5. NewestApplied(n)'
  <2>1. \A i \in 1 .. n : i \in 1 .. Len(log)
    BY <1>1, <1>2
  <2>2. \A i \in 1 .. n - 1 : i \in 1 .. Len(log) /\ i + 1 \in 1 .. Len(log)
    BY <1>1, <1>2
  <2>3. \A i \in 1 .. Len(used) - n : \A j \in 1 .. Len(log') : used[i] < log'[j]
    <3>1. TAKE i \in 1 .. Len(used) - n
    <3>2. TAKE j \in 1 .. Len(log')
    <3>3. i \in 1 .. Len(used) /\ used[i] < nextSequence
      BY <1>1, <1>2 DEF HistoryInv, UsedKnown
    <3>4. j \in 1 .. Len(log) => used[i] < log[j]
      BY <1>1 DEF AppliedAre, NewestApplied
    <3>5. QED BY <1>2, <3>3, <3>4
  <2>4. /\ n <= Len(log') /\ n <= Len(used) /\ used' = used
        /\ \A i \in 1 .. n : used[Len(used) - n + i] = log'[i]
        /\ \A i \in 1 .. n - 1 : log'[i + 1] = log'[i] + 1
    <3>1. /\ n <= Len(log) /\ n <= Len(used)
          /\ \A i \in 1 .. n : used[Len(used) - n + i] = log[i]
          /\ \A i \in 1 .. n - 1 : log[i + 1] = log[i] + 1
      BY <1>1 DEF AppliedAre, NewestApplied
    <3>2. n <= Len(log') /\ used' = used
      BY ObserveEffect, <1>1, <1>2
    <3>3. QED BY <1>2, <2>1, <2>2, <3>1, <3>2
  <2>5. QED BY <2>3, <2>4 DEF NewestApplied
<1>6. RoomGivenBack(n)' /\ MeasuredOf(n)'
  BY ObserveEffect, <1>1 DEF AppliedAre, RoomGivenBack, MeasuredOf
<1>7. CursorAfter(n)'
  <2>1. Unapplied' = Unapplied
    BY ObserveEffect DEF Observe, Unapplied
  <2>2. client' = client /\ pc' = pc
    BY ObserveEffect DEF Observe
  <2>3. client.generation # 0 => client.localTail <= Len(log) /\ client.localTail \in Nat
    BY DEF GameInv, TypeOK, Typed, Client, GenerationKnown
  <2>4. Len(Unapplied) \in Nat
    BY UnappliedIs DEF GameInv
  <2>5. client.generation # 0 /\ pc # "end" =>
          \A i \in 1 .. Len(Unapplied) : n + i \in 1 .. Len(log)
    BY <1>1, <1>2, <2>3, <2>4 DEF AppliedAre, CursorAfter
  <2>6. QED BY <1>1, <1>2, <2>1, <2>2, <2>5 DEF AppliedAre, CursorAfter
<1>8. n \in 0 .. Len(log')
  BY <1>1, <1>2
<1>9. QED BY <1>4, <1>5, <1>6, <1>7, <1>8 DEF HistoryInv, AppliedAre

\* A revocation takes nothing from the history.
LEMMA RevokeHistory ==
  ASSUME GameInv, HistoryInv, Revoke
  PROVE  HistoryInv'
<1>1. BatchesEmpty' /\ Unapplied' = Unapplied
  BY RevokeEffect DEF Unapplied, HistoryInv, BatchesEmpty
<1>2. Len(used) \in Nat /\ (pc = "end" => Unapplied = <<>>)
  BY UnappliedIs DEF GameInv, TypeOK
<1>3. QED BY RevokeEffect, <1>1, <1>2, HistoryKept

\* A new stream has moved nothing yet, and there is nobody to have read from it.
LEMMA GetStreamHistory ==
  ASSUME GameInv, HistoryInv, requests # <<>>, Head(requests).type = "get_stream",
         HandleRequest
  PROVE  HistoryInv'
<1>1. BatchesEmpty' /\ Unapplied' = Unapplied /\ UsedKnown' /\ pc # "end"
  BY GetStreamEffect DEF Unapplied, HistoryInv, BatchesEmpty, UsedKnown
<1>2. Len(used) \in Nat
  BY DEF GameInv, TypeOK
<1>3. \A i \in 1 .. Len(requests') : FALSE
  BY GetStreamEffect
<1>4. CASE UNCHANGED <<granted, streams, log, tail, dropped>>
           /\ ("active" \in Range(events') => "active" \in Range(events))
  BY GetStreamEffect, <1>1, <1>2, <1>3, <1>4, HistoryKept
<1>5. CASE log' = <<>> /\ Len(log') = 0 /\ tail' = 0
  <2>1. PICK n \in 0 .. Len(log) : AppliedAre(n)
    BY DEF HistoryInv
  <2>2. client.generation = 0 /\ client' = client /\ ~measuring'
    BY GetStreamEffect DEF GameInv, MeasuringUsable, Usable
  <2>3. NewestApplied(0)'
    BY GetStreamEffect, <1>2, <1>5 DEF NewestApplied
  <2>4. RoomGivenBack(0)' /\ MeasuredOf(0)'
    BY <1>3, <1>5, <2>2 DEF RoomGivenBack, MeasuredOf
  <2>5. CursorAfter(0)'
    BY <1>1, <2>1, <2>2 DEF AppliedAre, CursorAfter
  <2>6. QED BY <1>1, <1>5, <2>3, <2>4, <2>5 DEF HistoryInv, AppliedAre
<1>6. QED BY GetStreamEffect, <1>4, <1>5

\* Room comes back for what was applied.
LEMMA TakeAcknowledgeHistory ==
  ASSUME GameInv, HistoryInv, requests # <<>>, Head(requests).type = "acknowledge",
         HandleRequest
  PROVE  HistoryInv'
<1>1. PICK n \in 0 .. Len(log) : AppliedAre(n)
  BY DEF HistoryInv
<1>2. BatchesEmpty' /\ Unapplied' = Unapplied /\ UsedKnown'
  BY TakeAcknowledgeEffect DEF Unapplied, HistoryInv, BatchesEmpty, UsedKnown
<1>3. NewestApplied(n)' /\ MeasuredOf(n)' /\ CursorAfter(n)'
  BY TakeAcknowledgeEffect, <1>1, <1>2 DEF AppliedAre, NewestApplied, MeasuredOf, CursorAfter
<1>4. tail' <= n
  <2>1. CASE requests[1].generation = granted /\ requests[1].consumed \in tail .. Len(log)
    <3>1. requests[1].generation # 0 /\ granted \in {0, streams} /\ 1 \in 1 .. Len(requests)
      <4>1. requests[1] \in Request /\ requests[1].type = "acknowledge"
            /\ 1 \in 1 .. Len(requests)
        BY TakeAcknowledgeEffect
      <4>2. requests[1].generation # 0
        BY <4>1 DEF Request
      <4>3. granted \in {0, streams}
        BY DEF GameInv, TypeOK
      <4>4. QED BY <4>1, <4>2, <4>3
    <3>2. requests[1].generation = streams
      BY <2>1, <3>1
    <3>3. QED
      BY TakeAcknowledgeEffect, <1>1, <2>1, <3>1, <3>2 DEF AppliedAre, RoomGivenBack
  <2>2. CASE ~(requests[1].generation = granted /\ requests[1].consumed \in tail .. Len(log))
    BY TakeAcknowledgeEffect, <1>1, <2>2 DEF AppliedAre, RoomGivenBack
  <2>3. QED BY <2>1, <2>2
<1>5. RoomGivenBack(n)'
  BY TakeAcknowledgeEffect, <1>1, <1>4 DEF AppliedAre, RoomGivenBack
<1>6. n \in 0 .. Len(log')
  BY TakeAcknowledgeEffect
<1>7. QED BY <1>2, <1>3, <1>5, <1>6 DEF HistoryInv, AppliedAre

\* A stream that is given back keeps its history.
LEMMA DestroyHistory ==
  ASSUME GameInv, HistoryInv, requests # <<>>, Head(requests).type = "destroy",
         HandleRequest
  PROVE  HistoryInv'
<1>1. BatchesEmpty' /\ Unapplied' = Unapplied
  BY DestroyEffect DEF Unapplied, HistoryInv, BatchesEmpty
<1>2. Len(used) \in Nat /\ (pc = "end" => Unapplied = <<>>)
  BY UnappliedIs DEF GameInv, TypeOK
<1>3. \A i \in 1 .. Len(requests') : \E j \in 1 .. Len(requests) : requests'[i] = requests[j]
  BY DestroyEffect
<1>4. QED BY DestroyEffect, <1>1, <1>2, <1>3, HistoryKept

\* The client leaves the stream between frames, with nothing in its hands.
LEMMA ConnectHistory ==
  ASSUME GameInv, HistoryInv, Connect \/ ConnectFails
  PROVE  HistoryInv'
<1>1. PICK n \in 0 .. Len(log) : AppliedAre(n)
  BY DEF HistoryInv
<1>2. /\ UNCHANGED <<granted, streams, log, tail, dropped, nextSequence, snapshot, mode,
                     captured, measuring, integrity, measuredFrom, early, late, used>>
      /\ pc = "connect" /\ pc' \in {"roundtrip", "ready"} /\ client'.generation = 0
      /\ Range(events') = {}
      /\ \A i \in 1 .. Len(requests') : requests'[i].type = "acknowledge" =>
           i \in 1 .. Len(requests) /\ requests'[i] = requests[i]
  <2>1. CASE Connect
    <3>1. \A i \in 1 .. Len(requests') :
            \/ i \in 1 .. Len(requests) /\ requests'[i] = requests[i]
            \/ requests'[i].type \in {"destroy", "get_stream"}
      BY ConnectEffect, <2>1
    <3>2. QED BY ConnectEffect, <2>1, <3>1
  <2>2. CASE ConnectFails
    <3>1. \A i \in 1 .. Len(requests') :
            \/ i \in 1 .. Len(requests) /\ requests'[i] = requests[i]
            \/ requests'[i].type \in {"destroy", "get_stream"}
      BY ConnectFailsEffect, <2>2
    <3>2. QED BY ConnectFailsEffect, <2>2, <3>1
  <2>3. QED BY <2>1, <2>2
<1>3. early = <<>> /\ late = <<>> /\ early' = <<>> /\ late' = <<>>
  BY <1>2 DEF HistoryInv, BatchesEmpty
<1>4. BatchesEmpty' /\ UsedKnown'
  BY <1>2, <1>3 DEF HistoryInv, BatchesEmpty, UsedKnown
<1>5. Unapplied' = <<>>
  <2>1. Unapplied = <<>> /\ Unapplied' = Unapplied
    BY <1>2, <1>3, UnappliedIs DEF GameInv, Unapplied
  <2>2. QED BY <2>1
<1>6. NewestApplied(n)' /\ RoomGivenBack(n)' /\ MeasuredOf(n)' /\ CursorAfter(n)'
  BY <1>1, <1>2, <1>5 DEF AppliedAre, NewestApplied, RoomGivenBack, MeasuredOf, CursorAfter
<1>7. QED BY <1>1, <1>2, <1>4, <1>6 DEF HistoryInv, AppliedAre

\* The client begins at the tail of a stream nothing of which was applied.
LEMMA FinishConnectHistory ==
  ASSUME GameInv, HistoryInv, FinishConnect
  PROVE  HistoryInv'
<1>1. PICK n \in 0 .. Len(log) : AppliedAre(n)
  BY DEF HistoryInv
<1>2. early = <<>> /\ late = <<>>
  BY FinishConnectEffect DEF HistoryInv, BatchesEmpty
<1>3. Unapplied' = <<>> /\ Len(<<>>) = 0
  <2>1. Unapplied = <<>> /\ Unapplied' = Unapplied
    BY FinishConnectEffect, <1>2, UnappliedIs DEF GameInv, Unapplied
  <2>2. QED BY <2>1, EmptySeq
<1>4. BatchesEmpty' /\ UsedKnown'
  BY FinishConnectEffect, <1>2 DEF HistoryInv, BatchesEmpty, UsedKnown
<1>5. NewestApplied(n)' /\ RoomGivenBack(n)' /\ MeasuredOf(n)'
  BY FinishConnectEffect, <1>1 DEF AppliedAre, NewestApplied, RoomGivenBack, MeasuredOf
<1>6. CursorAfter(n)'
  <2>1. CASE client'.generation = 0
    BY <1>3, <2>1 DEF CursorAfter
  <2>2. CASE client'.generation # 0
    <3>1. client'.localTail = 0 /\ "active" \in Range(events)
      BY FinishConnectEffect, <2>2
    <3>2. n = 0
      BY <1>1, <3>1 DEF AppliedAre, RoomGivenBack
    <3>3. QED BY <1>3, <2>2, <3>1, <3>2 DEF CursorAfter
  <2>3. QED BY <2>1, <2>2
<1>7. n \in 0 .. Len(log')
  BY FinishConnectEffect
<1>8. QED BY <1>4, <1>5, <1>6, <1>7 DEF HistoryInv, AppliedAre

\* A read that looks, or is refused, reads nothing.
LEMMA ReadHeadHistory ==
  ASSUME GameInv, HistoryInv, ReadHead
  PROVE  HistoryInv'
<1>1. \/ pc = "early" /\ pc' \in {"earlyCopy", "earlyFailed"}
      \/ pc = "late" /\ pc' \in {"lateCopy", "lateFailed"}
  BY ReadHeadEffect DEF Copying, Failing
<1>2. BatchesEmpty' /\ Unapplied' = Unapplied /\ pc # "end"
  BY ReadHeadEffect, <1>1 DEF Unapplied, HistoryInv, BatchesEmpty
<1>3. Len(used) \in Nat
  BY DEF GameInv, TypeOK
<1>4. QED BY ReadHeadEffect, <1>2, <1>3, HistoryKept

LEMMA ReadRefusedHistory ==
  ASSUME GameInv, HistoryInv, ReadRefused
  PROVE  HistoryInv'
<1>1. \/ pc = "earlyCopy" /\ pc' = "earlyFailed"
      \/ pc = "lateCopy" /\ pc' = "lateFailed"
  BY DEF ReadRefused, Failing
<1>2. BatchesEmpty' /\ Unapplied' = Unapplied /\ pc # "end"
  BY ReadRefusedEffect, <1>1 DEF Unapplied, HistoryInv, BatchesEmpty
<1>3. Len(used) \in Nat
  BY DEF GameInv, TypeOK
<1>4. QED BY ReadRefusedEffect, <1>2, <1>3, HistoryKept

\* The early read of "hfior" moves the camera by all it has read.
LEMMA ReadCopyMoves ==
  ASSUME GameInv, HistoryInv, ReadCopy, pc = "earlyCopy", mode = "hfior",
         NEW n \in 0 .. Len(log), AppliedAre(n)
  PROVE  \E batch \in Seq(Sequence), m \in Nat : m = snapshot /\ MovesBy(n, m, batch)
<1>1. /\ Batch \in Seq(Sequence) /\ Len(Batch) \in Nat /\ Len(log) \in Nat
      /\ client.localTail + Len(Batch) = snapshot /\ snapshot \in Nat /\ snapshot <= Len(log)
      /\ client.localTail \in Nat
      /\ \A i \in 1 .. Len(Batch) : Batch[i] = log[client.localTail + i]
  <2>1. /\ snapshot \in client.localTail .. Len(log) /\ Len(log) \in Nat
        /\ client.localTail \in Nat /\ Batch \in Seq(Sequence)
        /\ Len(Batch) = snapshot - client.localTail
        /\ \A i \in 1 .. Len(Batch) : Batch[i] = log[client.localTail + i]
    BY ReadCopyEffect
  <2>2. QED BY <2>1
<1>2. \A i \in 1 .. snapshot - 1 : log[i + 1] = log[i] + 1
  BY ReadCopyEffect, ReadCopyStep DEF GameInv, CursorKnown
<1>3. n = client.localTail
  <2>1. late = <<>> /\ Unapplied = <<>>
    BY UnappliedIs DEF HistoryInv, BatchesEmpty, GameInv
  <2>2. n + Len(Unapplied) = client.localTail
    BY ReadCopyEffect DEF AppliedAre, CursorAfter
  <2>3. QED BY <1>1, <2>1, <2>2, EmptySeq
<1>4. used' = used \o Batch /\ log' = log /\ NewestApplied(n) /\ TypeOK
  BY ReadCopyEffect DEF ReadCopy, AppliedAre, GameInv
<1>5. PICK batch \in Seq(Sequence) : batch = Batch
  BY <1>1
<1>6. PICK m \in Nat : m = snapshot
  BY <1>1
<1>7. /\ m = n + Len(batch) /\ m <= Len(log) /\ used' = used \o batch
      /\ \A i \in 1 .. Len(batch) : batch[i] = log[n + i]
      /\ \A i \in 1 .. m - 1 : log[i + 1] = log[i] + 1
  BY <1>1, <1>2, <1>3, <1>4, <1>5, <1>6
<1>8. MovesBy(n, m, batch)
  <2>1. n \in Nat
    BY <1>1
  <2>2. UNCHANGED log
    BY <1>4
  <2>3. QED BY <1>4, <1>7, <2>1, <2>2, NextApplied DEF MovesBy
<1>9. QED BY <1>6, <1>8

\* What ReadCopy takes follows what the frame holds, or moves the camera at once.
LEMMA ReadCopyHistory ==
  ASSUME GameInv, HistoryInv, ReadCopy
  PROVE  HistoryInv'
<1>1. PICK n \in 0 .. Len(log) : AppliedAre(n)
  BY DEF HistoryInv
<1>2. /\ Batch \in Seq(Sequence) /\ Len(Batch) \in Nat /\ Len(log) \in Nat
      /\ client.localTail + Len(Batch) = snapshot /\ snapshot \in Nat /\ snapshot <= Len(log)
      /\ client.localTail \in Nat /\ client.generation # 0
      /\ \A i \in 1 .. Len(Batch) : Batch[i] = log[client.localTail + i]
      /\ client'.localTail = snapshot /\ client'.generation # 0
  <2>1. /\ snapshot \in client.localTail .. Len(log) /\ Len(log) \in Nat
        /\ client.localTail \in Nat /\ Batch \in Seq(Sequence)
        /\ Len(Batch) = snapshot - client.localTail
    BY ReadCopyEffect
  <2>2. /\ client.generation # 0 /\ client'.generation # 0 /\ client'.localTail = snapshot
        /\ \A i \in 1 .. Len(Batch) : Batch[i] = log[client.localTail + i]
    BY ReadCopyEffect
  <2>3. snapshot \in Nat /\ snapshot <= Len(log) /\ Len(Batch) \in Nat
        /\ client.localTail + Len(Batch) = snapshot
    BY <2>1
  <2>4. QED BY <2>1, <2>2, <2>3
<1>3. \A i \in 1 .. snapshot - 1 : log[i + 1] = log[i] + 1
  BY ReadCopyEffect, ReadCopyStep DEF GameInv, CursorKnown
<1>4. /\ n + Len(Unapplied) = client.localTail
      /\ \A i \in 1 .. Len(Unapplied) : Unapplied[i] = log[n + i]
      /\ Unapplied \in Seq(Sequence) /\ Len(Unapplied) \in Nat
  BY ReadCopyEffect, <1>1, <1>2, UnappliedIs DEF GameInv, AppliedAre, CursorAfter
<1>5. "active" \notin Range(events)
  BY ReadCopyEffect DEF GameInv, EventsKnown
<1>6. used \in Seq(Sequence) /\ Len(used) \in Nat /\ TypeOK
  BY DEF GameInv, TypeOK
<1>7. CASE pc = "earlyCopy" /\ mode = "hfior"
  <2>1. used' = used \o Batch /\ early' = Batch /\ late' = late /\ pc' = "size"
    BY <1>7 DEF ReadCopy
  <2>2. early = <<>> /\ late = <<>>
    BY <1>7 DEF HistoryInv, BatchesEmpty
  <2>3. PICK batch \in Seq(Sequence), m \in Nat : m = snapshot /\ MovesBy(n, m, batch)
    BY <1>1, <1>7, ReadCopyMoves
  <2>4. m = snapshot
    BY <2>3
  <2>5. m = n + Len(batch) /\ Len(batch) \in Nat /\ n \in Nat /\ n <= m /\ m <= Len(log)
    BY <1>1, <1>2, <2>3 DEF MovesBy
  <2>6. /\ NewestApplied(m)' /\ Len(used') = Len(used) + Len(batch)
        /\ \A i \in 1 .. Len(used') :
             \/ i \in 1 .. Len(used) /\ used'[i] = used[i]
             \/ \E k \in 1 .. Len(log) : used'[i] = log[k]
    BY <2>3 DEF MovesBy
  <2>7. BatchesEmpty'
    BY <2>1, <2>2 DEF BatchesEmpty
  <2>8. UsedKnown'
    BY ReadCopyEffect, <2>6 DEF HistoryInv, UsedKnown, GameInv, LogOrdered
  <2>9. RoomGivenBack(m)'
    <3>1. tail \in Nat /\ tail <= n
      BY <1>1, <1>6 DEF TypeOK, AppliedAre, RoomGivenBack
    <3>2. \A i \in 1 .. Len(requests) :
            requests[i].type = "acknowledge" /\ requests[i].generation = streams =>
              requests[i].consumed \in Nat /\ requests[i].consumed <= n
      BY <1>1, ElementOfSeq DEF GameInv, Typed, Request, AppliedAre, RoomGivenBack
    <3>3. tail <= m
      BY <2>5, <3>1
    <3>4. \A i \in 1 .. Len(requests) :
            requests[i].type = "acknowledge" /\ requests[i].generation = streams =>
              requests[i].consumed <= m
      BY <2>5, <3>2
    <3>5. QED BY ReadCopyEffect, <1>5, <3>3, <3>4 DEF RoomGivenBack
  <2>10. MeasuredOf(m)'
    <3>1. SUFFICES ASSUME measuring PROVE Len(used') - measuredFrom <= m
      BY ReadCopyEffect DEF MeasuredOf
    <3>2. Len(used) - measuredFrom <= n
      BY <1>1, <3>1 DEF AppliedAre, MeasuredOf
    <3>3. measuredFrom \in Nat
      BY <1>6 DEF TypeOK
    <3>4. QED BY <1>6, <2>5, <2>6, <3>2, <3>3
  <2>11. CursorAfter(m)'
    <3>1. Unapplied' = <<>> /\ Len(<<>>) = 0
      <4>1. mode' = "hfior" /\ late' = <<>>
        BY ReadCopyEffect, <1>7, <2>1, <2>2
      <4>2. mode' # "eager"
        BY <4>1
      <4>3. <<>> \o <<>> = <<>>
        BY ConcatEmptySeq, EmptySeq
      <4>4. QED BY <4>1, <4>2, <4>3, EmptySeq DEF Unapplied
    <3>2. m + 0 = client'.localTail
      BY <1>2, <2>4
    <3>3. \A i \in 1 .. 0 : FALSE
      OBVIOUS
    <3>4. QED BY <1>2, <3>1, <3>2, <3>3 DEF CursorAfter
  <2>12. m \in 0 .. Len(log')
    BY ReadCopyEffect, <1>2, <2>5
  <2>13. QED
    BY <2>6, <2>7, <2>8, <2>9, <2>10, <2>11, <2>12 DEF HistoryInv, AppliedAre
<1>8. CASE ~(pc = "earlyCopy" /\ mode = "hfior")
  <2>1. used' = used
    BY <1>8, <1>6, ModeIs DEF ReadCopy
  <2>2. Unapplied' = Unapplied \o Batch
    <3>1. CASE pc = "earlyCopy"
      <4>1. mode = "eager" /\ mode' = "eager"
        BY ReadCopyEffect, <1>6, <1>8, <3>1, ModeIs
      <4>2. early = <<>> /\ late = <<>> /\ early' = Batch /\ late' = late /\ pc' = "size"
        BY <3>1 DEF HistoryInv, BatchesEmpty, ReadCopy
      <4>3. Unapplied = <<>>
        BY <1>6, <4>2, UnappliedIs
      <4>4. Unapplied' = Batch \o <<>>
        BY <4>1, <4>2 DEF Unapplied
      <4>5. QED BY <1>2, <4>3, <4>4, ConcatEmptySeq
    <3>2. CASE pc = "lateCopy"
      <4>1. late = <<>> /\ late' = Batch /\ early' = early /\ mode' = mode /\ pc' = "apply"
        BY ReadCopyEffect, <3>2 DEF HistoryInv, BatchesEmpty, ReadCopy
      <4>2. PICK held : held = IF mode = "eager" THEN early ELSE <<>>
        OBVIOUS
      <4>3. held \in Seq(Sequence)
        BY <1>6, <4>2, EmptySeq DEF TypeOK
      <4>4. Unapplied = held \o <<>> /\ Unapplied' = held \o Batch
        BY <3>2, <4>1, <4>2 DEF Unapplied
      <4>5. QED BY <4>3, <4>4, ConcatEmptySeq
    <3>3. QED BY ReadCopyEffect, <3>1, <3>2
  <2>3. BatchesEmpty' /\ UsedKnown'
    BY ReadCopyEffect, <2>1 DEF ReadCopy, HistoryInv, BatchesEmpty, UsedKnown
  <2>4. NewestApplied(n)' /\ RoomGivenBack(n)' /\ MeasuredOf(n)'
    BY ReadCopyEffect, <1>1, <2>1 DEF AppliedAre, NewestApplied, RoomGivenBack, MeasuredOf
  <2>5. CursorAfter(n)'
    <3>1. /\ Len(Unapplied') = Len(Unapplied) + Len(Batch)
          /\ \A i \in 1 .. Len(Unapplied) + Len(Batch) :
               Unapplied'[i] = IF i <= Len(Unapplied) THEN Unapplied[i]
                                                      ELSE Batch[i - Len(Unapplied)]
      BY <1>2, <1>4, <2>2, ConcatProperties
    <3>2. ASSUME NEW i \in 1 .. Len(Unapplied')
          PROVE  Unapplied'[i] = log[n + i]
      <4>1. CASE i <= Len(Unapplied)
        BY <1>4, <3>1, <4>1
      <4>2. CASE Len(Unapplied) < i
        <5>1. i - Len(Unapplied) \in 1 .. Len(Batch)
              /\ client.localTail + (i - Len(Unapplied)) = n + i
          BY <1>1, <1>2, <1>4, <3>1, <3>2, <4>2
        <5>2. Unapplied'[i] = Batch[i - Len(Unapplied)]
          BY <1>2, <1>4, <3>1, <4>2
        <5>3. QED BY <1>2, <5>1, <5>2
      <4>3. QED BY <1>2, <1>4, <3>1, <4>1, <4>2
    <3>3. n + Len(Unapplied') = client'.localTail
      BY <1>1, <1>2, <1>4, <3>1
    <3>4. QED BY ReadCopyEffect, <1>2, <3>2, <3>3 DEF CursorAfter
  <2>6. n \in 0 .. Len(log')
    BY ReadCopyEffect
  <2>7. QED BY <2>3, <2>4, <2>5, <2>6 DEF HistoryInv, AppliedAre
<1>9. QED BY <1>7, <1>8

LEMMA ApplyIsUnapplied ==
  ASSUME TypeOK, Apply
  PROVE  used' = used \o Unapplied
<1>1. CASE mode = "eager"
  BY <1>1 DEF Apply, Unapplied
<1>2. CASE mode # "eager"
  <2>1. <<>> \o late = late
    BY ConcatEmptySeq DEF TypeOK
  <2>2. QED BY <1>2, <2>1 DEF Apply, Unapplied
<1>3. QED BY <1>1, <1>2

\* A frame moves the camera by all it holds.
LEMMA ApplyMoves ==
  ASSUME GameInv, HistoryInv, Apply, client.generation # 0,
         NEW n \in 0 .. Len(log), AppliedAre(n)
  PROVE  \E batch \in Seq(Sequence), m \in Nat :
           m = client.localTail /\ MovesBy(n, m, batch)
<1>1. pc = "apply" /\ log' = log /\ TypeOK /\ NewestApplied(n) /\ Len(log) \in Nat
  BY DEF Apply, compositorVars, GameInv, TypeOK, AppliedAre
<1>2. Unapplied \in Seq(Sequence) /\ Len(Unapplied) \in Nat
  BY <1>1, UnappliedIs
<1>3. used' = used \o Unapplied
  BY <1>1, ApplyIsUnapplied
<1>4. /\ n + Len(Unapplied) = client.localTail
      /\ \A i \in 1 .. Len(Unapplied) : Unapplied[i] = log[n + i]
  BY <1>1 DEF AppliedAre, CursorAfter
<1>5. client.localTail <= Len(log) /\ client.localTail \in Nat
      /\ \A i \in 1 .. client.localTail - 1 : log[i + 1] = log[i] + 1
  BY DEF GameInv, TypeOK, Typed, Client, GenerationKnown, CursorKnown
<1>6. PICK batch \in Seq(Sequence) : batch = Unapplied
  BY <1>2
<1>7. PICK m \in Nat : m = client.localTail
  BY <1>5
<1>8. /\ m = n + Len(batch) /\ m <= Len(log) /\ used' = used \o batch
      /\ \A i \in 1 .. Len(batch) : batch[i] = log[n + i]
      /\ \A i \in 1 .. m - 1 : log[i + 1] = log[i] + 1
  BY <1>3, <1>4, <1>5, <1>6, <1>7
<1>9. MovesBy(n, m, batch)
  <2>1. TypeOK /\ NewestApplied(n) /\ n \in Nat /\ UNCHANGED log
    BY <1>1
  <2>2. /\ NewestApplied(m)'
        /\ used' \in Seq(Sequence) /\ Len(used') = Len(used) + Len(batch)
        /\ \A i \in 1 .. Len(used') :
             \/ i \in 1 .. Len(used) /\ used'[i] = used[i]
             \/ \E k \in 1 .. Len(log) : used'[i] = log[k]
    BY <1>8, <2>1, NextApplied
  <2>3. QED BY <1>8, <2>2 DEF MovesBy
<1>10. QED BY <1>7, <1>9

\* All the frame holds moves the camera.
LEMMA ApplyHistory ==
  ASSUME GameInv, HistoryInv, Apply
  PROVE  HistoryInv'
<1>1. PICK n \in 0 .. Len(log) : AppliedAre(n)
  BY DEF HistoryInv
<1>2. /\ UNCHANGED <<granted, streams, log, tail, dropped, nextSequence, requests, events,
                     client, snapshot, mode, captured, measuring, measuredFrom, early, late>>
      /\ pc = "apply" /\ pc' \in {"ack", "end"}
  BY DEF Apply, compositorVars, wireVars
<1>3. TypeOK /\ used \in Seq(Sequence) /\ Len(used) \in Nat /\ Len(log) \in Nat
      /\ measuredFrom \in Nat /\ tail \in Nat
  BY DEF GameInv, TypeOK
<1>4. Unapplied \in Seq(Sequence) /\ Len(Unapplied) \in Nat /\ Unapplied' = <<>>
  BY <1>2, <1>3, UnappliedIs DEF Unapplied
<1>5. used' = used \o Unapplied
  BY <1>3, ApplyIsUnapplied
<1>6. BatchesEmpty'
  BY <1>2 DEF BatchesEmpty
<1>7. CASE client.generation = 0
  <2>1. Unapplied = <<>>
    BY <1>1, <1>7 DEF AppliedAre, CursorAfter
  <2>2. used' = used
    BY <1>3, <1>5, <2>1, ConcatEmptySeq
  <2>3. NewestApplied(n)' /\ RoomGivenBack(n)' /\ MeasuredOf(n)' /\ CursorAfter(n)'
    BY <1>1, <1>2, <1>4, <1>7, <2>2
       DEF AppliedAre, NewestApplied, RoomGivenBack, MeasuredOf, CursorAfter
  <2>4. UsedKnown'
    BY <1>2, <2>2 DEF HistoryInv, UsedKnown
  <2>5. QED BY <1>1, <1>2, <1>6, <2>3, <2>4 DEF HistoryInv, AppliedAre
<1>8. CASE client.generation # 0
  <2>3. PICK held \in Seq(Sequence), m \in Nat :
          m = client.localTail /\ MovesBy(n, m, held)
    BY <1>1, <1>8, ApplyMoves
  <2>4. m = client.localTail
    BY <2>3
  <2>5. m = n + Len(held) /\ Len(held) \in Nat /\ n \in Nat /\ n <= m /\ m <= Len(log)
    BY <1>1, <1>3, <2>3 DEF MovesBy
  <2>6. /\ NewestApplied(m)' /\ Len(used') = Len(used) + Len(held)
        /\ \A i \in 1 .. Len(used') :
             \/ i \in 1 .. Len(used) /\ used'[i] = used[i]
             \/ \E k \in 1 .. Len(log) : used'[i] = log[k]
    BY <2>3 DEF MovesBy
  <2>7. UsedKnown'
    BY <1>2, <2>6 DEF HistoryInv, UsedKnown, GameInv, LogOrdered
  <2>8. RoomGivenBack(m)'
    <3>1. tail <= n
      BY <1>1 DEF AppliedAre, RoomGivenBack
    <3>2. \A i \in 1 .. Len(requests) :
            requests[i].type = "acknowledge" /\ requests[i].generation = streams =>
              requests[i].consumed \in Nat /\ requests[i].consumed <= n
      BY <1>1, ElementOfSeq DEF GameInv, Typed, Request, AppliedAre, RoomGivenBack
    <3>3. tail <= m
      BY <1>3, <2>5, <3>1
    <3>4. \A i \in 1 .. Len(requests) :
            requests[i].type = "acknowledge" /\ requests[i].generation = streams =>
              requests[i].consumed <= m
      BY <2>5, <3>2
    <3>5. "active" \notin Range(events)
      BY <1>2 DEF GameInv, EventsKnown
    <3>6. QED BY <1>2, <3>3, <3>4, <3>5 DEF RoomGivenBack
  <2>9. MeasuredOf(m)'
    <3>1. SUFFICES ASSUME measuring PROVE Len(used') - measuredFrom <= m
      BY <1>2 DEF MeasuredOf
    <3>2. Len(used) - measuredFrom <= n
      BY <1>1, <3>1 DEF AppliedAre, MeasuredOf
    <3>3. QED BY <1>3, <2>5, <2>6, <3>2
  <2>10. CursorAfter(m)'
    <3>1. Len(<<>>) = 0 /\ m + 0 = client.localTail /\ \A i \in 1 .. 0 : FALSE
      BY EmptySeq, <2>4
    <3>2. QED BY <1>2, <1>4, <1>8, <3>1 DEF CursorAfter
  <2>11. m \in 0 .. Len(log')
    BY <1>2, <1>3, <2>5
  <2>12. QED
    BY <1>6, <2>6, <2>7, <2>8, <2>9, <2>10, <2>11 DEF HistoryInv, AppliedAre
<1>9. QED BY <1>7, <1>8

\* What is acknowledged has moved the camera.
LEMMA AcknowledgeHistory ==
  ASSUME GameInv, HistoryInv, Acknowledge
  PROVE  HistoryInv'
<1>1. PICK n \in 0 .. Len(log) : AppliedAre(n)
  BY DEF HistoryInv
<1>2. Unapplied = <<>> /\ Unapplied' = <<>> /\ Len(<<>>) = 0
  <2>1. Unapplied = <<>> /\ Unapplied' = <<>>
    BY AcknowledgeEffect DEF Unapplied
  <2>2. QED BY <2>1, EmptySeq
<1>3. n = client.localTail
  BY AcknowledgeEffect, <1>1, <1>2 DEF AppliedAre, CursorAfter
<1>4. BatchesEmpty' /\ UsedKnown'
  BY AcknowledgeEffect DEF HistoryInv, BatchesEmpty, UsedKnown
<1>5. NewestApplied(n)' /\ MeasuredOf(n)'
  BY AcknowledgeEffect, <1>1 DEF AppliedAre, NewestApplied, MeasuredOf
<1>6. CursorAfter(n)'
  BY AcknowledgeEffect, <1>1, <1>2, <1>3 DEF AppliedAre, CursorAfter
<1>7. RoomGivenBack(n)'
  <2>1. \A i \in 1 .. Len(requests') : i \in 1 .. Len(requests) \/ i = Len(requests) + 1
    BY AcknowledgeEffect
  <2>2. n <= n
    BY <1>1 DEF GameInv, TypeOK
  <2>3. QED BY AcknowledgeEffect, <1>1, <1>3, <2>1, <2>2 DEF AppliedAre, RoomGivenBack
<1>8. n \in 0 .. Len(log')
  BY AcknowledgeEffect
<1>9. QED BY <1>4, <1>5, <1>6, <1>7, <1>8 DEF HistoryInv, AppliedAre

\* The other steps of the loop keep what the frame holds, or end it when it holds
\* nothing that was not applied.
LEMMA LoopHistory ==
  ASSUME EagerKeepsSize, GameInv, HistoryInv,
         \/ BeginFrame \/ SkipConnect \/ CheckReady \/ ReadFailed \/ SkipRead
         \/ CheckSize \/ SkipAcknowledge \/ EndFrame
  PROVE  HistoryInv'
<1>1. /\ UNCHANGED <<granted, streams, log, tail, dropped, nextSequence, requests, events,
                     client, snapshot, mode, used>>
      /\ Len(used) \in Nat
      /\ \A i \in 1 .. Len(requests') : requests'[i].type = "acknowledge" =>
           \E j \in 1 .. Len(requests) : requests'[i] = requests[j]
  BY DEF BeginFrame, SkipConnect, CheckReady, ReadFailed, SkipRead, CheckSize, SkipAcknowledge,
     EndFrame, compositorVars, wireVars, loopVars, batchVars, GameInv, TypeOK
<1>2. measuring' => \/ measuredFrom' = Len(used)
                    \/ measuring /\ measuredFrom' = measuredFrom
  BY DEF BeginFrame, SkipConnect, CheckReady, ReadFailed, SkipRead, CheckSize, SkipAcknowledge,
     EndFrame, loopVars
<1>3. CASE BeginFrame
  <2>1. early' = <<>> /\ late' = <<>> /\ pc = "poll" /\ Unapplied = <<>>
    BY <1>3 DEF BeginFrame, Unapplied
  <2>2. BatchesEmpty'
    BY <2>1 DEF BatchesEmpty
  <2>3. Unapplied' = <<>>
    <3>1. <<>> \o <<>> = <<>>
      BY ConcatEmptySeq, EmptySeq
    <3>2. QED BY <2>1, <3>1 DEF Unapplied
  <2>4. QED BY <1>1, <1>2, <2>1, <2>2, <2>3, HistoryKept
<1>4. CASE SkipConnect \/ CheckReady \/ ReadFailed \/ SkipRead
  <2>1. UNCHANGED <<early, late>> /\ pc # "end"
        /\ pc \notin {"poll", "ack", "next"}
    BY <1>4 DEF SkipConnect, CheckReady, ReadFailed, SkipRead, batchVars
  <2>2. BatchesEmpty' /\ pc' \notin {"poll", "ack", "next"}
    BY <1>4, <2>1
       DEF SkipConnect, CheckReady, ReadFailed, SkipRead, HistoryInv, BatchesEmpty
  <2>3. \/ pc # "end" /\ Unapplied' = Unapplied
        \/ pc' = "end" /\ Unapplied' = <<>>
    BY <1>1, <2>1, <2>2 DEF Unapplied
  <2>4. QED BY <1>1, <1>2, <2>2, <2>3, HistoryKept
<1>5. CASE CheckSize
  <2>1. UNCHANGED <<early, late>> /\ pc = "size" /\ pc' \in {"poll", "late"}
        /\ (pc' = "poll" => mode \in Minimised)
    BY <1>5 DEF CheckSize, batchVars
  <2>2. BatchesEmpty'
    BY <2>1 DEF HistoryInv, BatchesEmpty
  <2>3. pc' = "poll" => Unapplied = <<>> /\ Unapplied' = <<>>
    <3>1. SUFFICES ASSUME pc' = "poll" PROVE Unapplied = <<>> /\ Unapplied' = <<>>
      OBVIOUS
    <3>2. mode = "hfior" /\ late = <<>>
      BY <2>1, <3>1, ModeIs DEF EagerKeepsSize, GameInv, HistoryInv, BatchesEmpty
    <3>3. Unapplied = <<>>
      BY <3>2, UnappliedIs DEF GameInv
    <3>4. Unapplied' = <<>>
      BY <3>1 DEF Unapplied
    <3>5. QED BY <3>3, <3>4
  <2>4. pc' = "late" => Unapplied' = Unapplied
    BY <1>1, <2>1 DEF Unapplied
  <2>5. pc # "end" /\ Unapplied' = Unapplied
    BY <2>1, <2>3, <2>4
  <2>6. QED BY <1>1, <1>2, <2>2, <2>5, HistoryKept
<1>6. CASE SkipAcknowledge \/ EndFrame
  <2>1. UNCHANGED <<early, late>> /\ pc \in {"ack", "next"} /\ pc' \in {"next", "poll", "end"}
    BY <1>6 DEF SkipAcknowledge, EndFrame, batchVars
  <2>2. BatchesEmpty'
    BY <2>1 DEF BatchesEmpty
  <2>3. pc # "end" /\ Unapplied' = Unapplied
    BY <2>1 DEF Unapplied
  <2>4. QED BY <1>1, <1>2, <2>2, <2>3, HistoryKept
<1>7. QED BY <1>3, <1>4, <1>5, <1>6

-----------------------------------------------------------------------------
\* At the start nothing has been read.
LEMMA InitHistory ==
  ASSUME Init
  PROVE  HistoryInv
<1>1. /\ log = <<>> /\ tail = 0 /\ requests = <<>> /\ events = <<>> /\ pc = "poll"
      /\ measuring = FALSE /\ early = <<>> /\ late = <<>> /\ used = <<>> /\ client.generation = 0
      /\ Len(log) = 0 /\ Len(requests) = 0 /\ Len(used) = 0 /\ Range(events) = {}
  BY EmptySeq DEF Init, Disconnected, Range
<1>2. \A i \in 1 .. 0 : FALSE
  OBVIOUS
<1>3. Unapplied = <<>>
  BY <1>1 DEF Unapplied
<1>4. NewestApplied(0) /\ RoomGivenBack(0) /\ MeasuredOf(0) /\ CursorAfter(0)
  <2>1. NewestApplied(0)
    BY <1>1, <1>2 DEF NewestApplied
  <2>2. RoomGivenBack(0)
    BY <1>1, <1>2 DEF RoomGivenBack
  <2>3. MeasuredOf(0) /\ CursorAfter(0)
    BY <1>1, <1>3 DEF MeasuredOf, CursorAfter
  <2>4. QED BY <2>1, <2>2, <2>3
<1>5. BatchesEmpty /\ UsedKnown
  BY <1>1, <1>2 DEF BatchesEmpty, UsedKnown
<1>6. 0 \in 0 .. Len(log)
  BY <1>1
<1>7. QED BY <1>4, <1>5, <1>6 DEF HistoryInv, AppliedAre

\* A step that changes nothing keeps HistoryInv.
LEMMA StutterHistory ==
  ASSUME GameInv, HistoryInv, UNCHANGED vars
  PROVE  HistoryInv'
<1>1. BatchesEmpty' /\ Unapplied' = Unapplied
  BY
     DEF vars, compositorVars, wireVars, loopVars, batchVars, Unapplied, HistoryInv,
     BatchesEmpty
<1>2. Len(used) \in Nat /\ (pc = "end" => Unapplied = <<>>)
  BY UnappliedIs DEF GameInv, TypeOK
<1>3. /\ UNCHANGED <<streams, log, tail, used, nextSequence, client, pc, requests, events,
                     measuring, measuredFrom>>
      /\ \A i \in 1 .. Len(requests') : requests'[i].type = "acknowledge" =>
           \E j \in 1 .. Len(requests) : requests'[i] = requests[j]
  BY DEF vars, compositorVars, wireVars, loopVars, batchVars
<1>4. QED BY <1>1, <1>2, <1>3, HistoryKept

\* HistoryInv is preserved by every step.
LEMMA NextHistory ==
  ASSUME EagerKeepsSize, GameInv, HistoryInv, [Next]_vars
  PROVE  HistoryInv'
<1>1. CASE UNCHANGED vars \/ Over
  BY <1>1, StutterHistory DEF Over
<1>2. CASE Observe \/ Revoke
  BY <1>2, ObserveHistory, RevokeHistory
<1>3. CASE HandleRequest
  <2>1. requests # <<>>
    BY <1>3 DEF HandleRequest
  <2>2. Head(requests).type \in {"get_stream", "acknowledge", "destroy"}
    BY <2>1, RequestKinds DEF GameInv
  <2>3. QED BY <1>3, <2>1, <2>2, GetStreamHistory, TakeAcknowledgeHistory, DestroyHistory
<1>4. CASE \/ BeginFrame \/ SkipConnect \/ CheckReady \/ ReadFailed \/ SkipRead
           \/ CheckSize \/ SkipAcknowledge \/ EndFrame
  BY <1>4, LoopHistory
<1>5. CASE Connect \/ ConnectFails \/ FinishConnect
  BY <1>5, ConnectHistory, FinishConnectHistory
<1>6. CASE ReadHead \/ ReadCopy \/ ReadRefused
  BY <1>6, ReadHeadHistory, ReadCopyHistory, ReadRefusedHistory
<1>7. CASE Apply \/ Acknowledge
  BY <1>7, ApplyHistory, AcknowledgeHistory
<1>8. QED
  BY <1>1, <1>2, <1>3, <1>4, <1>5, <1>6, <1>7 DEF Next, Compositor, Game

\* The newest of what has moved the camera is always the beginning of the stream's
\* history, and the frame holds what comes next, up to the cursor (main,
\* hfior_game_client_read).
THEOREM HistoryInvariant ==
  ASSUME EagerKeepsSize
  PROVE  Spec => [](GameInv /\ HistoryInv)
<1>1. Init => GameInv /\ HistoryInv
  BY InitGameInv, InitHistory
<1>2. (GameInv /\ HistoryInv) /\ [Next]_vars => (GameInv /\ HistoryInv)'
  BY EagerKeepsSize, NextGameInv, NextHistory
<1>3. QED BY <1>1, <1>2, PTL DEF Spec

-----------------------------------------------------------------------------
\* The moves so far and those the frame holds, relative to the stream.
LEMMA UsedIsHistoryHolds ==
  ASSUME GameInv, HistoryInv
  PROVE  UsedIsHistory
<1>1. PICK moves : moves = used \o Unapplied
  OBVIOUS
<1>2. PICK older : older = Len(moves) - client.localTail
  OBVIOUS
<1> SUFFICES ASSUME client.generation = streams, streams # 0, pc # "end"
             PROVE  /\ older >= 0
                    /\ SubSeq(moves, older + 1, Len(moves)) = SubSeq(log, 1, client.localTail)
                    /\ \A i \in 1 .. older : moves[i] \notin Range(log)
  BY <1>1, <1>2, Zenon DEF UsedIsHistory
<1>3. PICK n \in 0 .. Len(log) : AppliedAre(n)
  BY DEF HistoryInv
<1>4. /\ used \in Seq(Sequence) /\ Len(used) \in Nat /\ log \in Seq(Sequence) /\ Len(log) \in Nat
      /\ Unapplied \in Seq(Sequence) /\ Len(Unapplied) \in Nat
      /\ client.localTail \in Nat /\ client.localTail <= Len(log)
  <2>1. used \in Seq(Sequence) /\ log \in Seq(Sequence) /\ TypeOK /\ client \in Client
    BY DEF GameInv, TypeOK, Typed
  <2>2. Unapplied \in Seq(Sequence) /\ Len(Unapplied) \in Nat
    BY <2>1, UnappliedIs
  <2>3. client.localTail \in Nat
    BY <2>1 DEF Client
  <2>4. client.localTail <= Len(log)
    BY DEF GameInv, TypeOK
  <2>5. QED BY <2>1, <2>2, <2>3, <2>4
<1>5. /\ moves \in Seq(Sequence) /\ Len(moves) = Len(used) + Len(Unapplied)
      /\ \A i \in 1 .. Len(used) + Len(Unapplied) :
           moves[i] = IF i <= Len(used) THEN used[i] ELSE Unapplied[i - Len(used)]
  BY <1>4, <1>1, ConcatProperties
<1>6. /\ n <= Len(used) /\ n + Len(Unapplied) = client.localTail
      /\ \A i \in 1 .. n : used[Len(used) - n + i] = log[i]
      /\ \A i \in 1 .. Len(used) - n : \A j \in 1 .. Len(log) : used[i] < log[j]
      /\ \A i \in 1 .. Len(Unapplied) : Unapplied[i] = log[n + i]
  BY <1>3 DEF AppliedAre, NewestApplied, CursorAfter
<1>7. older = Len(used) - n /\ older \in Nat /\ Len(moves) \in Nat
      /\ Len(moves) = older + client.localTail
  <2>1. Len(moves) \in Nat /\ Len(used) - n \in Nat
    BY <1>3, <1>4, <1>5, <1>6
  <2>2. older = Len(used) - n
    BY <1>3, <1>4, <1>5, <1>6, <1>2
  <2>3. Len(moves) = older + client.localTail
    BY <1>4, <1>2, <2>1, <2>2
  <2>4. QED BY <2>1, <2>2, <2>3
<1>8. \A i \in 1 .. client.localTail : moves[older + i] = log[i]
  <2>1. TAKE i \in 1 .. client.localTail
  <2>2. older + i \in 1 .. Len(used) + Len(Unapplied)
    BY <1>4, <1>5, <1>7
  <2>3. CASE i <= n
    <3>1. i \in 1 .. n /\ older + i <= Len(used) /\ older + i = Len(used) - n + i
      BY <1>3, <1>4, <1>7, <2>3
    <3>2. moves[older + i] = used[older + i]
      <4>1. PICK k \in 1 .. Len(used) + Len(Unapplied) : k = older + i
        BY <2>2
      <4>2. k <= Len(used) /\ moves[k] = used[k]
        BY <1>5, <3>1, <4>1
      <4>3. QED BY <4>1, <4>2
    <3>3. used[older + i] = log[i]
      BY <1>6, <3>1
    <3>4. QED BY <3>2, <3>3
  <2>4. CASE n < i
    <3>1. i - n \in 1 .. Len(Unapplied) /\ ~(older + i <= Len(used))
          /\ older + i - Len(used) = i - n /\ n + (i - n) = i
      BY <1>3, <1>4, <1>6, <1>7, <2>4
    <3>2. moves[older + i] = Unapplied[i - n]
      <4>1. PICK k \in 1 .. Len(used) + Len(Unapplied) : k = older + i
        BY <2>2
      <4>2. ~(k <= Len(used)) /\ k - Len(used) = i - n
        BY <1>3, <1>4, <1>7, <3>1, <4>1
      <4>3. moves[k] = Unapplied[k - Len(used)]
        BY <1>5, <4>1, <4>2
      <4>4. QED BY <4>1, <4>2, <4>3
    <3>3. Unapplied[i - n] = log[n + (i - n)]
      BY <1>6, <3>1
    <3>4. QED BY <3>1, <3>2, <3>3
  <2>5. QED BY <1>3, <1>4, <2>3, <2>4
<1>9. SubSeq(moves, older + 1, Len(moves)) = SubSeq(log, 1, client.localTail)
  <2>1. \A i \in older + 1 .. Len(moves) : moves[i] \in Sequence
    BY <1>5, <1>7, ElementOfSeq
  <2>2. \A i \in 1 .. client.localTail : log[i] \in Sequence
    BY <1>4, ElementOfSeq
  <2>3. PICK left : left = SubSeq(moves, older + 1, Len(moves))
    OBVIOUS
  <2>4. PICK right : right = SubSeq(log, 1, client.localTail)
    OBVIOUS
  <2>5. /\ left \in Seq(Sequence) /\ Len(left) = client.localTail
        /\ \A i \in 1 .. client.localTail : left[i] = moves[older + i]
    <3>1. /\ left \in Seq(Sequence)
          /\ Len(left) = IF older + 1 <= Len(moves) THEN Len(moves) - (older + 1) + 1 ELSE 0
          /\ \A i \in 1 .. Len(moves) - (older + 1) + 1 : left[i] = moves[older + 1 + i - 1]
      BY <1>7, <2>1, <2>3, SubSeqProperties
    <3>2. Len(moves) - (older + 1) + 1 = client.localTail
      BY <1>4, <1>7
    <3>3. Len(left) = client.localTail
      BY <1>4, <1>7, <3>1
    <3>4. \A i \in 1 .. client.localTail : older + 1 + i - 1 = older + i
      BY <1>4, <1>7
    <3>5. QED BY <3>1, <3>2, <3>3, <3>4
  <2>6. /\ right \in Seq(Sequence) /\ Len(right) = client.localTail
        /\ \A i \in 1 .. client.localTail : right[i] = log[i]
    <3>1. /\ right \in Seq(Sequence)
          /\ Len(right) = IF 1 <= client.localTail THEN client.localTail - 1 + 1 ELSE 0
          /\ \A i \in 1 .. client.localTail - 1 + 1 : right[i] = log[1 + i - 1]
      BY <1>4, <2>2, <2>4, SubSeqProperties
    <3>2. client.localTail - 1 + 1 = client.localTail
          /\ \A i \in 1 .. client.localTail : 1 + i - 1 = i
      BY <1>4
    <3>3. QED BY <1>4, <3>1, <3>2
  <2>7. \A i \in 1 .. Len(left) : left[i] = right[i]
    BY <1>8, <2>5, <2>6
  <2>8. left = right
    BY <2>5, <2>6, <2>7, SeqEqual
  <2>9. QED BY <2>3, <2>4, <2>8
<1>10. \A i \in 1 .. older : moves[i] \notin Range(log)
  <2>1. TAKE i \in 1 .. older
  <2>2. i \in 1 .. Len(used) - n /\ i <= Len(used) /\ i \in 1 .. Len(used) + Len(Unapplied)
        /\ i \in 1 .. Len(used)
    BY <1>3, <1>4, <1>6, <1>7
  <2>3. moves[i] = used[i]
    BY <1>5, <2>2
  <2>4. used[i] \in Nat /\ \A j \in 1 .. Len(log) : used[i] < log[j] /\ log[j] \in Nat
    <3>1. used[i] \in Sequence /\ \A j \in 1 .. Len(log) : log[j] \in Sequence
      BY <1>4, <2>2, ElementOfSeq
    <3>2. \A j \in 1 .. Len(log) : used[i] < log[j]
      BY <1>6, <2>2
    <3>3. Sequence \subseteq Nat
      BY BoundsNat DEF Sequence
    <3>4. QED BY <3>1, <3>2, <3>3
  <2>5. \A j \in 1 .. Len(log) : used[i] # log[j]
    BY <2>4
  <2>6. Range(log) = {log[j] : j \in 1 .. Len(log)}
    BY <1>4, RangeEquality
  <2>7. QED BY <2>3, <2>5, <2>6
<1>11. older >= 0
  BY <1>7
<1>12. QED BY <1>9, <1>10, <1>11, Zenon

LEMMA RoomOnlyForUsedHolds ==
  ASSUME GameInv, HistoryInv
  PROVE  RoomOnlyForUsed
<1>1. PICK n \in 0 .. Len(log) : AppliedAre(n)
  BY DEF HistoryInv
<1>2. Len(used) \in Nat /\ Len(log) \in Nat /\ tail \in Nat
  BY DEF GameInv, TypeOK
<1>3. tail <= n /\ n <= Len(used) /\ \A i \in 1 .. n : used[Len(used) - n + i] = log[i]
  BY <1>1 DEF AppliedAre, RoomGivenBack, NewestApplied
<1>4. \A k \in 1 .. tail : Len(used) - n + k \in 1 .. Len(used) /\ k \in 1 .. n
  BY <1>1, <1>2, <1>3
<1>5. QED BY <1>3, <1>4 DEF RoomOnlyForUsed

LEMMA MeasuredGapFreeHolds ==
  ASSUME GameInv, HistoryInv
  PROVE  MeasuredGapFree
<1> SUFFICES ASSUME measuring, NEW i \in measuredFrom + 1 .. Len(used) - 1
             PROVE  used[i + 1] = used[i] + 1
  BY DEF MeasuredGapFree
<1>1. PICK n \in 0 .. Len(log) : AppliedAre(n)
  BY DEF HistoryInv
<1>2. Len(used) \in Nat /\ Len(log) \in Nat /\ measuredFrom \in Nat
  BY DEF GameInv, TypeOK
<1>3. /\ Len(used) - measuredFrom <= n /\ n <= Len(used)
      /\ \A k \in 1 .. n : used[Len(used) - n + k] = log[k]
      /\ \A k \in 1 .. n - 1 : log[k + 1] = log[k] + 1
  BY <1>1 DEF AppliedAre, MeasuredOf, NewestApplied
<1>4. PICK k \in 1 .. n - 1 : i = Len(used) - n + k /\ i + 1 = Len(used) - n + (k + 1)
                              /\ k \in 1 .. n /\ k + 1 \in 1 .. n
  <2>1. i - (Len(used) - n) \in 1 .. n - 1
    BY <1>1, <1>2, <1>3
  <2>2. PICK k \in 1 .. n - 1 : k = i - (Len(used) - n)
    BY <2>1
  <2>3. QED BY <1>1, <1>2, <2>2
<1>5. used[i] = log[k] /\ used[i + 1] = log[k + 1]
  BY <1>3, <1>4
<1>6. QED BY <1>3, <1>4, <1>5

\* The camera moves by the history of the stream, each record once and in order, for
\* every order of reads, drops, revocations and connections.
THEOREM CameraFollowsHistory ==
  ASSUME EagerKeepsSize
  PROVE  Spec => []UsedIsHistory
<1>1. GameInv /\ HistoryInv => UsedIsHistory
  BY UsedIsHistoryHolds
<1>2. QED BY <1>1, HistoryInvariant, EagerKeepsSize, PTL

\* The compositor gets room back only for what has moved the camera.
THEOREM RoomIsEarned ==
  ASSUME EagerKeepsSize
  PROVE  Spec => []RoomOnlyForUsed
<1>1. GameInv /\ HistoryInv => RoomOnlyForUsed
  BY RoomOnlyForUsedHolds
<1>2. QED BY <1>1, HistoryInvariant, EagerKeepsSize, PTL

\* A measurement has no gap.
THEOREM MeasurementHasNoGap ==
  ASSUME EagerKeepsSize
  PROVE  Spec => []MeasuredGapFree
<1>1. GameInv /\ HistoryInv => MeasuredGapFree
  BY MeasuredGapFreeHolds
<1>2. QED BY <1>1, HistoryInvariant, EagerKeepsSize, PTL

-----------------------------------------------------------------------------
(* The refinement of LeasedStream                                          *)

\* If the newest n elements of u are the first n of l, and the older ones are below
\* all of l, then n elements of l are in u.
LEMMA CountOfPrefix ==
  ASSUME NEW l \in Seq(Nat), NEW u \in Seq(Nat), NEW n \in Nat,
         n <= Len(l), n <= Len(u),
         \A i \in 1 .. n : u[Len(u) - n + i] = l[i],
         \A i \in 1 .. Len(u) - n : \A j \in 1 .. Len(l) : u[i] < l[j],
         \A i, j \in 1 .. Len(l) : i < j => l[i] < l[j]
  PROVE  Cardinality({i \in 1 .. Len(l) : l[i] \in Range(u)}) = n
<1>1. Len(l) \in Nat /\ Len(u) \in Nat /\ Range(u) = {u[i] : i \in 1 .. Len(u)}
  BY RangeEquality
<1>2. \A i \in 1 .. Len(l) : l[i] \in Nat
  BY ElementOfSeq
<1>3. \A i \in 1 .. Len(u) : u[i] \in Nat
  BY ElementOfSeq
<1>4. ASSUME NEW i \in 1 .. Len(l), i <= n
      PROVE  l[i] \in Range(u)
  <2>1. i \in 1 .. n /\ Len(u) - n + i \in 1 .. Len(u)
    BY <1>1, <1>4
  <2>2. PICK k \in 1 .. Len(u) : k = Len(u) - n + i
    BY <2>1
  <2>3. u[k] = l[i]
    BY <2>1, <2>2
  <2>4. QED BY <1>1, <2>3
<1>5. ASSUME NEW i \in 1 .. Len(l), n < i
      PROVE  l[i] \notin Range(u)
  <2>1. SUFFICES ASSUME NEW k \in 1 .. Len(u) PROVE u[k] # l[i]
    BY <1>1
  <2>2. u[k] \in Nat /\ l[i] \in Nat
    BY <1>2, <1>3
  <2>3. CASE k <= Len(u) - n
    <3>1. k \in 1 .. Len(u) - n
      BY <1>1, <2>3
    <3>2. u[k] < l[i]
      BY <3>1
    <3>3. QED BY <2>2, <3>2
  <2>4. CASE Len(u) - n < k
    <3>1. k - (Len(u) - n) \in 1 .. n /\ k = Len(u) - n + (k - (Len(u) - n))
      BY <1>1, <2>4
    <3>2. PICK j \in 1 .. n : k = Len(u) - n + j
      BY <3>1
    <3>3. u[k] = l[j]
      BY <3>2
    <3>4. j \in 1 .. Len(l) /\ j < i
      <4>1. j \in Nat \ {0} /\ j <= n /\ n \in Nat /\ i \in Nat /\ i <= Len(l)
        BY <1>1
      <4>2. j < i
        BY <1>5, <4>1
      <4>3. QED BY <1>1, <4>1, <4>2
    <3>5. l[j] < l[i] /\ l[j] \in Nat
      BY <1>2, <3>4
    <3>6. QED BY <2>2, <3>3, <3>5
  <2>5. QED BY <1>1, <2>3, <2>4
<1>6. {i \in 1 .. Len(l) : l[i] \in Range(u)} = 1 .. n
  <2>1. \A i \in 1 .. Len(l) : l[i] \in Range(u) <=> i <= n
    BY <1>1, <1>4, <1>5
  <2>2. \A i : i \in 1 .. n <=> i \in 1 .. Len(l) /\ i <= n
    BY <1>1
  <2>3. QED BY <2>1, <2>2
<1>7. Cardinality(1 .. n) = n
  BY FS_Interval
<1>8. QED BY <1>6, <1>7

\* The number HistoryInv speaks of is how much of the stream was applied.
LEMMA AppliedIs ==
  ASSUME TypeOK, LogOrdered, NEW n \in Nat, NewestApplied(n)
  PROVE  AppliedOfStream = n
<1>1. log \in Seq(Nat) /\ used \in Seq(Nat)
  <2>1. log \in Seq(Sequence) /\ used \in Seq(Sequence)
    BY DEF TypeOK
  <2>2. Sequence \subseteq Nat
    BY BoundsNat DEF Sequence
  <2>3. QED BY <2>1, <2>2, SeqMonotonic
<1>2. QED BY <1>1, CountOfPrefix DEF NewestApplied, LogOrdered, AppliedOfStream

LEMMA AppliedBecomes ==
  ASSUME TypeOK', LogOrdered', NEW n \in Nat, NewestApplied(n)'
  PROVE  AppliedOfStream' = n
<1>1. log' \in Seq(Nat) /\ used' \in Seq(Nat)
  <2>1. log' \in Seq(Sequence) /\ used' \in Seq(Sequence)
    BY DEF TypeOK
  <2>2. Sequence \subseteq Nat
    BY BoundsNat DEF Sequence
  <2>3. QED BY <2>1, <2>2, SeqMonotonic
<1>2. QED BY <1>1, CountOfPrefix DEF NewestApplied, LogOrdered, AppliedOfStream

-----------------------------------------------------------------------------
\* At the start there is no lease.
LEMMA InitLease ==
  ASSUME Init
  PROVE  Lease!LeaseInit
<1>1. granted = 0 /\ nextSequence = 1 /\ log = <<>> /\ tail = 0 /\ used = <<>> /\ Len(log) = 0
  BY EmptySeq DEF Init
<1>2. {i \in 1 .. Len(log) : log[i] \in Range(used)} = {}
  BY <1>1
<1>3. AppliedOfStream = 0
  BY <1>2, FS_EmptySet DEF AppliedOfStream
<1>4. QED BY <1>1, <1>3 DEF Lease!LeaseInit

\* A step that leaves the stream and the camera alone is none of the lease.
LEMMA NoLeaseStep ==
  ASSUME UNCHANGED <<granted, nextSequence, log, tail, used>>
  PROVE  UNCHANGED Lease!leaseVars
  BY DEF Lease!leaseVars, AppliedOfStream

\* A published record is accepted, and the newest is dropped when there is no room.
LEMMA ObserveRefines ==
  ASSUME GameInv, HistoryInv, Observe
  PROVE  Lease!Accept \/ Lease!DropNewest
<1>1. /\ granted # 0 /\ granted' = granted /\ tail' = tail /\ used' = used
      /\ nextSequence' = nextSequence + 1 /\ nextSequence \in Nat
      /\ Len(log) \in Nat /\ tail \in Nat /\ Capacity \in Nat /\ Len(log) - tail <= Capacity
      /\ nextSequence' - 1 = nextSequence /\ nextSequence' - 1 = nextSequence - 1 + 1
  BY ObserveEffect, BoundsNat DEF GameInv, TypeOK, Sequence
<1>2. CASE Len(log) - tail < Capacity
  <2>1. log' = Append(log, nextSequence)
    BY <1>2 DEF Observe
  <2>2. /\ Len(log') = Len(log) + 1 /\ log'[Len(log) + 1] = nextSequence
        /\ \A i \in 1 .. Len(log) : log'[i] = log[i]
    BY <2>1, AppendProperties DEF GameInv, TypeOK
  <2>3. nextSequence \notin Range(used)
    <3>1. \A i \in 1 .. Len(used) : used[i] < nextSequence /\ used[i] \in Nat
      <4>1. used \in Seq(Sequence) /\ Sequence \subseteq Nat
        BY BoundsNat DEF GameInv, TypeOK, Sequence
      <4>2. \A i \in 1 .. Len(used) : used[i] \in Sequence
        BY <4>1, ElementOfSeq
      <4>3. QED BY <4>1, <4>2 DEF HistoryInv, UsedKnown
    <3>2. Range(used) = {used[i] : i \in 1 .. Len(used)}
      BY RangeEquality DEF GameInv, TypeOK
    <3>3. QED BY <1>1, <3>1, <3>2
  <2>4. \A i \in 1 .. Len(log') : i \in 1 .. Len(log) \/ log'[i] = nextSequence
    BY <1>1, <2>2
  <2>5. {i \in 1 .. Len(log') : log'[i] \in Range(used')}
          = {i \in 1 .. Len(log) : log[i] \in Range(used)}
    BY <1>1, <2>2, <2>3, <2>4
  <2>6. AppliedOfStream' = AppliedOfStream
    BY <2>5 DEF AppliedOfStream
  <2>7. log' = Append(log, nextSequence' - 1)
    BY <1>1, <2>1
  <2>8. QED BY <1>1, <1>2, <2>6, <2>7 DEF Lease!Accept
<1>3. CASE ~(Len(log) - tail < Capacity)
  <2>1. log' = log /\ Len(log) - tail = Capacity
    BY <1>1, <1>3 DEF Observe
  <2>2. AppliedOfStream' = AppliedOfStream
    BY <1>1, <2>1 DEF AppliedOfStream
  <2>3. QED BY <1>1, <2>1, <2>2 DEF Lease!DropNewest
<1>4. QED BY <1>2, <1>3

\* The compositor takes the stream back.
LEMMA RevokeRefines ==
  ASSUME GameInv, Revoke
  PROVE  Lease!End
<1>1. granted # 0 /\ granted' = 0 /\ UNCHANGED <<nextSequence, log, tail, used>>
  BY RevokeEffect
<1>2. AppliedOfStream' = AppliedOfStream
  BY <1>1 DEF AppliedOfStream
<1>3. QED BY <1>1, <1>2 DEF Lease!End

\* The client gives it back, unless it was taken before.
LEMMA DestroyRefines ==
  ASSUME GameInv, requests # <<>>, Head(requests).type = "destroy", HandleRequest
  PROVE  Lease!End \/ UNCHANGED Lease!leaseVars
<1>1. granted' = 0 /\ UNCHANGED <<nextSequence, log, tail, used>>
  BY DestroyEffect
<1>2. AppliedOfStream' = AppliedOfStream
  BY <1>1 DEF AppliedOfStream
<1>3. CASE granted # 0
  BY <1>1, <1>2, <1>3 DEF Lease!End
<1>4. CASE granted = 0
  BY <1>1, <1>4, NoLeaseStep
<1>5. QED BY <1>3, <1>4

\* A new lease is granted only when the one before is over, and begins empty.
LEMMA GetStreamRefines ==
  ASSUME GameInv, requests # <<>>, Head(requests).type = "get_stream", HandleRequest
  PROVE  Lease!Grant \/ UNCHANGED Lease!leaseVars
<1>1. granted = 0 /\ UNCHANGED <<nextSequence, used>> /\ streams \in Nat
  BY GetStreamEffect
<1>2. CASE granted' = streams + 1 /\ log' = <<>> /\ Len(log') = 0 /\ tail' = 0
  <2>1. granted' # 0
    BY <1>1, <1>2
  <2>2. {i \in 1 .. Len(log') : log'[i] \in Range(used')} = {}
    BY <1>2
  <2>3. AppliedOfStream' = 0
    BY <2>2, FS_EmptySet DEF AppliedOfStream
  <2>4. QED BY <1>1, <1>2, <2>1, <2>3 DEF Lease!Grant
<1>3. CASE UNCHANGED <<granted, streams, log, tail, dropped>>
  BY <1>1, <1>3, NoLeaseStep
<1>4. QED BY GetStreamEffect, <1>2, <1>3

\* An acknowledgement gives room back for what was applied, or is ignored.
LEMMA TakeAcknowledgeRefines ==
  ASSUME GameInv, HistoryInv, HistoryInv', requests # <<>>,
         Head(requests).type = "acknowledge", HandleRequest
  PROVE  (\E n \in 1 .. Len(log) : Lease!Reclaim(n)) \/ UNCHANGED Lease!leaseVars
<1>1. UNCHANGED <<granted, nextSequence, log, used>> /\ AppliedOfStream' = AppliedOfStream
  BY TakeAcknowledgeEffect DEF AppliedOfStream
<1>2. CASE tail' = tail
  BY <1>1, <1>2, NoLeaseStep
<1>3. CASE tail' # tail
  <2>1. /\ requests[1].generation = granted /\ requests[1].generation # 0
        /\ tail' \in tail .. Len(log) /\ tail \in Nat /\ Len(log) \in Nat
    <3>1. requests[1].generation = granted /\ tail' \in tail .. Len(log)
      BY TakeAcknowledgeEffect, <1>3
    <3>2. requests[1].generation # 0
      BY TakeAcknowledgeEffect DEF Request
    <3>3. tail \in Nat /\ Len(log) \in Nat
      BY DEF GameInv, TypeOK
    <3>4. QED BY <3>1, <3>2, <3>3
  <2>2. PICK n \in 0 .. Len(log') : AppliedAre(n)'
    BY DEF HistoryInv
  <2>3. n \in Nat /\ NewestApplied(n) /\ tail' <= n
    <3>1. n \in Nat
      BY <1>1, <2>1
    <3>2. NewestApplied(n)
      BY <1>1, <2>2 DEF AppliedAre, NewestApplied
    <3>3. tail' <= n
      BY <2>2 DEF AppliedAre, RoomGivenBack
    <3>4. QED BY <3>1, <3>2, <3>3
  <2>4. AppliedOfStream = n
    BY <2>3, AppliedIs DEF GameInv
  <2>5. tail' \in tail .. AppliedOfStream /\ tail' \in 1 .. Len(log)
    BY <1>3, <2>1, <2>3, <2>4
  <2>6. Lease!Reclaim(tail')
    BY <1>1, <2>1, <2>5 DEF Lease!Reclaim
  <2>7. QED BY <2>5, <2>6
<1>4. QED BY <1>2, <1>3

\* What moves the camera is what comes next in the lease.
LEMMA MovesRefine ==
  ASSUME GameInv, GameInv', NEW n \in Nat, NewestApplied(n),
         NEW batch \in Seq(Sequence), NEW m \in Nat, MovesBy(n, m, batch),
         UNCHANGED <<granted, nextSequence, log, tail>>
  PROVE  (\E k \in 1 .. Len(log) : Lease!Apply(k)) \/ UNCHANGED Lease!leaseVars
<1>1. AppliedOfStream = n
  BY AppliedIs DEF GameInv
<1>2. AppliedOfStream' = m
  BY AppliedBecomes DEF GameInv, MovesBy
<1>3. /\ Len(batch) \in Nat /\ Len(log) \in Nat /\ m = n + Len(batch) /\ m <= Len(log)
      /\ used' = used \o batch
      /\ \A i \in 1 .. m - 1 : log[i + 1] = log[i] + 1
  <2>1. Len(batch) \in Nat
    OBVIOUS
  <2>2. Len(log) \in Nat
    <3>1. TypeOK
      BY DEF GameInv
    <3>2. QED BY <3>1 DEF TypeOK
  <2>3. QED BY <2>1, <2>2 DEF MovesBy
<1>4. CASE batch = <<>>
  <2>1. used' = used
    BY <1>3, <1>4, ConcatEmptySeq DEF GameInv, TypeOK
  <2>2. QED BY <2>1, NoLeaseStep
<1>5. CASE batch # <<>>
  <2>1. Len(batch) \in 1 .. Len(log)
    BY <1>3, <1>5, EmptySeq
  <2>2. batch = SubSeq(log, n + 1, n + Len(batch))
    <3>1. PICK part : part = SubSeq(log, n + 1, m)
      OBVIOUS
    <3>2. \A i \in n + 1 .. m : log[i] \in Sequence
      <4>1. \A i \in 1 .. Len(log) : log[i] \in Sequence
        BY ElementOfSeq DEF GameInv, TypeOK
      <4>2. \A i \in n + 1 .. m : i \in 1 .. Len(log)
        BY <1>3
      <4>3. QED BY <4>1, <4>2
    <3>3. /\ part \in Seq(Sequence)
          /\ Len(part) = IF n + 1 <= m THEN m - (n + 1) + 1 ELSE 0
          /\ \A i \in 1 .. m - (n + 1) + 1 : part[i] = log[n + 1 + i - 1]
      <4>1. n + 1 \in Int /\ m \in Int
        OBVIOUS
      <4>2. QED BY <3>1, <3>2, <4>1, SubSeqProperties
    <3>4. m - (n + 1) + 1 = Len(batch) /\ Len(part) = Len(batch)
          /\ \A i \in 1 .. Len(batch) : n + 1 + i - 1 = n + i
      BY <1>3, <2>1, <3>3
    <3>5. \A i \in 1 .. Len(batch) : batch[i] = log[n + i]
      BY DEF MovesBy
    <3>6. \A i \in 1 .. Len(batch) : batch[i] = part[i]
      BY <3>3, <3>4, <3>5
    <3>7. batch = part
      BY <3>3, <3>4, <3>6, SeqEqual
    <3>8. QED BY <1>3, <3>1, <3>7
  <2>3. Lease!Apply(Len(batch))
    <3>1. AppliedOfStream + Len(batch) = m
      BY <1>1, <1>3
    <3>2. used' = used \o SubSeq(log, AppliedOfStream + 1, AppliedOfStream + Len(batch))
      BY <1>1, <1>3, <2>2
    <3>3. \A i \in 1 .. AppliedOfStream + Len(batch) - 1 : log[i + 1] = log[i] + 1
      <4>1. AppliedOfStream + Len(batch) - 1 = m - 1
        BY <1>1, <1>3
      <4>2. QED BY <1>3, <4>1
    <3>4. AppliedOfStream + Len(batch) <= Len(log)
      BY <1>3, <3>1
    <3>5. AppliedOfStream' = AppliedOfStream + Len(batch)
      BY <1>2, <3>1
    <3>6. QED BY <3>2, <3>3, <3>4, <3>5, Zenon DEF Lease!Apply
  <2>4. QED BY <2>1, <2>3
<1>6. QED BY <1>4, <1>5

\* "hfior" applies its early read at once; other reads wait.
LEMMA ReadCopyRefines ==
  ASSUME GameInv, GameInv', HistoryInv, ReadCopy
  PROVE  (\E k \in 1 .. Len(log) : Lease!Apply(k)) \/ UNCHANGED Lease!leaseVars
<1>1. UNCHANGED <<granted, nextSequence, log, tail>>
  BY ReadCopyEffect
<1>2. CASE pc = "earlyCopy" /\ mode = "hfior"
  <2>1. PICK n \in 0 .. Len(log) : AppliedAre(n)
    BY DEF HistoryInv
  <2>2. PICK batch \in Seq(Sequence), m \in Nat : m = snapshot /\ MovesBy(n, m, batch)
    BY <1>2, <2>1, ReadCopyMoves
  <2>3. n \in Nat /\ NewestApplied(n)
    BY <2>1 DEF AppliedAre
  <2>4. QED BY <1>1, <2>2, <2>3, MovesRefine
<1>3. CASE ~(pc = "earlyCopy" /\ mode = "hfior")
  <2>1. used' = used
    BY <1>3, ModeIs DEF ReadCopy, GameInv
  <2>2. QED BY <1>1, <2>1, NoLeaseStep
<1>4. QED BY <1>2, <1>3

\* A frame applies what it holds.
LEMMA ApplyRefines ==
  ASSUME GameInv, GameInv', HistoryInv, Apply
  PROVE  (\E k \in 1 .. Len(log) : Lease!Apply(k)) \/ UNCHANGED Lease!leaseVars
<1>1. UNCHANGED <<granted, nextSequence, log, tail>> /\ pc = "apply"
  BY DEF Apply, compositorVars
<1>2. PICK n \in 0 .. Len(log) : AppliedAre(n)
  BY DEF HistoryInv
<1>3. CASE client.generation = 0
  <2>1. Unapplied = <<>>
    BY <1>2, <1>3 DEF AppliedAre, CursorAfter
  <2>2. used' = used
    BY <2>1, ApplyIsUnapplied, ConcatEmptySeq DEF GameInv, TypeOK
  <2>3. QED BY <1>1, <2>2, NoLeaseStep
<1>4. CASE client.generation # 0
  <2>1. PICK batch \in Seq(Sequence), m \in Nat :
          m = client.localTail /\ MovesBy(n, m, batch)
    BY <1>2, <1>4, ApplyMoves
  <2>2. n \in Nat /\ NewestApplied(n)
    BY <1>2 DEF AppliedAre
  <2>3. QED BY <1>1, <2>1, <2>2, MovesRefine
<1>5. QED BY <1>3, <1>4

\* Nothing else is seen of the lease.
LEMMA OtherLeaseSteps ==
  ASSUME \/ BeginFrame \/ Connect \/ ConnectFails \/ FinishConnect \/ SkipConnect
         \/ CheckReady \/ ReadHead \/ ReadRefused \/ ReadFailed \/ SkipRead \/ CheckSize
         \/ Acknowledge \/ SkipAcknowledge \/ EndFrame \/ Over \/ UNCHANGED vars
  PROVE  UNCHANGED Lease!leaseVars
<1>1. UNCHANGED <<granted, nextSequence, log, tail, used>>
  BY DEF BeginFrame, Connect, ConnectFails, FinishConnect, SkipConnect, CheckReady, ReadHead,
     ReadRefused, ReadFailed, SkipRead, CheckSize, Acknowledge, SkipAcknowledge, EndFrame,
     Over, vars, compositorVars, batchVars
<1>2. QED BY <1>1, NoLeaseStep

\* Compositor, client library and frame loop are the lease the protocol promises: its
\* history is applied from the beginning, without a gap and once, and nothing of an
\* older one after the next is granted (hfior_game_client_read, main).
THEOREM GameImplementsLease ==
  ASSUME EagerKeepsSize
  PROVE  Spec => ImplementsLease
<1>1. Init => Lease!LeaseInit
  BY InitLease
<1>2. /\ GameInv /\ HistoryInv
      /\ [Next]_vars
      /\ (GameInv /\ HistoryInv)'
      => [Lease!LeaseNext]_Lease!leaseVars
  <2>1. SUFFICES ASSUME GameInv, HistoryInv, [Next]_vars, GameInv', HistoryInv'
                 PROVE  Lease!LeaseNext \/ UNCHANGED Lease!leaseVars
    OBVIOUS
  <2>2. CASE Observe \/ Revoke
    BY <2>1, <2>2, ObserveRefines, RevokeRefines DEF Lease!LeaseNext
  <2>3. CASE HandleRequest
    <3>1. requests # <<>>
      BY <2>3 DEF HandleRequest
    <3>2. Head(requests).type \in {"get_stream", "acknowledge", "destroy"}
      BY <2>1, <3>1, RequestKinds DEF GameInv
    <3>3. QED
      BY <2>1, <2>3, <3>1, <3>2, GetStreamRefines, TakeAcknowledgeRefines, DestroyRefines
         DEF Lease!LeaseNext
  <2>4. CASE ReadCopy \/ Apply
    BY <2>1, <2>4, ReadCopyRefines, ApplyRefines DEF Lease!LeaseNext
  <2>5. CASE \/ BeginFrame \/ Connect \/ ConnectFails \/ FinishConnect \/ SkipConnect
             \/ CheckReady \/ ReadHead \/ ReadRefused \/ ReadFailed \/ SkipRead \/ CheckSize
             \/ Acknowledge \/ SkipAcknowledge \/ EndFrame \/ Over \/ UNCHANGED vars
    BY <2>5, OtherLeaseSteps
  <2>6. QED
    BY <2>1, <2>2, <2>3, <2>4, <2>5 DEF Next, Compositor, Game
<1>3. QED
  BY <1>1, <1>2, HistoryInvariant, EagerKeepsSize, PTL
     DEF Spec, ImplementsLease, Lease!LeaseSpec

=============================================================================
