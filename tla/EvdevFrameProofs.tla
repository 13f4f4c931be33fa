-------------------------- MODULE EvdevFrameProofs --------------------------
(***************************************************************************)
(* Proofs about EvdevFrame, for every buffer, packet length and width of   *)
(* the record.                                                             *)
(*                                                                         *)
(* The model folds packets.  What a fold computes is shown by induction    *)
(* over the packet, and the induction itself from the well-foundedness of  *)
(* the naturals, with a set in the place of a predicate and a function in  *)
(* the place of an operator.  For each fold of the model there is the      *)
(* sequence of values it goes through (FrameSteps, KeySteps, KeptSteps,    *)
(* QueueSteps, ValueSteps); what is said of the folds is said along it.    *)
(*                                                                         *)
(* EvdevInv is inductive: unless events were lost, reading the queue to    *)
(* its end would leave the bridge with the buttons that are down           *)
(* (ButtonsAhead), and the newest record has the buttons of the            *)
(* accumulator.                                                            *)
(***************************************************************************)
EXTENDS EvdevFrame, SequenceTheorems, WellFoundedInduction, TLAPS

-----------------------------------------------------------------------------
(* Induction and folds                                                     *)

\* A set of naturals that is not empty has a least element.
LEMMA SmallestNat ==
  ASSUME NEW T \in SUBSET Nat, T # {}
  PROVE  \E n \in T : \A m \in T : n <= m
<1>1. PICK R : R = OpToRel(<, Nat) /\ IsWellFoundedOn(R, Nat)
  BY NatLessThanWellFounded
<1>2. PICK n \in T : \A m \in T : ~(<<m, n>> \in R)
  BY <1>1, WFMin
<1>3. \A m \in T : ~(m < n)
  BY <1>1, <1>2 DEF OpToRel
<1>4. QED BY <1>3

\* A set that has 0 and, with a number, the next one, has them all.
LEMMA CountingUp ==
  ASSUME NEW G \in SUBSET Nat, 0 \in G, \A n \in G : n + 1 \in G
  PROVE  G = Nat
<1>1. SUFFICES ASSUME G # Nat
               PROVE  FALSE
  OBVIOUS
<1>2. PICK n \in Nat \ G : \A m \in Nat \ G : n <= m
  BY <1>1, SmallestNat
<1>3. n # 0 /\ n - 1 \in Nat
  BY <1>2
<1>4. n - 1 \in G
  BY <1>2, <1>3
<1>5. (n - 1) + 1 \in G
  BY <1>4
<1>6. QED BY <1>2, <1>5

\* The same up to a limit.
LEMMA CountingTo ==
  ASSUME NEW n \in Nat, NEW G \in SUBSET (0 .. n), 0 \in G, \A i \in G : i < n => i + 1 \in G
  PROVE  G = 0 .. n
<1> DEFINE H == G \cup {i \in Nat : i > n}
<1>1. H \in SUBSET Nat /\ 0 \in H
  <2>1. \A i \in G : i \in 0 .. n
    OBVIOUS
  <2>2. \A i \in H : i \in Nat
    BY <2>1
  <2>3. 0 \in H
    OBVIOUS
  <2>4. QED BY <2>2, <2>3
<1>2. ASSUME NEW i \in H
      PROVE  i + 1 \in H
  <2>1. CASE i \in G /\ i < n
    BY <2>1
  <2>2. CASE i \in G /\ ~(i < n)
    <3>1. i = n
      BY <2>2
    <3>2. QED BY <3>1
  <2>3. CASE i \in Nat /\ i > n
    BY <2>3
  <2>4. QED BY <2>1, <2>2, <2>3
<1>3. H = Nat
  <2> HIDE DEF H
  <2>1. QED BY <1>1, <1>2, CountingUp
<1>4. \A i \in 0 .. n : i \in H
  BY <1>3
<1>5. \A i \in 0 .. n : ~(i > n)
  OBVIOUS
<1>6. \A i \in 0 .. n : i \in G
  BY <1>4, <1>5
<1>7. QED BY <1>6

-----------------------------------------------------------------------------
LEMMA MaxIs ==
  ASSUME NEW k \in Nat, NEW s \in SUBSET (1 .. k), k \in s
  PROVE  Max(s) = k
<1>1. \A x \in s : k >= x
  OBVIOUS
<1>2. \A y \in s : (\A x \in s : y >= x) => y = k
  <2>1. TAKE y \in s
  <2>2. y \in 1 .. k
    OBVIOUS
  <2>3. y >= k => y = k
    BY <2>2
  <2>4. QED BY <2>3
<1>3. QED BY <1>1, <1>2 DEF Max

\* A set of positions that is not empty has a greatest one.
LEMMA MaxIn ==
  ASSUME NEW k \in Nat, NEW s \in SUBSET (1 .. k), s # {}
  PROVE  Max(s) \in s
<1> DEFINE T == {k - x : x \in s}
<1>1. T \in SUBSET Nat /\ T # {}
  <2>1. \A x \in s : x \in 1 .. k
    OBVIOUS
  <2>2. \A x \in 1 .. k : k - x \in Nat
    OBVIOUS
  <2>3. QED BY <2>1, <2>2
<1>2. PICK m \in T : \A t \in T : m <= t
  <2> HIDE DEF T
  <2>1. QED BY <1>1, SmallestNat
<1>3. PICK y \in s : m = k - y
  OBVIOUS
<1>4. \A x \in s : y >= x
  <2>1. TAKE x \in s
  <2>2. k - y <= k - x
    BY <1>2, <1>3
  <2>3. x \in 1 .. k /\ y \in 1 .. k
    BY <1>3
  <2>4. QED BY <2>2, <2>3
<1>5. QED BY <1>3, <1>4 DEF Max

LEMMA Places ==
  ASSUME NEW n \in Nat, NEW E, NEW seq \in [1 .. n -> E]
  PROVE  \A s \in SUBSET (1 .. n) :
           s # {} => seq[Max(s)] \in E /\ s \ {Max(s)} \in SUBSET (1 .. n)
<1>1. TAKE s \in SUBSET (1 .. n)
<1>2. s # {} => Max(s) \in s
  BY MaxIn
<1>3. QED BY <1>2

\* A fold from the left takes the elements of 1 .. n by their greatest position.
Folds(g, step, base, seq, n) ==
  \A s \in SUBSET (1 .. n) :
    g[s] = IF s = {} THEN base ELSE step[<<g[s \ {Max(s)}], seq[Max(s)]>>]

LEMMA FoldGrows ==
  ASSUME NEW X, NEW E, NEW step \in [X \X E -> X], NEW base \in X, NEW k \in Nat, NEW seq,
         seq[k + 1] \in E, NEW g \in [SUBSET (1 .. k) -> X], Folds(g, step, base, seq, k)
  PROVE  \E h \in [SUBSET (1 .. k + 1) -> X] : Folds(h, step, base, seq, k + 1)
<1> DEFINE h == [s \in SUBSET (1 .. k + 1) |->
                   IF k + 1 \in s THEN step[<<g[s \ {k + 1}], seq[k + 1]>>] ELSE g[s]]
<1>1. ASSUME NEW s \in SUBSET (1 .. k + 1)
      PROVE  s \ {k + 1} \in SUBSET (1 .. k)
  <2>1. ASSUME NEW x \in s \ {k + 1}
        PROVE  x \in 1 .. k
    <3>1. x \in 1 .. k + 1 /\ x # k + 1
      OBVIOUS
    <3>2. QED BY <3>1
  <2>2. QED BY <2>1
<1>2. h \in [SUBSET (1 .. k + 1) -> X]
  <2>1. ASSUME NEW s \in SUBSET (1 .. k + 1)
        PROVE  h[s] \in X
    <3>1. g[s \ {k + 1}] \in X
      BY <1>1
    <3>2. k + 1 \notin s => s = s \ {k + 1}
      OBVIOUS
    <3>3. QED BY <3>1, <3>2
  <2>2. QED BY <2>1
<1>3. ASSUME NEW s \in SUBSET (1 .. k + 1)
      PROVE  h[s] = IF s = {} THEN base ELSE step[<<h[s \ {Max(s)}], seq[Max(s)]>>]
  <2>1. CASE k + 1 \in s
    <3>1. Max(s) = k + 1
      BY <2>1, MaxIs
    <3>2. k + 1 \notin s \ {k + 1} /\ s \ {k + 1} \in SUBSET (1 .. k + 1)
      BY <1>1
    <3>3. h[s \ {k + 1}] = g[s \ {k + 1}]
      BY <3>2
    <3>4. h[s] = step[<<g[s \ {k + 1}], seq[k + 1]>>]
      BY <2>1
    <3>5. QED BY <2>1, <3>1, <3>3, <3>4
  <2>2. CASE k + 1 \notin s
    <3>1. s \in SUBSET (1 .. k)
      BY <2>2
    <3>2. s \ {Max(s)} \in SUBSET (1 .. k + 1) /\ k + 1 \notin s \ {Max(s)}
      BY <2>2
    <3>3. h[s] = g[s] /\ h[s \ {Max(s)}] = g[s \ {Max(s)}]
      BY <2>2, <3>2
    <3>4. QED BY <3>1, <3>3 DEF Folds
  <2>3. QED BY <2>1, <2>2
<1>4. QED
  <2> HIDE DEF h
  <2>1. QED BY <1>2, <1>3 DEF Folds

\* There is a function that meets the equation by which a fold is defined.
LEMMA FoldDefined ==
  ASSUME NEW X, NEW E, NEW step \in [X \X E -> X], NEW base \in X, NEW n \in Nat,
         NEW seq \in [1 .. n -> E]
  PROVE  \E g \in [SUBSET (1 .. n) -> X] : Folds(g, step, base, seq, n)
<1> DEFINE G == {k \in 0 .. n :
                   \E g \in [SUBSET (1 .. k) -> X] : Folds(g, step, base, seq, k)}
<1>1. 0 \in G
  <2>1. SUBSET (1 .. 0) = {{}}
    OBVIOUS
  <2>2. PICK g \in [SUBSET (1 .. 0) -> X] : g[{}] = base
    <3>1. [s \in SUBSET (1 .. 0) |-> base] \in [SUBSET (1 .. 0) -> X]
      OBVIOUS
    <3>2. QED BY <2>1, <3>1
  <2>3. Folds(g, step, base, seq, 0)
    BY <2>1, <2>2 DEF Folds
  <2>4. 0 \in 0 .. n
    OBVIOUS
  <2>5. \E h \in [SUBSET (1 .. 0) -> X] : Folds(h, step, base, seq, 0)
    BY <2>2, <2>3
  <2>6. QED BY <2>4, <2>5
<1>2. ASSUME NEW k \in G, k < n
      PROVE  k + 1 \in G
  <2>1. PICK g \in [SUBSET (1 .. k) -> X] : Folds(g, step, base, seq, k)
    OBVIOUS
  <2>2. k \in Nat /\ k + 1 \in 1 .. n
    BY <1>2
  <2>3. seq[k + 1] \in E
    BY <2>2
  <2>4. \E h \in [SUBSET (1 .. k + 1) -> X] : Folds(h, step, base, seq, k + 1)
    BY <2>1, <2>2, <2>3, FoldGrows
  <2>5. QED BY <2>2, <2>4
<1>3. n \in G
  <2>1. G \in SUBSET (0 .. n) /\ n \in 0 .. n
    OBVIOUS
  <2> HIDE DEF G
  <2>2. QED BY <1>1, <1>2, <2>1, CountingTo
<1>4. QED BY <1>3

\* The values a fold goes through.  The step need only be known on X.
Steps(F, step, base, seq, n) ==
  /\ F[0] = base
  /\ \A i \in 1 .. n : F[i] = step[<<F[i - 1], seq[i]>>]

Closed(step, X, E) == \A x \in X, e \in E : step[<<x, e>>] \in X

LEMMA FoldSteps ==
  ASSUME NEW X, NEW E, NEW step, NEW base \in X, NEW n \in Nat, NEW seq \in [1 .. n -> E],
         Closed(step, X, E),
         NEW g, Folds(g, step, base, seq, n)
  PROVE  \E F \in [0 .. n -> X] : Steps(F, step, base, seq, n) /\ F[n] = g[1 .. n]
<1> DEFINE F == [i \in 0 .. n |-> g[1 .. i]]
<1>1. F[0] = base
  <2>1. 1 .. 0 = {} /\ 1 .. 0 \in SUBSET (1 .. n)
    OBVIOUS
  <2>2. g[1 .. 0] = base
    BY <2>1 DEF Folds
  <2>3. QED BY <2>2
<1>2. ASSUME NEW i \in 1 .. n
      PROVE  F[i] = step[<<F[i - 1], seq[i]>>]
  <2>1. i \in Nat /\ i \in 1 .. i /\ 1 .. i # {} /\ 1 .. i \in SUBSET (1 .. n)
    <3>1. i \in Nat /\ i \in 1 .. i /\ i <= n
      OBVIOUS
    <3>2. \A j \in 1 .. i : j \in 1 .. n
      BY <3>1
    <3>3. QED BY <3>1, <3>2
  <2>2. Max(1 .. i) = i
    BY <2>1, MaxIs
  <2>3. (1 .. i) \ {i} = 1 .. i - 1
    BY <2>1
  <2>4. g[1 .. i] = step[<<g[1 .. i - 1], seq[i]>>]
    BY <2>1, <2>2, <2>3 DEF Folds
  <2>5. i \in 0 .. n /\ i - 1 \in 0 .. n
    OBVIOUS
  <2>6. QED BY <2>4, <2>5
<1> DEFINE G == {i \in 0 .. n : F[i] \in X}
<1>3. G = 0 .. n
  <2>1. 0 \in G
    BY <1>1
  <2>2. ASSUME NEW i \in G, i < n
        PROVE  i + 1 \in G
    <3>1. i + 1 \in 1 .. n /\ (i + 1) - 1 = i /\ F[i] \in X
      BY <2>2
    <3>2. F[i + 1] = step[<<F[i], seq[i + 1]>>]
      BY <1>2, <3>1
    <3>3. seq[i + 1] \in E
      BY <3>1
    <3>4. F[i + 1] \in X
      BY <3>1, <3>2, <3>3 DEF Closed
    <3>5. QED BY <3>1, <3>4
  <2>3. G \in SUBSET (0 .. n)
    OBVIOUS
  <2> HIDE DEF G
  <2>4. QED BY <2>1, <2>2, <2>3, CountingTo
<1>4. F \in [0 .. n -> X] /\ F[n] = g[1 .. n]
  <2>1. \A i \in 0 .. n : F[i] \in X
    BY <1>3
  <2>2. n \in 0 .. n
    OBVIOUS
  <2>3. QED BY <2>1, <2>2
<1>5. QED
  <2> HIDE DEF F
  <2>1. QED BY <1>1, <1>2, <1>4 DEF Steps

-----------------------------------------------------------------------------
(* The folds of the model                                                  *)

\* The kinds of events.
LEMMA EventKinds ==
  ASSUME NEW e \in Event
  PROVE  \/ e.type \in {"REL_X", "REL_WHEEL", "REL_WHEEL_HI_RES"} /\ e.value \in Delta
         \/ e.type = "EV_KEY" /\ e.button \in Button /\ e.down \in BOOLEAN
         \/ e.type = "SYN_DROPPED"
BY DEF Event, InputEvent, Motion, Wheel, HiRes, Key, SynDropped

\* process_input_event keeps the accumulator a frame.
LEMMA ProcessEventType ==
  ASSUME NEW f \in Frame, NEW e \in Event
  PROVE  ProcessEvent(f, e) \in Frame
<1>1. CASE e.type \in {"REL_X", "REL_WHEEL", "REL_WHEEL_HI_RES"} /\ e.value \in Delta
  <2>1. e.value \in Int
    BY <1>1, EvdevAssumption
  <2>2. CASE e.type = "REL_X"
    BY <2>1, <2>2 DEF ProcessEvent, Frame
  <2>3. CASE e.type = "REL_WHEEL"
    BY <2>1, <2>3 DEF ProcessEvent, Frame
  <2>4. CASE e.type = "REL_WHEEL_HI_RES"
    <3> DEFINE w == (IF f.hires THEN f.wheel ELSE 0) + e.value
    <3>1. w \in Int
      BY <2>1 DEF Frame
    <3>2. ProcessEvent(f, e) = [f EXCEPT !.wheel = w, !.hires = TRUE]
      BY <2>4 DEF ProcessEvent, Frame
    <3> HIDE DEF w
    <3>3. QED BY <3>1, <3>2 DEF Frame
  <2>5. QED BY <1>1, <2>2, <2>3, <2>4
<1>2. CASE e.type = "EV_KEY" /\ e.button \in Button /\ e.down \in BOOLEAN
  <2>1. KeyEvent(f, e) \in Frame
    BY <1>2 DEF KeyEvent, Frame, Flag
  <2>2. QED BY <1>2, <2>1 DEF ProcessEvent
<1>3. CASE e.type = "SYN_DROPPED"
  BY <1>3 DEF ProcessEvent, Frame, Flag
<1>4. QED BY <1>1, <1>2, <1>3, EventKinds

LEMMA ProcessEventKeys ==
  ASSUME NEW f \in Frame, NEW e \in Event
  PROVE  ProcessEvent(f, e).buttons = KeysAfterEvent(f.buttons, e)
<1>1. CASE e.type = "EV_KEY" /\ e.button \in Button /\ e.down \in BOOLEAN
  BY <1>1 DEF ProcessEvent, KeyEvent, KeysAfterEvent, Frame
<1>2. CASE e.type \in {"REL_X", "REL_WHEEL", "REL_WHEEL_HI_RES"}
  BY <1>2 DEF ProcessEvent, KeysAfterEvent, Frame
<1>3. CASE e.type = "SYN_DROPPED"
  BY <1>3 DEF ProcessEvent, KeysAfterEvent, Frame
<1>4. QED BY <1>1, <1>2, <1>3, EventKinds

\* The frames a packet goes through.
LEMMA FrameSteps ==
  ASSUME NEW f \in Frame, NEW packet \in Seq(Event)
  PROVE  \E F \in [0 .. Len(packet) -> Frame] :
           /\ F[0] = f
           /\ \A i \in 1 .. Len(packet) : F[i] = ProcessEvent(F[i - 1], packet[i])
           /\ F[Len(packet)] = FoldLeft(ProcessEvent, f, packet)
<1> DEFINE X == Frame
           E == Event
           n == Len(packet)
           step == [xe \in X \X E |-> ProcessEvent(xe[1], xe[2])]
           iter == CHOOSE it : it = [s \in SUBSET (DOMAIN packet) |->
                     IF s = {} THEN f
                     ELSE ProcessEvent(it[s \ {Max(s)}], packet[Max(s)])]
           Y == X \cup {iter[s] : s \in SUBSET (1 .. n)}
           wide == [xe \in Y \X E |-> ProcessEvent(xe[1], xe[2])]
<1>1. FoldLeft(ProcessEvent, f, packet) = iter[DOMAIN packet]
  BY DEF FoldLeft, MapThenFoldSet
<1>2. n \in Nat /\ packet \in [1 .. n -> E] /\ DOMAIN packet = 1 .. n
  OBVIOUS
<1>3. step \in [X \X E -> X] /\ Closed(wide, X, E) /\ f \in X
  BY ProcessEventType DEF Closed
<1>4. \E g \in [SUBSET (1 .. n) -> X] : Folds(g, step, f, packet, n)
  <2> HIDE DEF X, E, n, step
  <2>1. QED BY <1>2, <1>3, FoldDefined
<1>5. \A s \in SUBSET (1 .. n) :
        s # {} => packet[Max(s)] \in E /\ s \ {Max(s)} \in SUBSET (1 .. n)
  BY <1>2, Places
<1>6. \E g : g = [s \in SUBSET (DOMAIN packet) |->
             IF s = {} THEN f ELSE ProcessEvent(g[s \ {Max(s)}], packet[Max(s)])]
  <2>1. PICK g \in [SUBSET (1 .. n) -> X] : Folds(g, step, f, packet, n)
    BY <1>4
  <2>2. ASSUME NEW s \in SUBSET (1 .. n)
        PROVE  g[s] = IF s = {} THEN f ELSE ProcessEvent(g[s \ {Max(s)}], packet[Max(s)])
    BY <1>5, <2>1 DEF Folds
  <2> DEFINE R(s) == IF s = {} THEN f ELSE ProcessEvent(g[s \ {Max(s)}], packet[Max(s)])
  <2>3. \A s \in SUBSET (1 .. n) : g[s] = R(s)
    BY <2>2
  <2>4. g = [s \in SUBSET (DOMAIN packet) |-> R(s)]
    <3> HIDE DEF R, X, n
    <3>1. QED BY <1>2, <2>1, <2>3
  <2>5. QED BY <2>4
<1>7. iter = [s \in SUBSET (DOMAIN packet) |->
                IF s = {} THEN f ELSE ProcessEvent(iter[s \ {Max(s)}], packet[Max(s)])]
  BY <1>6
<1>8. Folds(iter, wide, f, packet, n)
  <2> HIDE DEF iter
  <2>1. ASSUME NEW s \in SUBSET (1 .. n), s # {}
        PROVE  iter[s] = wide[<<iter[s \ {Max(s)}], packet[Max(s)]>>]
    <3>1. iter[s \ {Max(s)}] \in Y /\ packet[Max(s)] \in E
      BY <1>5, <2>1
    <3>2. QED BY <1>2, <1>7, <2>1, <3>1
  <2>2. iter[{}] = f
    BY <1>7, <1>2
  <2>3. QED BY <2>1, <2>2 DEF Folds
<1>9. PICK F \in [0 .. n -> X] : Steps(F, wide, f, packet, n) /\ F[n] = iter[1 .. n]
  <2>1. n \in Nat /\ packet \in [1 .. n -> E] /\ Closed(wide, X, E) /\ f \in X
    BY <1>2, <1>3
  <2> HIDE DEF X, E, n, wide, iter
  <2>2. QED BY <2>1, <1>8, FoldSteps
<1>10. ASSUME NEW i \in 1 .. n
       PROVE  F[i] = ProcessEvent(F[i - 1], packet[i])
  <2>1. i \in Nat /\ i - 1 \in 0 .. n /\ F[i - 1] \in Y /\ packet[i] \in E
    <3>1. i \in Nat /\ i - 1 \in 0 .. n
      BY <1>2
    <3> HIDE DEF X, E, n
    <3>2. QED BY <1>2, <1>9, <3>1
  <2>2. wide[<<F[i - 1], packet[i]>>] = ProcessEvent(F[i - 1], packet[i])
    BY <2>1
  <2> HIDE DEF wide
  <2>3. QED BY <1>9, <2>2 DEF Steps
<1>11. F[0] = f /\ F[n] = FoldLeft(ProcessEvent, f, packet)
  BY <1>1, <1>2, <1>9 DEF Steps
<1>12. QED BY <1>9, <1>10, <1>11

LEMMA KeysAfterEventType ==
  ASSUME NEW keys \in SUBSET Button, NEW e \in Event
  PROVE  KeysAfterEvent(keys, e) \in SUBSET Button
BY EventKinds DEF KeysAfterEvent

\* The sets of keys a packet goes through.
LEMMA KeySteps ==
  ASSUME NEW keys \in SUBSET Button, NEW packet \in Seq(Event)
  PROVE  \E F \in [0 .. Len(packet) -> SUBSET Button] :
           /\ F[0] = keys
           /\ \A i \in 1 .. Len(packet) : F[i] = KeysAfterEvent(F[i - 1], packet[i])
           /\ F[Len(packet)] = KeysAfter(keys, packet)
<1> DEFINE X == (SUBSET Button)
           E == Event
           n == Len(packet)
           step == [xe \in X \X E |-> KeysAfterEvent(xe[1], xe[2])]
           iter == CHOOSE it : it = [s \in SUBSET (DOMAIN packet) |->
                     IF s = {} THEN keys
                     ELSE KeysAfterEvent(it[s \ {Max(s)}], packet[Max(s)])]
           Y == X \cup {iter[s] : s \in SUBSET (1 .. n)}
           wide == [xe \in Y \X E |-> KeysAfterEvent(xe[1], xe[2])]
<1>1. KeysAfter(keys, packet) = iter[DOMAIN packet]
  BY DEF KeysAfter, FoldLeft, MapThenFoldSet
<1>2. n \in Nat /\ packet \in [1 .. n -> E] /\ DOMAIN packet = 1 .. n
  OBVIOUS
<1>3. step \in [X \X E -> X] /\ Closed(wide, X, E) /\ keys \in X
  BY KeysAfterEventType DEF Closed
<1>4. \E g \in [SUBSET (1 .. n) -> X] : Folds(g, step, keys, packet, n)
  <2> HIDE DEF X, E, n, step
  <2>1. QED BY <1>2, <1>3, FoldDefined
<1>5. \A s \in SUBSET (1 .. n) :
        s # {} => packet[Max(s)] \in E /\ s \ {Max(s)} \in SUBSET (1 .. n)
  BY <1>2, Places
<1>6. \E g : g = [s \in SUBSET (DOMAIN packet) |->
             IF s = {} THEN keys ELSE KeysAfterEvent(g[s \ {Max(s)}], packet[Max(s)])]
  <2>1. PICK g \in [SUBSET (1 .. n) -> X] : Folds(g, step, keys, packet, n)
    BY <1>4
  <2>2. ASSUME NEW s \in SUBSET (1 .. n)
        PROVE  g[s] = IF s = {} THEN keys ELSE KeysAfterEvent(g[s \ {Max(s)}], packet[Max(s)])
    BY <1>5, <2>1 DEF Folds
  <2> DEFINE R(s) == IF s = {} THEN keys ELSE KeysAfterEvent(g[s \ {Max(s)}], packet[Max(s)])
  <2>3. \A s \in SUBSET (1 .. n) : g[s] = R(s)
    BY <2>2
  <2>4. g = [s \in SUBSET (DOMAIN packet) |-> R(s)]
    <3> HIDE DEF R, X, n
    <3>1. QED BY <1>2, <2>1, <2>3
  <2>5. QED BY <2>4
<1>7. iter = [s \in SUBSET (DOMAIN packet) |->
                IF s = {} THEN keys ELSE KeysAfterEvent(iter[s \ {Max(s)}], packet[Max(s)])]
  BY <1>6
<1>8. Folds(iter, wide, keys, packet, n)
  <2> HIDE DEF iter
  <2>1. ASSUME NEW s \in SUBSET (1 .. n), s # {}
        PROVE  iter[s] = wide[<<iter[s \ {Max(s)}], packet[Max(s)]>>]
    <3>1. iter[s \ {Max(s)}] \in Y /\ packet[Max(s)] \in E
      BY <1>5, <2>1
    <3>2. QED BY <1>2, <1>7, <2>1, <3>1
  <2>2. iter[{}] = keys
    BY <1>7, <1>2
  <2>3. QED BY <2>1, <2>2 DEF Folds
<1>9. PICK F \in [0 .. n -> X] : Steps(F, wide, keys, packet, n) /\ F[n] = iter[1 .. n]
  <2>1. n \in Nat /\ packet \in [1 .. n -> E] /\ Closed(wide, X, E) /\ keys \in X
    BY <1>2, <1>3
  <2> HIDE DEF X, E, n, wide, iter
  <2>2. QED BY <2>1, <1>8, FoldSteps
<1>10. ASSUME NEW i \in 1 .. n
       PROVE  F[i] = KeysAfterEvent(F[i - 1], packet[i])
  <2>1. i \in Nat /\ i - 1 \in 0 .. n /\ F[i - 1] \in Y /\ packet[i] \in E
    <3>1. i \in Nat /\ i - 1 \in 0 .. n
      BY <1>2
    <3> HIDE DEF X, E, n
    <3>2. QED BY <1>2, <1>9, <3>1
  <2>2. wide[<<F[i - 1], packet[i]>>] = KeysAfterEvent(F[i - 1], packet[i])
    BY <2>1
  <2> HIDE DEF wide
  <2>3. QED BY <1>9, <2>2 DEF Steps
<1>11. F[0] = keys /\ F[n] = KeysAfter(keys, packet)
  BY <1>1, <1>2, <1>9 DEF Steps
<1>12. QED BY <1>9, <1>10, <1>11

\* The part of a packet that is left without its key events.
KeylessEvent == {e \in Event : e.type # "EV_KEY"}

\* One event of a packet, one packet of the queue, one event of a sum.
EventKept(rest, e) == IF e.type = "EV_KEY" THEN rest ELSE Append(rest, e)
PacketKept(rest, packet) ==
  IF WithoutKeys(packet) = <<>> THEN rest ELSE Append(rest, WithoutKeys(packet))
Added(sum, e, type) == IF e.type = type THEN sum + e.value ELSE sum

\* What is kept of a packet, event by event.
LEMMA KeptSteps ==
  ASSUME NEW packet \in Seq(Event)
  PROVE  \E F \in [0 .. Len(packet) -> Seq(KeylessEvent)] :
           /\ F[0] = <<>>
           /\ \A i \in 1 .. Len(packet) : F[i] = EventKept(F[i - 1], packet[i])
           /\ F[Len(packet)] = WithoutKeys(packet)
<1> DEFINE X == Seq(KeylessEvent)
           E == Event
           n == Len(packet)
           step == [xe \in X \X E |-> EventKept(xe[1], xe[2])]
           iter == CHOOSE it : it = [s \in SUBSET (DOMAIN packet) |->
                     IF s = {} THEN <<>>
                     ELSE EventKept(it[s \ {Max(s)}], packet[Max(s)])]
           Y == X \cup {iter[s] : s \in SUBSET (1 .. n)}
           wide == [xe \in Y \X E |-> EventKept(xe[1], xe[2])]
<1>1. WithoutKeys(packet) = iter[DOMAIN packet]
  BY DEF WithoutKeys, EventKept, FoldLeft, MapThenFoldSet
<1>2. n \in Nat /\ packet \in [1 .. n -> E] /\ DOMAIN packet = 1 .. n
  OBVIOUS
<1>3. step \in [X \X E -> X] /\ Closed(wide, X, E) /\ <<>> \in X
  BY AppendProperties DEF KeylessEvent, EventKept, Closed
<1>4. \E g \in [SUBSET (1 .. n) -> X] : Folds(g, step, <<>>, packet, n)
  <2> HIDE DEF X, E, n, step
  <2>1. QED BY <1>2, <1>3, FoldDefined
<1>5. \A s \in SUBSET (1 .. n) :
        s # {} => packet[Max(s)] \in E /\ s \ {Max(s)} \in SUBSET (1 .. n)
  BY <1>2, Places
<1>6. \E g : g = [s \in SUBSET (DOMAIN packet) |->
             IF s = {} THEN <<>> ELSE EventKept(g[s \ {Max(s)}], packet[Max(s)])]
  <2>1. PICK g \in [SUBSET (1 .. n) -> X] : Folds(g, step, <<>>, packet, n)
    BY <1>4
  <2>2. ASSUME NEW s \in SUBSET (1 .. n)
        PROVE  g[s] = IF s = {} THEN <<>> ELSE EventKept(g[s \ {Max(s)}], packet[Max(s)])
    BY <1>5, <2>1 DEF Folds
  <2> DEFINE R(s) == IF s = {} THEN <<>> ELSE EventKept(g[s \ {Max(s)}], packet[Max(s)])
  <2>3. \A s \in SUBSET (1 .. n) : g[s] = R(s)
    BY <2>2
  <2>4. g = [s \in SUBSET (DOMAIN packet) |-> R(s)]
    <3> HIDE DEF R, X, n
    <3>1. QED BY <1>2, <2>1, <2>3
  <2>5. QED BY <2>4
<1>7. iter = [s \in SUBSET (DOMAIN packet) |->
                IF s = {} THEN <<>> ELSE EventKept(iter[s \ {Max(s)}], packet[Max(s)])]
  BY <1>6
<1>8. Folds(iter, wide, <<>>, packet, n)
  <2> HIDE DEF iter
  <2>1. ASSUME NEW s \in SUBSET (1 .. n), s # {}
        PROVE  iter[s] = wide[<<iter[s \ {Max(s)}], packet[Max(s)]>>]
    <3>1. iter[s \ {Max(s)}] \in Y /\ packet[Max(s)] \in E
      BY <1>5, <2>1
    <3>2. QED BY <1>2, <1>7, <2>1, <3>1
  <2>2. iter[{}] = <<>>
    BY <1>7, <1>2
  <2>3. QED BY <2>1, <2>2 DEF Folds
<1>9. PICK F \in [0 .. n -> X] : Steps(F, wide, <<>>, packet, n) /\ F[n] = iter[1 .. n]
  <2>1. n \in Nat /\ packet \in [1 .. n -> E] /\ Closed(wide, X, E) /\ <<>> \in X
    BY <1>2, <1>3
  <2> HIDE DEF X, E, n, wide, iter
  <2>2. QED BY <2>1, <1>8, FoldSteps
<1>10. ASSUME NEW i \in 1 .. n
       PROVE  F[i] = EventKept(F[i - 1], packet[i])
  <2>1. i \in Nat /\ i - 1 \in 0 .. n /\ F[i - 1] \in Y /\ packet[i] \in E
    <3>1. i \in Nat /\ i - 1 \in 0 .. n
      BY <1>2
    <3> HIDE DEF X, E, n
    <3>2. QED BY <1>2, <1>9, <3>1
  <2>2. wide[<<F[i - 1], packet[i]>>] = EventKept(F[i - 1], packet[i])
    BY <2>1
  <2> HIDE DEF wide
  <2>3. QED BY <1>9, <2>2 DEF Steps
<1>11. F[0] = <<>> /\ F[n] = WithoutKeys(packet)
  BY <1>1, <1>2, <1>9 DEF Steps
<1>12. QED BY <1>9, <1>10, <1>11

LEMMA WithoutKeysType ==
  ASSUME NEW packet \in Seq(Event)
  PROVE  WithoutKeys(packet) \in Seq(KeylessEvent)
<1>1. Len(packet) \in 0 .. Len(packet)
  OBVIOUS
<1>2. QED BY <1>1, KeptSteps

\* What is kept of the queue, packet by packet.
LEMMA QueueSteps ==
  ASSUME NEW packets \in Seq(Seq(Event))
  PROVE  \E F \in [0 .. Len(packets) -> Seq(Seq(KeylessEvent))] :
           /\ F[0] = <<>>
           /\ \A i \in 1 .. Len(packets) : F[i] = PacketKept(F[i - 1], packets[i])
           /\ F[Len(packets)] = QueueWithoutKeys(packets)
<1> DEFINE X == Seq(Seq(KeylessEvent))
           E == Seq(Event)
           n == Len(packets)
           step == [xe \in X \X E |-> PacketKept(xe[1], xe[2])]
           iter == CHOOSE it : it = [s \in SUBSET (DOMAIN packets) |->
                     IF s = {} THEN <<>>
                     ELSE PacketKept(it[s \ {Max(s)}], packets[Max(s)])]
           Y == X \cup {iter[s] : s \in SUBSET (1 .. n)}
           wide == [xe \in Y \X E |-> PacketKept(xe[1], xe[2])]
<1>1. QueueWithoutKeys(packets) = iter[DOMAIN packets]
  BY DEF QueueWithoutKeys, PacketKept, FoldLeft, MapThenFoldSet
<1>2. n \in Nat /\ packets \in [1 .. n -> E] /\ DOMAIN packets = 1 .. n
  OBVIOUS
<1>3. step \in [X \X E -> X] /\ Closed(wide, X, E) /\ <<>> \in X
  BY WithoutKeysType, AppendProperties DEF PacketKept, Closed
<1>4. \E g \in [SUBSET (1 .. n) -> X] : Folds(g, step, <<>>, packets, n)
  <2> HIDE DEF X, E, n, step
  <2>1. QED BY <1>2, <1>3, FoldDefined
<1>5. \A s \in SUBSET (1 .. n) :
        s # {} => packets[Max(s)] \in E /\ s \ {Max(s)} \in SUBSET (1 .. n)
  BY <1>2, Places
<1>6. \E g : g = [s \in SUBSET (DOMAIN packets) |->
             IF s = {} THEN <<>> ELSE PacketKept(g[s \ {Max(s)}], packets[Max(s)])]
  <2>1. PICK g \in [SUBSET (1 .. n) -> X] : Folds(g, step, <<>>, packets, n)
    BY <1>4
  <2>2. ASSUME NEW s \in SUBSET (1 .. n)
        PROVE  g[s] = IF s = {} THEN <<>> ELSE PacketKept(g[s \ {Max(s)}], packets[Max(s)])
    BY <1>5, <2>1 DEF Folds
  <2> DEFINE R(s) == IF s = {} THEN <<>> ELSE PacketKept(g[s \ {Max(s)}], packets[Max(s)])
  <2>3. \A s \in SUBSET (1 .. n) : g[s] = R(s)
    BY <2>2
  <2>4. g = [s \in SUBSET (DOMAIN packets) |-> R(s)]
    <3> HIDE DEF R, X, n
    <3>1. QED BY <1>2, <2>1, <2>3
  <2>5. QED BY <2>4
<1>7. iter = [s \in SUBSET (DOMAIN packets) |->
                IF s = {} THEN <<>> ELSE PacketKept(iter[s \ {Max(s)}], packets[Max(s)])]
  BY <1>6
<1>8. Folds(iter, wide, <<>>, packets, n)
  <2> HIDE DEF iter
  <2>1. ASSUME NEW s \in SUBSET (1 .. n), s # {}
        PROVE  iter[s] = wide[<<iter[s \ {Max(s)}], packets[Max(s)]>>]
    <3>1. iter[s \ {Max(s)}] \in Y /\ packets[Max(s)] \in E
      BY <1>5, <2>1
    <3>2. QED BY <1>2, <1>7, <2>1, <3>1
  <2>2. iter[{}] = <<>>
    BY <1>7, <1>2
  <2>3. QED BY <2>1, <2>2 DEF Folds
<1>9. PICK F \in [0 .. n -> X] : Steps(F, wide, <<>>, packets, n) /\ F[n] = iter[1 .. n]
  <2>1. n \in Nat /\ packets \in [1 .. n -> E] /\ Closed(wide, X, E) /\ <<>> \in X
    BY <1>2, <1>3
  <2> HIDE DEF X, E, n, wide, iter
  <2>2. QED BY <2>1, <1>8, FoldSteps
<1>10. ASSUME NEW i \in 1 .. n
       PROVE  F[i] = PacketKept(F[i - 1], packets[i])
  <2>1. i \in Nat /\ i - 1 \in 0 .. n /\ F[i - 1] \in Y /\ packets[i] \in E
    <3>1. i \in Nat /\ i - 1 \in 0 .. n
      BY <1>2
    <3> HIDE DEF X, E, n
    <3>2. QED BY <1>2, <1>9, <3>1
  <2>2. wide[<<F[i - 1], packets[i]>>] = PacketKept(F[i - 1], packets[i])
    BY <2>1
  <2> HIDE DEF wide
  <2>3. QED BY <1>9, <2>2 DEF Steps
<1>11. F[0] = <<>> /\ F[n] = QueueWithoutKeys(packets)
  BY <1>1, <1>2, <1>9 DEF Steps
<1>12. QED BY <1>9, <1>10, <1>11

\* The sums a packet goes through.
LEMMA ValueType ==
  ASSUME NEW type \in {"REL_X", "REL_WHEEL", "REL_WHEEL_HI_RES"}, NEW e \in Event,
         e.type = type
  PROVE  e.value \in Int
BY EventKinds, EvdevAssumption

LEMMA ValueSteps ==
  ASSUME NEW type \in {"REL_X", "REL_WHEEL", "REL_WHEEL_HI_RES"},
         NEW packet \in Seq(Event)
  PROVE  \E F \in [0 .. Len(packet) -> Int] :
           /\ F[0] = 0
           /\ \A i \in 1 .. Len(packet) : F[i] = Added(F[i - 1], packet[i], type)
           /\ F[Len(packet)] = ValuesOf(packet, type)
<1> DEFINE X == Int
           E == Event
           n == Len(packet)
           step == [xe \in X \X E |-> Added(xe[1], xe[2], type)]
           iter == CHOOSE it : it = [s \in SUBSET (DOMAIN packet) |->
                     IF s = {} THEN 0
                     ELSE Added(it[s \ {Max(s)}], packet[Max(s)], type)]
           Y == X \cup {iter[s] : s \in SUBSET (1 .. n)}
           wide == [xe \in Y \X E |-> Added(xe[1], xe[2], type)]
<1>1. ValuesOf(packet, type) = iter[DOMAIN packet]
  BY DEF ValuesOf, Added, FoldLeft, MapThenFoldSet
<1>2. n \in Nat /\ packet \in [1 .. n -> E] /\ DOMAIN packet = 1 .. n
  OBVIOUS
<1>3. step \in [X \X E -> X] /\ Closed(wide, X, E) /\ 0 \in X
  BY ValueType DEF Added, Closed
<1>4. \E g \in [SUBSET (1 .. n) -> X] : Folds(g, step, 0, packet, n)
  <2> HIDE DEF X, E, n, step
  <2>1. QED BY <1>2, <1>3, FoldDefined
<1>5. \A s \in SUBSET (1 .. n) :
        s # {} => packet[Max(s)] \in E /\ s \ {Max(s)} \in SUBSET (1 .. n)
  BY <1>2, Places
<1>6. \E g : g = [s \in SUBSET (DOMAIN packet) |->
             IF s = {} THEN 0 ELSE Added(g[s \ {Max(s)}], packet[Max(s)], type)]
  <2>1. PICK g \in [SUBSET (1 .. n) -> X] : Folds(g, step, 0, packet, n)
    BY <1>4
  <2>2. ASSUME NEW s \in SUBSET (1 .. n)
        PROVE  g[s] = IF s = {} THEN 0 ELSE Added(g[s \ {Max(s)}], packet[Max(s)], type)
    BY <1>5, <2>1 DEF Folds
  <2> DEFINE R(s) == IF s = {} THEN 0 ELSE Added(g[s \ {Max(s)}], packet[Max(s)], type)
  <2>3. \A s \in SUBSET (1 .. n) : g[s] = R(s)
    BY <2>2
  <2>4. g = [s \in SUBSET (DOMAIN packet) |-> R(s)]
    <3> HIDE DEF R, X, n
    <3>1. QED BY <1>2, <2>1, <2>3
  <2>5. QED BY <2>4
<1>7. iter = [s \in SUBSET (DOMAIN packet) |->
                IF s = {} THEN 0 ELSE Added(iter[s \ {Max(s)}], packet[Max(s)], type)]
  BY <1>6
<1>8. Folds(iter, wide, 0, packet, n)
  <2> HIDE DEF iter
  <2>1. ASSUME NEW s \in SUBSET (1 .. n), s # {}
        PROVE  iter[s] = wide[<<iter[s \ {Max(s)}], packet[Max(s)]>>]
    <3>1. iter[s \ {Max(s)}] \in Y /\ packet[Max(s)] \in E
      BY <1>5, <2>1
    <3>2. QED BY <1>2, <1>7, <2>1, <3>1
  <2>2. iter[{}] = 0
    BY <1>7, <1>2
  <2>3. QED BY <2>1, <2>2 DEF Folds
<1>9. PICK F \in [0 .. n -> X] : Steps(F, wide, 0, packet, n) /\ F[n] = iter[1 .. n]
  <2>1. n \in Nat /\ packet \in [1 .. n -> E] /\ Closed(wide, X, E) /\ 0 \in X
    BY <1>2, <1>3
  <2> HIDE DEF X, E, n, wide, iter
  <2>2. QED BY <2>1, <1>8, FoldSteps
<1>10. ASSUME NEW i \in 1 .. n
       PROVE  F[i] = Added(F[i - 1], packet[i], type)
  <2>1. i \in Nat /\ i - 1 \in 0 .. n /\ F[i - 1] \in Y /\ packet[i] \in E
    <3>1. i \in Nat /\ i - 1 \in 0 .. n
      BY <1>2
    <3> HIDE DEF X, E, n
    <3>2. QED BY <1>2, <1>9, <3>1
  <2>2. wide[<<F[i - 1], packet[i]>>] = Added(F[i - 1], packet[i], type)
    BY <2>1
  <2> HIDE DEF wide
  <2>3. QED BY <1>9, <2>2 DEF Steps
<1>11. F[0] = 0 /\ F[n] = ValuesOf(packet, type)
  BY <1>1, <1>2, <1>9 DEF Steps
<1>12. QED BY <1>9, <1>10, <1>11

-----------------------------------------------------------------------------
(* What a packet does to the keys and to the queue                         *)

\* The frame's buttons are the keys that are down after the packet.
LEMMA FrameKeys ==
  ASSUME NEW f \in Frame, NEW packet \in Seq(Event)
  PROVE  FoldLeft(ProcessEvent, f, packet).buttons = KeysAfter(f.buttons, packet)
<1> DEFINE n == Len(packet)
<1>1. PICK F \in [0 .. n -> Frame] :
        /\ F[0] = f
        /\ \A i \in 1 .. n : F[i] = ProcessEvent(F[i - 1], packet[i])
        /\ F[n] = FoldLeft(ProcessEvent, f, packet)
  BY FrameSteps
<1>2. f.buttons \in SUBSET Button
  BY DEF Frame
<1>3. PICK K \in [0 .. n -> SUBSET Button] :
        /\ K[0] = f.buttons
        /\ \A i \in 1 .. n : K[i] = KeysAfterEvent(K[i - 1], packet[i])
        /\ K[n] = KeysAfter(f.buttons, packet)
  BY <1>2, KeySteps
<1> DEFINE G == {i \in 0 .. n : F[i].buttons = K[i]}
<1>4. n \in Nat /\ G \in SUBSET (0 .. n) /\ 0 \in G
  BY <1>1, <1>3
<1>5. ASSUME NEW i \in G, i < n
      PROVE  i + 1 \in G
  <2>1. i + 1 \in 1 .. n /\ (i + 1) - 1 = i /\ i \in 0 .. n
    BY <1>5
  <2>2. F[i] \in Frame /\ packet[i + 1] \in Event /\ F[i].buttons = K[i]
    BY <2>1
  <2>3. F[i + 1] = ProcessEvent(F[i], packet[i + 1])
    BY <1>1, <2>1
  <2>4. K[i + 1] = KeysAfterEvent(K[i], packet[i + 1])
    BY <1>3, <2>1
  <2>5. ProcessEvent(F[i], packet[i + 1]).buttons = KeysAfterEvent(F[i].buttons, packet[i + 1])
    BY <2>2, ProcessEventKeys
  <2>6. QED BY <2>1, <2>2, <2>3, <2>4, <2>5
<1>6. G = 0 .. n
  <2> HIDE DEF G, n
  <2>1. QED BY <1>4, <1>5, CountingTo
<1>7. n \in G
  BY <1>4, <1>6
<1>8. QED BY <1>1, <1>3, <1>7

\* What a packet does to some of the keys depends on those keys alone.
LEMMA KeysAgree ==
  ASSUME NEW A \in SUBSET Button, NEW B \in SUBSET Button, NEW R,
         A \cap R = B \cap R, NEW packet \in Seq(Event)
  PROVE  KeysAfter(A, packet) \cap R = KeysAfter(B, packet) \cap R
<1> DEFINE n == Len(packet)
<1>1. PICK K \in [0 .. n -> SUBSET Button] :
        /\ K[0] = A
        /\ \A i \in 1 .. n : K[i] = KeysAfterEvent(K[i - 1], packet[i])
        /\ K[n] = KeysAfter(A, packet)
  BY KeySteps
<1>2. PICK L \in [0 .. n -> SUBSET Button] :
        /\ L[0] = B
        /\ \A i \in 1 .. n : L[i] = KeysAfterEvent(L[i - 1], packet[i])
        /\ L[n] = KeysAfter(B, packet)
  BY KeySteps
<1> DEFINE G == {i \in 0 .. n : K[i] \cap R = L[i] \cap R}
<1>3. n \in Nat /\ G \in SUBSET (0 .. n) /\ 0 \in G
  BY <1>1, <1>2
<1>4. ASSUME NEW i \in G, i < n
      PROVE  i + 1 \in G
  <2>1. i + 1 \in 1 .. n /\ (i + 1) - 1 = i /\ i + 1 \in 0 .. n /\ K[i] \cap R = L[i] \cap R
    BY <1>4
  <2>2. K[i + 1] = KeysAfterEvent(K[i], packet[i + 1])
    BY <1>1, <2>1
  <2>3. L[i + 1] = KeysAfterEvent(L[i], packet[i + 1])
    BY <1>2, <2>1
  <2>4. KeysAfterEvent(K[i], packet[i + 1]) \cap R = KeysAfterEvent(L[i], packet[i + 1]) \cap R
    BY <2>1 DEF KeysAfterEvent
  <2>5. QED BY <2>1, <2>2, <2>3, <2>4
<1>5. G = 0 .. n
  <2> HIDE DEF G, n
  <2>1. QED BY <1>3, <1>4, CountingTo
<1>6. n \in G
  BY <1>3, <1>5
<1>7. QED BY <1>1, <1>2, <1>6

\* Without key events no key changes.
LEMMA KeylessKeys ==
  ASSUME NEW keys \in SUBSET Button, NEW packet \in Seq(KeylessEvent)
  PROVE  KeysAfter(keys, packet) = keys
<1> DEFINE n == Len(packet)
<1>1. packet \in Seq(Event)
  BY SeqMonotonic DEF KeylessEvent
<1>2. PICK K \in [0 .. n -> SUBSET Button] :
        /\ K[0] = keys
        /\ \A i \in 1 .. n : K[i] = KeysAfterEvent(K[i - 1], packet[i])
        /\ K[n] = KeysAfter(keys, packet)
  BY <1>1, KeySteps
<1> DEFINE G == {i \in 0 .. n : K[i] = keys}
<1>3. n \in Nat /\ G \in SUBSET (0 .. n) /\ 0 \in G
  BY <1>2
<1>4. ASSUME NEW i \in G, i < n
      PROVE  i + 1 \in G
  <2>1. i + 1 \in 1 .. n /\ (i + 1) - 1 = i /\ i + 1 \in 0 .. n /\ K[i] = keys
    BY <1>4
  <2>2. K[i + 1] = KeysAfterEvent(K[i], packet[i + 1])
    BY <1>2, <2>1
  <2>3. packet[i + 1].type # "EV_KEY"
    BY <2>1 DEF KeylessEvent
  <2>4. QED BY <2>1, <2>2, <2>3 DEF KeysAfterEvent
<1>5. G = 0 .. n
  <2> HIDE DEF G, n
  <2>1. QED BY <1>3, <1>4, CountingTo
<1>6. n \in G
  BY <1>3, <1>5
<1>7. QED BY <1>2, <1>6

\* Taking the key events out of the queue leaves no more packets than before.
LEMMA QueueWithoutKeysShorter ==
  ASSUME NEW packets \in Seq(Seq(Event))
  PROVE  /\ QueueWithoutKeys(packets) \in Seq(Seq(KeylessEvent))
         /\ Len(QueueWithoutKeys(packets)) <= Len(packets)
<1> DEFINE n == Len(packets)
<1>1. PICK Q \in [0 .. n -> Seq(Seq(KeylessEvent))] :
        /\ Q[0] = <<>>
        /\ \A i \in 1 .. n :
             Q[i] = PacketKept(Q[i - 1], packets[i])
        /\ Q[n] = QueueWithoutKeys(packets)
  BY QueueSteps
<1> DEFINE G == {i \in 0 .. n : Len(Q[i]) <= i}
<1>2. n \in Nat /\ G \in SUBSET (0 .. n) /\ 0 \in G
  BY <1>1
<1>3. ASSUME NEW i \in G, i < n
      PROVE  i + 1 \in G
  <2>1. /\ i + 1 \in 1 .. n /\ (i + 1) - 1 = i /\ i \in 0 .. n /\ i + 1 \in 0 .. n
        /\ Len(Q[i]) <= i
    BY <1>3
  <2>2. Q[i + 1] = Q[i] \/ Q[i + 1] = Append(Q[i], WithoutKeys(packets[i + 1]))
    BY <1>1, <2>1 DEF PacketKept
  <2>3. WithoutKeys(packets[i + 1]) \in Seq(KeylessEvent)
    BY <2>1, WithoutKeysType
  <2>4. Q[i] \in Seq(Seq(KeylessEvent))
    BY <2>1
  <2>5. Len(Append(Q[i], WithoutKeys(packets[i + 1]))) = Len(Q[i]) + 1
    BY <2>3, <2>4, AppendProperties
  <2>6. Len(Q[i]) \in Nat /\ i \in Nat
    BY <2>1, <2>4
  <2>7. Len(Q[i + 1]) <= i + 1
    BY <2>1, <2>2, <2>5, <2>6
  <2>8. QED BY <2>1, <2>7
<1>4. G = 0 .. n
  <2> HIDE DEF G, n
  <2>1. QED BY <1>2, <1>3, CountingTo
<1>5. n \in G /\ n \in 0 .. n
  BY <1>2, <1>4
<1>6. QED BY <1>1, <1>5

-----------------------------------------------------------------------------
(* What a packet does to the frame                                         *)

LEMMA ProcessEventFlags ==
  ASSUME NEW f \in Frame, NEW e \in Event
  PROVE  LET after == ProcessEvent(f, e)
         IN  /\ after.flags \subseteq f.flags \cup {"BUTTON", "SYN_DROPPED"}
             /\ "SYN_DROPPED" \in after.flags
                  <=> "SYN_DROPPED" \in f.flags \/ e.type = "SYN_DROPPED"
             /\ "BUTTON" \notin after.flags
                  => "BUTTON" \notin f.flags /\ after.buttons = f.buttons
<1>1. CASE e.type = "EV_KEY" /\ e.button \in Button /\ e.down \in BOOLEAN
  <2> DEFINE buttons == IF e.down THEN f.buttons \cup {e.button} ELSE f.buttons \ {e.button}
  <2>1. ProcessEvent(f, e) =
          [f EXCEPT !.buttons = buttons,
                    !.flags = IF buttons # f.buttons THEN f.flags \cup {"BUTTON"} ELSE f.flags]
    BY <1>1 DEF ProcessEvent, KeyEvent, Frame
  <2> HIDE DEF buttons
  <2>2. /\ ProcessEvent(f, e).buttons = buttons
        /\ ProcessEvent(f, e).flags =
             IF buttons # f.buttons THEN f.flags \cup {"BUTTON"} ELSE f.flags
    BY <2>1 DEF Frame
  <2>3. QED BY <1>1, <2>2
<1>2. CASE e.type \in {"REL_X", "REL_WHEEL", "REL_WHEEL_HI_RES"}
  <2>1. ProcessEvent(f, e).flags = f.flags /\ ProcessEvent(f, e).buttons = f.buttons
    BY <1>2 DEF ProcessEvent, Frame
  <2>2. QED BY <1>2, <2>1
<1>3. CASE e.type = "SYN_DROPPED"
  <2>1. /\ ProcessEvent(f, e).flags = f.flags \cup {"SYN_DROPPED"}
        /\ ProcessEvent(f, e).buttons = f.buttons
    BY <1>3 DEF ProcessEvent, Frame
  <2>2. QED BY <1>3, <2>1
<1>4. QED BY <1>1, <1>2, <1>3, EventKinds

LEMMA ProcessEventSums ==
  ASSUME NEW f \in Frame, NEW e \in Event
  PROVE  LET after == ProcessEvent(f, e)
         IN  /\ after.dx = IF e.type = "REL_X" THEN f.dx + e.value ELSE f.dx
             /\ after.hires <=> f.hires \/ e.type = "REL_WHEEL_HI_RES"
             /\ e.type = "REL_WHEEL_HI_RES" =>
                  after.wheel = (IF f.hires THEN f.wheel ELSE 0) + e.value
             /\ e.type = "REL_WHEEL" =>
                  after.wheel = IF f.hires THEN f.wheel ELSE f.wheel + e.value
             /\ e.type \notin {"REL_WHEEL", "REL_WHEEL_HI_RES"} => after.wheel = f.wheel
<1>1. CASE e.type = "EV_KEY"
  BY <1>1 DEF ProcessEvent, KeyEvent, Frame
<1>2. CASE e.type = "REL_X"
  BY <1>2 DEF ProcessEvent, Frame
<1>3. CASE e.type = "REL_WHEEL"
  BY <1>3 DEF ProcessEvent, Frame
<1>4. CASE e.type = "REL_WHEEL_HI_RES"
  <2> DEFINE w == (IF f.hires THEN f.wheel ELSE 0) + e.value
  <2>1. ProcessEvent(f, e) = [f EXCEPT !.wheel = w, !.hires = TRUE]
    BY <1>4 DEF ProcessEvent, Frame
  <2> HIDE DEF w
  <2>2. /\ ProcessEvent(f, e).wheel = w /\ ProcessEvent(f, e).hires = TRUE
        /\ ProcessEvent(f, e).dx = f.dx
    BY <2>1 DEF Frame
  <2>3. QED BY <1>4, <2>2 DEF w
<1>5. CASE e.type = "SYN_DROPPED"
  BY <1>5 DEF ProcessEvent, Frame
<1>6. QED BY <1>1, <1>2, <1>3, <1>4, <1>5, EventKinds

Seen(packet, i, type) == \E j \in 1 .. i : packet[j].type = type

LEMMA SeenNext ==
  ASSUME NEW packet, NEW i \in Nat, NEW type
  PROVE  Seen(packet, i + 1, type) <=> Seen(packet, i, type) \/ packet[i + 1].type = type
<1>1. \A j : j \in 1 .. i + 1 <=> j \in 1 .. i \/ j = i + 1
  OBVIOUS
<1>2. QED BY <1>1 DEF Seen

\* The flags a packet leaves on the frame.
LEMMA FrameFlags ==
  ASSUME NEW f \in Frame, f.flags = {}, NEW packet \in Seq(Event)
  PROVE  LET full == FoldLeft(ProcessEvent, f, packet)
         IN  /\ full.flags \subseteq {"BUTTON", "SYN_DROPPED"}
             /\ "SYN_DROPPED" \in full.flags <=> HasType(packet, "SYN_DROPPED")
             /\ "BUTTON" \notin full.flags => full.buttons = f.buttons
<1> DEFINE n == Len(packet)
<1>1. PICK F \in [0 .. n -> Frame] :
        /\ F[0] = f
        /\ \A i \in 1 .. n : F[i] = ProcessEvent(F[i - 1], packet[i])
        /\ F[n] = FoldLeft(ProcessEvent, f, packet)
  BY FrameSteps
<1> DEFINE Good(i) == /\ F[i].flags \subseteq {"BUTTON", "SYN_DROPPED"}
                      /\ "SYN_DROPPED" \in F[i].flags <=> Seen(packet, i, "SYN_DROPPED")
                      /\ "BUTTON" \notin F[i].flags => F[i].buttons = f.buttons
           G == {i \in 0 .. n : Good(i)}
<1>2. n \in Nat /\ G \in SUBSET (0 .. n) /\ 0 \in G
  <2>1. ~Seen(packet, 0, "SYN_DROPPED")
    BY DEF Seen
  <2>2. n \in Nat /\ 0 \in 0 .. n
    OBVIOUS
  <2>3. Good(0)
    BY <1>1, <2>1
  <2>4. QED BY <2>2, <2>3
<1>3. ASSUME NEW i \in G, i < n
      PROVE  i + 1 \in G
  <2>1. i + 1 \in 1 .. n /\ (i + 1) - 1 = i /\ i \in 0 .. n /\ i \in Nat /\ i + 1 \in 0 .. n
    BY <1>3
  <2>2. Good(i)
    OBVIOUS
  <2>3. F[i] \in Frame /\ packet[i + 1] \in Event
    BY <2>1
  <2>4. F[i + 1] = ProcessEvent(F[i], packet[i + 1])
    BY <1>1, <2>1
  <2>5. Seen(packet, i + 1, "SYN_DROPPED")
          <=> Seen(packet, i, "SYN_DROPPED") \/ packet[i + 1].type = "SYN_DROPPED"
    BY <2>1, SeenNext
  <2>6. Good(i + 1)
    BY <2>2, <2>3, <2>4, <2>5, ProcessEventFlags
  <2>7. QED BY <2>1, <2>6
<1>4. G = 0 .. n
  <2> HIDE DEF G, n
  <2>1. QED BY <1>2, <1>3, CountingTo
<1>5. Good(n)
  <2>1. n \in G
    BY <1>2, <1>4
  <2>2. QED BY <2>1
<1>6. Seen(packet, n, "SYN_DROPPED") <=> HasType(packet, "SYN_DROPPED")
  BY DEF Seen, HasType
<1>7. QED BY <1>1, <1>5, <1>6

\* The keys after a part of the packet are those the whole packet goes through there.
LEMMA KeysAlong ==
  ASSUME NEW keys \in SUBSET Button, NEW packet \in Seq(Event),
         NEW K \in [0 .. Len(packet) -> SUBSET Button], K[0] = keys,
         \A i \in 1 .. Len(packet) : K[i] = KeysAfterEvent(K[i - 1], packet[i]),
         NEW m \in 0 .. Len(packet)
  PROVE  KeysAfter(keys, SubSeq(packet, 1, m)) = K[m]
<1> DEFINE part == SubSeq(packet, 1, m)
<1>1. m \in Nat /\ m <= Len(packet)
  OBVIOUS
<1>2. part \in Seq(Event) /\ Len(part) = m /\ \A i \in 1 .. m : part[i] = packet[i]
  <2>1. \A i \in 1 .. m : packet[i] \in Event
    BY <1>1
  <2>2. QED BY <1>1, <2>1
<1> HIDE DEF part
<1>3. PICK L \in [0 .. m -> SUBSET Button] :
        /\ L[0] = keys
        /\ \A i \in 1 .. m : L[i] = KeysAfterEvent(L[i - 1], part[i])
        /\ L[m] = KeysAfter(keys, part)
  BY <1>2, KeySteps
<1> DEFINE G == {i \in 0 .. m : L[i] = K[i]}
<1>4. G \in SUBSET (0 .. m) /\ 0 \in G
  BY <1>1, <1>3
<1>5. ASSUME NEW i \in G, i < m
      PROVE  i + 1 \in G
  <2>1. /\ i + 1 \in 1 .. m /\ (i + 1) - 1 = i /\ i + 1 \in 0 .. m /\ L[i] = K[i]
        /\ i + 1 \in 1 .. Len(packet)
    BY <1>1, <1>5
  <2>2. L[i + 1] = KeysAfterEvent(L[i], part[i + 1])
    BY <1>3, <2>1
  <2>3. K[i + 1] = KeysAfterEvent(K[i], packet[i + 1])
    BY <2>1
  <2>4. part[i + 1] = packet[i + 1]
    BY <1>2, <2>1
  <2>5. L[i + 1] = K[i + 1]
    BY <2>1, <2>2, <2>3, <2>4
  <2>6. QED BY <2>1, <2>5
<1>6. G = 0 .. m
  <2> HIDE DEF G
  <2>1. QED BY <1>1, <1>4, <1>5, CountingTo
<1>7. m \in G
  BY <1>1, <1>6
<1>8. L[m] = K[m]
  BY <1>7
<1>9. QED BY <1>3, <1>8 DEF part

\* Some of the first i events of the packet changes the keys K goes through.
ChangedBy(K, i) == \E j \in 1 .. i : K[j] # K[j - 1]

LEMMA ChangedNext ==
  ASSUME NEW K, NEW i \in Nat
  PROVE  ChangedBy(K, i + 1) <=> ChangedBy(K, i) \/ K[i + 1] # K[i]
<1>1. \A j : j \in 1 .. i + 1 <=> j \in 1 .. i \/ j = i + 1
  OBVIOUS
<1>2. (i + 1) - 1 = i
  OBVIOUS
<1>3. QED BY <1>1, <1>2 DEF ChangedBy

\* A key event flags the frame exactly when it changes the bitmap.
LEMMA ProcessEventButton ==
  ASSUME NEW f \in Frame, NEW e \in Event
  PROVE  "BUTTON" \in ProcessEvent(f, e).flags
           <=> "BUTTON" \in f.flags \/ ProcessEvent(f, e).buttons # f.buttons
<1>1. CASE e.type = "EV_KEY" /\ e.button \in Button /\ e.down \in BOOLEAN
  <2> DEFINE buttons == IF e.down THEN f.buttons \cup {e.button} ELSE f.buttons \ {e.button}
  <2>1. ProcessEvent(f, e) =
          [f EXCEPT !.buttons = buttons,
                    !.flags = IF buttons # f.buttons THEN f.flags \cup {"BUTTON"} ELSE f.flags]
    BY <1>1 DEF ProcessEvent, KeyEvent, Frame
  <2> HIDE DEF buttons
  <2>2. /\ ProcessEvent(f, e).buttons = buttons
        /\ ProcessEvent(f, e).flags =
             IF buttons # f.buttons THEN f.flags \cup {"BUTTON"} ELSE f.flags
    BY <2>1 DEF Frame
  <2>3. QED BY <2>2
<1>2. CASE e.type \in {"REL_X", "REL_WHEEL", "REL_WHEEL_HI_RES"}
  <2>1. ProcessEvent(f, e).flags = f.flags /\ ProcessEvent(f, e).buttons = f.buttons
    BY <1>2 DEF ProcessEvent, Frame
  <2>2. QED BY <2>1
<1>3. CASE e.type = "SYN_DROPPED"
  <2>1. /\ ProcessEvent(f, e).flags = f.flags \cup {"SYN_DROPPED"}
        /\ ProcessEvent(f, e).buttons = f.buttons
    BY <1>3 DEF ProcessEvent, Frame
  <2>2. QED BY <2>1
<1>4. QED BY <1>1, <1>2, <1>3, EventKinds

\* A packet leaves the BUTTON flag exactly when one of its events changed the bitmap.
LEMMA FrameButton ==
  ASSUME NEW f \in Frame, f.flags = {}, NEW packet \in Seq(Event)
  PROVE  "BUTTON" \in FoldLeft(ProcessEvent, f, packet).flags
           <=> ChangesKeys(f.buttons, packet)
<1> DEFINE n == Len(packet)
<1>1. PICK F \in [0 .. n -> Frame] :
        /\ F[0] = f
        /\ \A i \in 1 .. n : F[i] = ProcessEvent(F[i - 1], packet[i])
        /\ F[n] = FoldLeft(ProcessEvent, f, packet)
  BY FrameSteps
<1>2. f.buttons \in SUBSET Button /\ n \in Nat
  BY DEF Frame
<1>3. PICK K \in [0 .. n -> SUBSET Button] :
        /\ K[0] = f.buttons
        /\ \A i \in 1 .. n : K[i] = KeysAfterEvent(K[i - 1], packet[i])
  BY <1>2, KeySteps
<1> DEFINE Good(i) == /\ F[i].buttons = K[i]
                      /\ "BUTTON" \in F[i].flags <=> ChangedBy(K, i)
           G == {i \in 0 .. n : Good(i)}
<1>4. G \in SUBSET (0 .. n) /\ 0 \in G
  <2>1. ~ChangedBy(K, 0)
    BY DEF ChangedBy
  <2>2. Good(0)
    BY <1>1, <1>3, <2>1
  <2>3. QED BY <1>2, <2>2
<1>5. ASSUME NEW i \in G, i < n
      PROVE  i + 1 \in G
  <2>1. i + 1 \in 1 .. n /\ (i + 1) - 1 = i /\ i \in 0 .. n /\ i \in Nat /\ i + 1 \in 0 .. n
    BY <1>2, <1>5
  <2>2. Good(i)
    OBVIOUS
  <2>3. F[i] \in Frame /\ packet[i + 1] \in Event
    BY <2>1
  <2>4. F[i + 1] = ProcessEvent(F[i], packet[i + 1])
    BY <1>1, <2>1
  <2>5. K[i + 1] = KeysAfterEvent(K[i], packet[i + 1])
    BY <1>3, <2>1
  <2>6. F[i + 1].buttons = K[i + 1]
    BY <2>2, <2>3, <2>4, <2>5, ProcessEventKeys
  <2>7. "BUTTON" \in F[i + 1].flags <=> "BUTTON" \in F[i].flags \/ K[i + 1] # K[i]
    BY <2>2, <2>3, <2>4, <2>6, ProcessEventButton
  <2>8. ChangedBy(K, i + 1) <=> ChangedBy(K, i) \/ K[i + 1] # K[i]
    BY <2>1, ChangedNext
  <2>9. Good(i + 1)
    BY <2>2, <2>6, <2>7, <2>8
  <2>10. QED BY <2>1, <2>9
<1>6. G = 0 .. n
  <2> HIDE DEF G, n
  <2>1. QED BY <1>2, <1>4, <1>5, CountingTo
<1>7. Good(n)
  <2>1. n \in G
    BY <1>2, <1>6
  <2>2. QED BY <2>1
<1>8. ChangedBy(K, n) <=> ChangesKeys(f.buttons, packet)
  <2>1. ASSUME NEW j \in 1 .. n
        PROVE  LET before == KeysAfter(f.buttons, SubSeq(packet, 1, j - 1))
               IN  KeysAfterEvent(before, packet[j]) # before <=> K[j] # K[j - 1]
    <3>1. PICK m \in 0 .. n : m = j - 1
      BY <1>2
    <3>2. KeysAfter(f.buttons, SubSeq(packet, 1, m)) = K[m]
      BY <1>2, <1>3, KeysAlong
    <3>3. K[j] = KeysAfterEvent(K[j - 1], packet[j])
      BY <1>3
    <3>4. QED BY <3>1, <3>2, <3>3
  <2>2. QED BY <2>1 DEF ChangedBy, ChangesKeys
<1>9. QED BY <1>1, <1>7, <1>8

\* The motion and the wheel a packet adds up to.
LEMMA FrameSums ==
  ASSUME NEW f \in Frame, f.dx = 0, f.wheel = 0, f.hires = FALSE, NEW packet \in Seq(Event)
  PROVE  LET full == FoldLeft(ProcessEvent, f, packet)
             unit == IF HasType(packet, "REL_WHEEL_HI_RES") THEN "REL_WHEEL_HI_RES" ELSE "REL_WHEEL"
         IN  full.dx = ValuesOf(packet, "REL_X") /\ full.wheel = ValuesOf(packet, unit)
<1> DEFINE n == Len(packet)
           Sums(V, type) ==
             /\ V[0] = 0
             /\ \A i \in 1 .. n :
                  V[i] = Added(V[i - 1], packet[i], type)
             /\ V[n] = ValuesOf(packet, type)
<1>1. PICK F \in [0 .. n -> Frame] :
        /\ F[0] = f
        /\ \A i \in 1 .. n : F[i] = ProcessEvent(F[i - 1], packet[i])
        /\ F[n] = FoldLeft(ProcessEvent, f, packet)
  BY FrameSteps
<1>2. PICK X \in [0 .. n -> Int] : Sums(X, "REL_X")
  BY ValueSteps
<1>3. PICK W \in [0 .. n -> Int] : Sums(W, "REL_WHEEL")
  BY ValueSteps
<1>4. PICK H \in [0 .. n -> Int] : Sums(H, "REL_WHEEL_HI_RES")
  BY ValueSteps
<1> DEFINE Good(i) == /\ F[i].dx = X[i]
                      /\ F[i].hires <=> Seen(packet, i, "REL_WHEEL_HI_RES")
                      /\ ~F[i].hires => F[i].wheel = W[i] /\ H[i] = 0
                      /\ F[i].hires => F[i].wheel = H[i]
           G == {i \in 0 .. n : Good(i)}
<1>5. n \in Nat /\ G \in SUBSET (0 .. n) /\ 0 \in G
  <2>1. ~Seen(packet, 0, "REL_WHEEL_HI_RES")
    BY DEF Seen
  <2>2. n \in Nat /\ 0 \in 0 .. n
    OBVIOUS
  <2>3. Good(0)
    BY <1>1, <1>2, <1>3, <1>4, <2>1
  <2>4. QED BY <2>2, <2>3
<1>6. ASSUME NEW i \in G, i < n
      PROVE  i + 1 \in G
  <2>1. i + 1 \in 1 .. n /\ (i + 1) - 1 = i /\ i \in 0 .. n /\ i \in Nat /\ i + 1 \in 0 .. n
    BY <1>6
  <2>2. Good(i)
    OBVIOUS
  <2>3. PICK e \in Event : e = packet[i + 1]
    BY <2>1
  <2>4. F[i] \in Frame /\ F[i + 1] = ProcessEvent(F[i], e)
    BY <1>1, <2>1, <2>3
  <2>5. Seen(packet, i + 1, "REL_WHEEL_HI_RES")
          <=> Seen(packet, i, "REL_WHEEL_HI_RES") \/ e.type = "REL_WHEEL_HI_RES"
    BY <2>1, <2>3, SeenNext
  <2>6. X[i + 1] = IF e.type = "REL_X" THEN X[i] + e.value ELSE X[i]
    BY <1>2, <2>1, <2>3 DEF Added
  <2>7. W[i + 1] = IF e.type = "REL_WHEEL" THEN W[i] + e.value ELSE W[i]
    BY <1>3, <2>1, <2>3 DEF Added
  <2>8. H[i + 1] = IF e.type = "REL_WHEEL_HI_RES" THEN H[i] + e.value ELSE H[i]
    BY <1>4, <2>1, <2>3 DEF Added
  <2>9. /\ F[i + 1].dx = IF e.type = "REL_X" THEN F[i].dx + e.value ELSE F[i].dx
        /\ F[i + 1].hires <=> F[i].hires \/ e.type = "REL_WHEEL_HI_RES"
        /\ e.type = "REL_WHEEL_HI_RES" =>
             F[i + 1].wheel = (IF F[i].hires THEN F[i].wheel ELSE 0) + e.value
        /\ e.type = "REL_WHEEL" =>
             F[i + 1].wheel = IF F[i].hires THEN F[i].wheel ELSE F[i].wheel + e.value
        /\ e.type \notin {"REL_WHEEL", "REL_WHEEL_HI_RES"} => F[i + 1].wheel = F[i].wheel
    BY <2>4, ProcessEventSums
  <2>10. F[i + 1].dx = X[i + 1]
    BY <2>2, <2>6, <2>9
  <2>11. F[i + 1].hires <=> Seen(packet, i + 1, "REL_WHEEL_HI_RES")
    BY <2>2, <2>5, <2>9
  <2>12. ~F[i + 1].hires => F[i + 1].wheel = W[i + 1] /\ H[i + 1] = 0
    BY <2>2, <2>7, <2>8, <2>9
  <2>13. F[i + 1].hires => F[i + 1].wheel = H[i + 1]
    <3>1. CASE e.type = "REL_WHEEL_HI_RES"
      BY <2>2, <2>8, <2>9, <3>1
    <3>2. CASE e.type # "REL_WHEEL_HI_RES"
      BY <2>2, <2>8, <2>9, <3>2
    <3>3. QED BY <3>1, <3>2
  <2>14. QED BY <2>1, <2>10, <2>11, <2>12, <2>13
<1>7. G = 0 .. n
  <2> HIDE DEF G, n
  <2>1. QED BY <1>5, <1>6, CountingTo
<1>8. Good(n)
  <2>1. n \in G
    BY <1>5, <1>7
  <2>2. QED BY <2>1
<1>9. Seen(packet, n, "REL_WHEEL_HI_RES") <=> HasType(packet, "REL_WHEEL_HI_RES")
  BY DEF Seen, HasType
<1>10. QED
  <2>1. F[n].dx = ValuesOf(packet, "REL_X")
    BY <1>2, <1>8
  <2>2. HasType(packet, "REL_WHEEL_HI_RES") => F[n].wheel = ValuesOf(packet, "REL_WHEEL_HI_RES")
    BY <1>4, <1>8, <1>9
  <2>3. ~HasType(packet, "REL_WHEEL_HI_RES") => F[n].wheel = ValuesOf(packet, "REL_WHEEL")
    BY <1>3, <1>8, <1>9
  <2>4. QED BY <1>1, <2>1, <2>2, <2>3

-----------------------------------------------------------------------------
(* What the packets ahead do to the buttons                                *)

LEMMA KeysAfterType ==
  ASSUME NEW keys \in SUBSET Button, NEW packet \in Seq(Event)
  PROVE  KeysAfter(keys, packet) \in SUBSET Button
<1>1. Len(packet) \in 0 .. Len(packet)
  OBVIOUS
<1>2. QED BY <1>1, KeySteps

\* The sets of buttons the bridge will hold as pressed when it reads on from here,
\* and that they end with the keys that are down.
Leads(S, buttons, packets) ==
  /\ S \in [0 .. Len(packets) -> SUBSET Button]
  /\ S[0] = buttons
  /\ \A i \in 1 .. Len(packets) : S[i] = KeysAfter(S[i - 1], packets[i])

ButtonsAhead(buttons, packets, keys) ==
  \E S : Leads(S, buttons, packets) /\ S[Len(packets)] \cap Refreshed = keys \cap Refreshed

LEMMA AheadAppend ==
  ASSUME NEW buttons, NEW keys \in SUBSET Button, NEW packets \in Seq(Seq(Event)),
         NEW packet \in Seq(Event), ButtonsAhead(buttons, packets, keys)
  PROVE  ButtonsAhead(buttons, Append(packets, packet), KeysAfter(keys, packet))
<1>1. PICK S : Leads(S, buttons, packets) /\ S[Len(packets)] \cap Refreshed = keys \cap Refreshed
  BY DEF ButtonsAhead
<1> DEFINE n == Len(packets)
           T == [i \in 0 .. n + 1 |-> IF i = n + 1 THEN KeysAfter(S[n], packet) ELSE S[i]]
           longer == Append(packets, packet)
<1>2. /\ n \in Nat /\ Len(longer) = n + 1 /\ longer[n + 1] = packet
      /\ \A i \in 1 .. n : longer[i] = packets[i]
  BY AppendProperties
<1>3. S \in [0 .. n -> SUBSET Button] /\ S[n] \in SUBSET Button
  BY <1>1, <1>2 DEF Leads
<1>4. T \in [0 .. n + 1 -> SUBSET Button]
  <2>1. ASSUME NEW i \in 0 .. n + 1, i # n + 1
        PROVE  i \in 0 .. n
    BY <1>2, <2>1
  <2>2. KeysAfter(S[n], packet) \in SUBSET Button
    BY <1>3, KeysAfterType
  <2>3. QED BY <1>3, <2>1, <2>2
<1>5. T[0] = buttons
  BY <1>1, <1>2 DEF Leads
<1>6. ASSUME NEW i \in 1 .. n + 1
      PROVE  T[i] = KeysAfter(T[i - 1], longer[i])
  <2>1. i - 1 \in 0 .. n /\ i - 1 # n + 1 /\ T[i - 1] = S[i - 1]
    BY <1>2
  <2>2. CASE i = n + 1
    BY <1>2, <2>1, <2>2
  <2>3. CASE i # n + 1
    <3>1. i \in 1 .. n /\ T[i] = S[i]
      BY <1>2, <2>3
    <3>2. S[i] = KeysAfter(S[i - 1], packets[i])
      BY <1>1, <3>1 DEF Leads
    <3>3. QED BY <1>2, <2>1, <3>1, <3>2
  <2>4. QED BY <2>2, <2>3
<1>7. T[n + 1] \cap Refreshed = KeysAfter(keys, packet) \cap Refreshed
  <2>1. T[n + 1] = KeysAfter(S[n], packet)
    BY <1>2
  <2>2. KeysAfter(S[n], packet) \cap Refreshed = KeysAfter(keys, packet) \cap Refreshed
    BY <1>1, <1>3, KeysAgree
  <2>3. QED BY <2>1, <2>2
<1>8. QED
  <2> HIDE DEF T, longer
  <2>1. Leads(T, buttons, longer)
    BY <1>2, <1>4, <1>5, <1>6 DEF Leads
  <2>2. T[Len(longer)] \cap Refreshed = KeysAfter(keys, packet) \cap Refreshed
    BY <1>2, <1>7
  <2>3. QED BY <2>1, <2>2 DEF ButtonsAhead, longer

LEMMA AheadTail ==
  ASSUME NEW buttons, NEW keys, NEW packets \in Seq(Seq(Event)), packets # <<>>,
         ButtonsAhead(buttons, packets, keys)
  PROVE  ButtonsAhead(KeysAfter(buttons, Head(packets)), Tail(packets), keys)
<1>1. PICK S : Leads(S, buttons, packets) /\ S[Len(packets)] \cap Refreshed = keys \cap Refreshed
  BY DEF ButtonsAhead
<1> DEFINE n == Len(packets)
           T == [i \in 0 .. n - 1 |-> S[i + 1]]
           rest == Tail(packets)
<1>2. /\ n \in Nat \ {0} /\ Len(rest) = n - 1 /\ Head(packets) = packets[1]
      /\ \A i \in 1 .. n - 1 : rest[i] = packets[i + 1]
  BY HeadTailProperties, EmptySeq
<1>3. S \in [0 .. n -> SUBSET Button]
  BY <1>1 DEF Leads
<1>4. T \in [0 .. n - 1 -> SUBSET Button]
  <2>1. \A i \in 0 .. n - 1 : i + 1 \in 0 .. n
    BY <1>2
  <2>2. QED BY <1>3, <2>1
<1>5. T[0] = KeysAfter(buttons, Head(packets))
  <2>1. 0 \in 0 .. n - 1 /\ 1 \in 1 .. n
    BY <1>2
  <2>2. S[1] = KeysAfter(S[1 - 1], packets[1]) /\ S[0] = buttons
    BY <1>1, <2>1 DEF Leads
  <2>3. T[0] = S[1]
    BY <2>1
  <2>4. QED BY <1>2, <2>2, <2>3
<1>6. ASSUME NEW i \in 1 .. n - 1
      PROVE  T[i] = KeysAfter(T[i - 1], rest[i])
  <2>1. i \in 0 .. n - 1 /\ i - 1 \in 0 .. n - 1 /\ i + 1 \in 1 .. n
    BY <1>2
  <2>2. (i - 1) + 1 = i /\ (i + 1) - 1 = i
    BY <2>1
  <2>3. T[i] = S[i + 1] /\ T[i - 1] = S[i]
    BY <2>1, <2>2
  <2>4. S[i + 1] = KeysAfter(S[i], packets[i + 1])
    BY <1>1, <2>1, <2>2 DEF Leads
  <2>5. QED BY <1>2, <2>3, <2>4
<1>7. T[n - 1] \cap Refreshed = keys \cap Refreshed
  <2>1. n - 1 \in 0 .. n - 1 /\ (n - 1) + 1 = n
    BY <1>2
  <2>2. T[n - 1] = S[n]
    BY <2>1
  <2>3. QED BY <1>1, <2>2
<1>8. QED
  <2> DEFINE after == KeysAfter(buttons, Head(packets))
  <2> HIDE DEF T, rest, after
  <2>1. Leads(T, after, rest)
    BY <1>2, <1>4, <1>5, <1>6 DEF Leads, after
  <2>2. T[Len(rest)] \cap Refreshed = keys \cap Refreshed
    BY <1>2, <1>7
  <2>3. QED BY <2>1, <2>2 DEF ButtonsAhead, rest, after

LEMMA AheadKeyless ==
  ASSUME NEW buttons \in SUBSET Button, NEW keys, NEW packets \in Seq(Seq(KeylessEvent)),
         buttons \cap Refreshed = keys \cap Refreshed
  PROVE  ButtonsAhead(buttons, packets, keys)
<1> DEFINE n == Len(packets)
           T == [i \in 0 .. n |-> buttons]
<1>1. n \in Nat /\ n \in 0 .. n /\ T[0] = buttons /\ T[n] = buttons
  OBVIOUS
<1>2. T \in [0 .. n -> SUBSET Button]
  OBVIOUS
<1>3. ASSUME NEW i \in 1 .. n
      PROVE  T[i] = KeysAfter(T[i - 1], packets[i])
  <2>1. T[i] = buttons /\ T[i - 1] = buttons
    BY <1>1
  <2>2. packets[i] \in Seq(KeylessEvent)
    OBVIOUS
  <2>3. QED BY <2>1, <2>2, KeylessKeys
<1>4. Leads(T, buttons, packets)
  <2> HIDE DEF T
  <2>1. QED BY <1>1, <1>2, <1>3 DEF Leads
<1>5. QED
  <2> HIDE DEF T
  <2>1. QED BY <1>1, <1>4 DEF ButtonsAhead

LEMMA AheadEmpty ==
  ASSUME NEW buttons, NEW keys, ButtonsAhead(buttons, <<>>, keys)
  PROVE  buttons \cap Refreshed = keys \cap Refreshed
<1>1. Len(<<>>) = 0
  OBVIOUS
<1>2. QED BY <1>1 DEF ButtonsAhead, Leads

-----------------------------------------------------------------------------
(* The inductive invariant                                                 *)

\* The types, the record numbers the queue can still take, and an accumulator that
\* between two packets holds nothing but the buttons.
Types ==
  /\ plugged \in BOOLEAN /\ open \in BOOLEAN /\ doubtful \in BOOLEAN
  /\ pressed \in SUBSET Button
  /\ queue \in Seq(Seq(Event)) /\ Len(queue) <= KernelBuffer
  /\ sent \in 0 .. MaxPackets
  /\ phase \in {"barrier", "discarded", "running"}
  /\ generation \in 1 .. MaxGeneration
  /\ nextSequence \in Nat \ {0} /\ nextSequence - 1 + Len(queue) <= sent
  /\ frame.buttons \in SUBSET Button /\ frame = EmptyFrame(frame.buttons)

\* Nothing is published before the start; the newest record, if it is the newest frame,
\* has the buttons the accumulator went on with.
Numbered ==
  /\ record.sequence \in 0 .. nextSequence - 1
  /\ phase # "running" => record.sequence = 0
  /\ record.sequence # 0 /\ record.sequence = nextSequence - 1
       => record.buttons = frame.buttons

\* A closed device leaves the buttons in doubt; without doubt the bridge is in step with
\* the device but for what the queue still holds.
InStep ==
  /\ ~open => doubtful = TRUE /\ phase = "running"
  /\ phase = "running" /\ open /\ plugged /\ ~doubtful
       => ButtonsAhead(frame.buttons, queue, pressed)

EvdevInv == Types /\ Numbered /\ InStep

\* At the start.
LEMMA InitInv == Init => EvdevInv
<1>1. SUFFICES ASSUME Init
               PROVE  EvdevInv
  OBVIOUS
<1>2. frame.buttons = {} /\ record.sequence = 0
  BY <1>1 DEF Init, EmptyFrame, RecordOf
<1>3. queue \in Seq(Seq(Event)) /\ Len(queue) = 0
  BY <1>1, EmptySeq DEF Init
<1>4. Types
  <2>1. frame = EmptyFrame(frame.buttons) /\ frame.buttons \in SUBSET Button
    BY <1>1, <1>2 DEF Init
  <2>2. /\ KernelBuffer \in Nat /\ MaxPackets \in Nat
        /\ MaxGeneration \in Nat /\ MaxGeneration # 0
    BY EvdevAssumption
  <2>3. 1 \in 1 .. MaxGeneration /\ 0 \in 0 .. MaxPackets
    BY <2>2
  <2>4. /\ plugged = TRUE /\ open = TRUE /\ doubtful = FALSE /\ pressed \in SUBSET Button
        /\ sent = 0 /\ phase = "barrier" /\ generation = 1 /\ nextSequence = 1
    BY <1>1 DEF Init
  <2>5. nextSequence - 1 + Len(queue) <= sent /\ Len(queue) <= KernelBuffer
    BY <1>3, <2>2, <2>4
  <2>6. plugged \in BOOLEAN /\ open \in BOOLEAN /\ doubtful \in BOOLEAN
    BY <2>4
  <2>7. /\ sent \in 0 .. MaxPackets /\ generation \in 1 .. MaxGeneration
        /\ nextSequence \in Nat \ {0} /\ phase \in {"barrier", "discarded", "running"}
    BY <2>3, <2>4
  <2>8. QED BY <1>3, <2>1, <2>4, <2>5, <2>6, <2>7 DEF Types
<1>5. Numbered
  BY <1>1, <1>2 DEF Init, Numbered
<1>6. InStep
  BY <1>1 DEF Init, InStep
<1>7. QED BY <1>4, <1>5, <1>6 DEF EvdevInv

\* A packet is queued, unheard, or lost with what was queued before it.
LEMMA EmitInv == EvdevInv /\ Emit => EvdevInv'
<1>1. SUFFICES ASSUME EvdevInv, Emit
               PROVE  EvdevInv'
  OBVIOUS
<1>2. PICK packet \in SeqOf(InputEvent, MaxPacket) \ {<<>>} :
        /\ pressed' = KeysAfter(pressed, packet)
        /\ IF ~open THEN UNCHANGED <<queue, doubtful>>
           ELSE IF Len(queue) < KernelBuffer
             THEN queue' = Append(queue, packet) /\ UNCHANGED doubtful
             ELSE /\ \E kept \in 0 .. Len(packet) :
                       queue' = << <<SynDropped>>
                                     \o SubSeq(packet, Len(packet) - kept + 1, Len(packet)) >>
                  /\ doubtful' = TRUE
  BY <1>1 DEF Emit
<1>3. packet \in Seq(Event)
  <2>1. packet \in Seq(InputEvent)
    BY EvdevAssumption DEF SeqOf
  <2>2. InputEvent \subseteq Event
    BY DEF Event
  <2>3. QED BY <2>1, <2>2, SeqMonotonic
<1>4. /\ plugged /\ sent < MaxPackets /\ sent' = sent + 1
      /\ UNCHANGED <<plugged, phase, open, generation, nextSequence, frame, record>>
  BY <1>1 DEF Emit
<1>5. /\ pressed \in SUBSET Button /\ frame.buttons \in SUBSET Button
      /\ queue \in Seq(Seq(Event)) /\ Len(queue) \in Nat
  BY <1>1 DEF EvdevInv, Types
<1>6. pressed' \in SUBSET Button
  <2>1. KeysAfter(pressed, packet) \in SUBSET Button
    <3>1. PICK keys \in SUBSET Button : keys = pressed
      BY <1>5
    <3>2. QED BY <1>3, <3>1, KeysAfterType
  <2>2. QED BY <1>2, <2>1
<1>7. /\ queue' \in Seq(Seq(Event)) /\ Len(queue') <= KernelBuffer
      /\ Len(queue') <= Len(queue) + 1 /\ doubtful' \in BOOLEAN
      /\ doubtful = TRUE => doubtful' = TRUE
  <2>1. doubtful \in BOOLEAN /\ Len(queue) <= KernelBuffer
    BY <1>1 DEF EvdevInv, Types
  <2>2. CASE ~open
    BY <1>2, <1>5, <2>1, <2>2
  <2>3. CASE open /\ Len(queue) < KernelBuffer
    <3>1. queue' = Append(queue, packet) /\ doubtful' = doubtful
      BY <1>2, <2>3
    <3>2. Append(queue, packet) \in Seq(Seq(Event)) /\ Len(Append(queue, packet)) = Len(queue) + 1
      BY <1>3, <1>5, AppendProperties
    <3>3. QED BY <1>5, <2>1, <2>3, <3>1, <3>2, EvdevAssumption
  <2>4. CASE open /\ ~(Len(queue) < KernelBuffer)
    <3>1. doubtful' = TRUE
      BY <1>2, <2>4
    <3>2. PICK kept \in 0 .. Len(packet) :
            queue' = << <<SynDropped>> \o SubSeq(packet, Len(packet) - kept + 1, Len(packet)) >>
      BY <1>2, <2>4
    <3>3. SubSeq(packet, Len(packet) - kept + 1, Len(packet)) \in Seq(Event)
      <4>1. Len(packet) \in Nat /\ Len(packet) - kept + 1 \in Int
        BY <1>3
      <4>2. \A i \in Len(packet) - kept + 1 .. Len(packet) : packet[i] \in Event
        <5>1. TAKE i \in Len(packet) - kept + 1 .. Len(packet)
        <5>2. i \in 1 .. Len(packet)
          BY <4>1
        <5>3. QED BY <1>3, <5>2, ElementOfSeq
      <4>3. QED BY <4>1, <4>2, SubSeqProperties
    <3>4. <<SynDropped>> \in Seq(Event)
      BY DEF Event
    <3>5. PICK rest \in Seq(Event) : queue' = <<rest>>
      BY <3>2, <3>3, <3>4, ConcatProperties
    <3>6. <<rest>> \in Seq(Seq(Event)) /\ Len(<<rest>>) = 1
      OBVIOUS
    <3>7. QED BY <1>5, <3>1, <3>5, <3>6, EvdevAssumption
  <2>5. QED BY <2>2, <2>3, <2>4
<1>8. Types'
  <2>1. /\ sent \in 0 .. MaxPackets /\ nextSequence \in Nat \ {0}
        /\ nextSequence - 1 + Len(queue) <= sent
    BY <1>1 DEF EvdevInv, Types
  <2>2. Len(queue') \in Nat
    BY <1>7
  <2>3. sent' \in 0 .. MaxPackets
    BY <1>4, <2>1, EvdevAssumption
  <2>4. nextSequence - 1 + Len(queue') <= sent + 1
    BY <1>5, <1>7, <2>1, <2>2
  <2>5. QED BY <1>1, <1>4, <1>6, <1>7, <2>3, <2>4 DEF EvdevInv, Types
<1>9. Numbered'
  BY <1>1, <1>4 DEF EvdevInv, Numbered
<1>10. InStep'
  <2>1. ~open => doubtful' = TRUE /\ phase = "running"
    BY <1>1, <1>7 DEF EvdevInv, InStep
  <2>2. ASSUME phase = "running", open, plugged, ~doubtful'
        PROVE  ButtonsAhead(frame.buttons, queue', pressed')
    <3>1. queue' = Append(queue, packet) /\ doubtful' = doubtful
      BY <1>2, <2>2
    <3>2. ButtonsAhead(frame.buttons, queue, pressed)
      BY <1>1, <2>2, <3>1 DEF EvdevInv, InStep
    <3>3. PICK buttons, keys \in SUBSET Button, packets \in Seq(Seq(Event)) :
            buttons = frame.buttons /\ keys = pressed /\ packets = queue
      BY <1>5
    <3>4. ButtonsAhead(buttons, Append(packets, packet), KeysAfter(keys, packet))
      BY <1>3, <3>2, <3>3, AheadAppend
    <3>5. QED BY <1>2, <3>1, <3>3, <3>4
  <2>3. QED BY <1>4, <2>1, <2>2 DEF InStep
<1>11. QED BY <1>8, <1>9, <1>10 DEF EvdevInv

LEMMA FrameBetween ==
  ASSUME NEW b \in SUBSET Button
  PROVE  /\ EmptyFrame(b) \in Frame /\ EmptyFrame(b).buttons = b /\ EmptyFrame(b).flags = {}
         /\ EmptyFrame(b).dx = 0 /\ EmptyFrame(b).wheel = 0 /\ EmptyFrame(b).hires = FALSE
BY DEF EmptyFrame, Frame

LEMMA FrameButtonsSet ==
  ASSUME NEW old, NEW new
  PROVE  [EmptyFrame(old) EXCEPT !.buttons = new] = EmptyFrame(new)
<1> DEFINE zero == 0
           no == FALSE
           none == {}
<1> HIDE DEF zero, no, none
<1>1. [[dx |-> zero, wheel |-> zero, hires |-> no, buttons |-> old, flags |-> none]
         EXCEPT !.buttons = new]
        = [dx |-> zero, wheel |-> zero, hires |-> no, buttons |-> new, flags |-> none]
  OBVIOUS
<1>2. QED BY <1>1 DEF EmptyFrame, zero, no, none

LEMMA FrameTyped ==
  ASSUME Types
  PROVE  /\ frame \in Frame /\ frame.flags = {}
         /\ frame.dx = 0 /\ frame.wheel = 0 /\ frame.hires = FALSE
<1>1. PICK b \in SUBSET Button : frame = EmptyFrame(b)
  BY DEF Types
<1>2. QED BY <1>1, FrameBetween

\* The device goes and comes.
LEMMA PlugInv == EvdevInv /\ (Unplug \/ Plug) => EvdevInv'
<1>1. SUFFICES ASSUME EvdevInv, Unplug \/ Plug
               PROVE  EvdevInv'
  OBVIOUS
<1>2. Types'
  <2>1. Types /\ UNCHANGED <<sent, phase, open, generation, nextSequence, frame, doubtful>>
    BY <1>1 DEF EvdevInv, Unplug, Plug
  <2>2. /\ plugged' \in BOOLEAN /\ pressed' \in SUBSET Button
        /\ queue' \in Seq(Seq(Event)) /\ Len(queue') <= Len(queue)
    <3>1. CASE Unplug
      <4>1. plugged' = FALSE /\ pressed' = {} /\ queue' = <<>>
        BY <3>1 DEF Unplug
      <4>2. <<>> \in Seq(Seq(Event)) /\ Len(<<>>) = 0 /\ Len(queue) \in Nat
        BY <2>1, EmptySeq DEF Types
      <4>3. plugged' \in BOOLEAN /\ pressed' \in SUBSET Button
        BY <4>1
      <4>4. queue' \in Seq(Seq(Event)) /\ Len(queue') = 0
        BY <4>1, <4>2
      <4>5. QED BY <4>2, <4>3, <4>4
    <3>2. CASE Plug
      BY <2>1, <3>2 DEF Plug, Types
    <3>3. QED BY <1>1, <3>1, <3>2
  <2>3. /\ Len(queue) \in Nat /\ Len(queue') \in Nat /\ KernelBuffer \in Nat
        /\ Len(queue) <= KernelBuffer /\ sent \in Nat
        /\ nextSequence \in Nat /\ nextSequence - 1 + Len(queue) <= sent
    BY <2>1, <2>2, EvdevAssumption DEF Types
  <2>4. Len(queue') <= KernelBuffer /\ nextSequence - 1 + Len(queue') <= sent
    BY <2>2, <2>3
  <2>5. QED BY <2>1, <2>2, <2>4 DEF Types
<1>3. Numbered'
  BY <1>1 DEF EvdevInv, Numbered, Unplug, Plug
<1>4. InStep'
  <2>1. CASE Unplug
    BY <1>1, <2>1 DEF EvdevInv, InStep, Unplug
  <2>2. CASE Plug
    BY <1>1, <2>2 DEF EvdevInv, InStep, Plug
  <2>3. QED BY <1>1, <2>1, <2>2
<1>5. QED BY <1>2, <1>3, <1>4 DEF EvdevInv

\* The bridge notices (mark_device_gone, try_reconnect_device).
LEMMA DeviceInv == EvdevInv /\ (DeviceGone \/ ReconnectDevice) => EvdevInv'
<1>1. SUFFICES ASSUME EvdevInv, DeviceGone \/ ReconnectDevice
               PROVE  EvdevInv'
  OBVIOUS
<1>2. Types'
  <2>1. Types /\ UNCHANGED <<kernelVars, phase, nextSequence, frame>>
    BY <1>1 DEF EvdevInv, DeviceGone, ReconnectDevice
  <2>2. open' \in BOOLEAN /\ doubtful' \in BOOLEAN
    BY <1>1, <2>1 DEF DeviceGone, ReconnectDevice, Types
  <2>3. generation' \in 1 .. MaxGeneration
    <3>1. generation \in 1 .. MaxGeneration /\ MaxGeneration \in Nat
      BY <2>1, EvdevAssumption DEF Types
    <3>2. CASE DeviceGone
      BY <3>1, <3>2 DEF DeviceGone
    <3>3. CASE ReconnectDevice
      BY <3>1, <3>3 DEF ReconnectDevice
    <3>4. QED BY <1>1, <3>2, <3>3
  <2>4. QED BY <2>1, <2>2, <2>3 DEF Types, kernelVars
<1>3. Numbered'
  BY <1>1 DEF EvdevInv, Numbered, DeviceGone, ReconnectDevice
<1>4. InStep'
  <2>1. CASE DeviceGone
    BY <1>1, <2>1 DEF EvdevInv, InStep, DeviceGone
  <2>2. CASE ReconnectDevice
    BY <1>1, <2>2 DEF EvdevInv, InStep, ReconnectDevice
  <2>3. QED BY <1>1, <2>1, <2>2
<1>5. QED BY <1>2, <1>3, <1>4 DEF EvdevInv

\* discard_pending_input.
LEMMA DiscardInv == EvdevInv /\ DiscardPending => EvdevInv'
<1>1. SUFFICES ASSUME EvdevInv, DiscardPending
               PROVE  EvdevInv'
  OBVIOUS
<1>2. Types /\ Numbered /\ InStep
  BY <1>1 DEF EvdevInv
<1>3. /\ phase = "barrier" /\ queue' = <<>> /\ frame' = EmptyFrame({}) /\ phase' = "discarded"
      /\ UNCHANGED <<plugged, pressed, sent, open, generation, nextSequence, record, doubtful>>
  BY <1>1 DEF DiscardPending
<1>4. frame'.buttons = {}
  BY <1>3 DEF EmptyFrame
<1>5. Types'
  <2>1. <<>> \in Seq(Seq(Event)) /\ Len(<<>>) = 0
    BY EmptySeq
  <2>2. queue' \in Seq(Seq(Event)) /\ Len(queue') = 0
    BY <1>3, <2>1
  <2>3. /\ Len(queue) \in Nat /\ sent \in Nat /\ nextSequence \in Nat
        /\ nextSequence - 1 + Len(queue) <= sent /\ KernelBuffer \in Nat
    BY <1>2, EvdevAssumption DEF Types
  <2>4. nextSequence - 1 + Len(queue') <= sent /\ Len(queue') <= KernelBuffer
    BY <2>2, <2>3
  <2>5. frame' = EmptyFrame(frame'.buttons) /\ frame'.buttons \in SUBSET Button
    BY <1>3, <1>4
  <2>6. QED BY <1>2, <1>3, <2>2, <2>4, <2>5 DEF Types
<1>6. Numbered'
  BY <1>2, <1>3 DEF Numbered
<1>7. InStep'
  BY <1>2, <1>3 DEF InStep
<1>8. QED BY <1>5, <1>6, <1>7 DEF EvdevInv

\* refresh_button_state puts the bridge in step.
LEMMA RefreshInv == EvdevInv /\ RefreshButtons => EvdevInv'
<1>1. SUFFICES ASSUME EvdevInv, RefreshButtons
               PROVE  EvdevInv'
  OBVIOUS
<1>2. Types /\ Numbered /\ InStep
  BY <1>1 DEF EvdevInv
<1>3. /\ phase = "discarded" /\ frame' = [frame EXCEPT !.buttons = pressed \cap Refreshed]
      /\ queue' = QueueWithoutKeys(queue) /\ doubtful' = FALSE /\ phase' = "running"
      /\ UNCHANGED <<plugged, pressed, sent, open, generation, nextSequence, record>>
  BY <1>1 DEF RefreshButtons
<1>4. frame' = EmptyFrame(frame'.buttons) /\ frame'.buttons = pressed \cap Refreshed
  <2>1. frame = EmptyFrame(frame.buttons)
    BY <1>2 DEF Types
  <2>2. PICK old, new : old = frame.buttons /\ new = pressed \cap Refreshed
    OBVIOUS
  <2>3. [EmptyFrame(old) EXCEPT !.buttons = new] = EmptyFrame(new)
    BY FrameButtonsSet
  <2>4. frame' = EmptyFrame(new)
    BY <1>3, <2>1, <2>2, <2>3
  <2>5. EmptyFrame(new).buttons = new
    BY DEF EmptyFrame
  <2>6. QED BY <2>2, <2>4, <2>5
<1>5. queue' \in Seq(Seq(KeylessEvent)) /\ Len(queue') <= Len(queue)
  <2>1. PICK packets \in Seq(Seq(Event)) : packets = queue
    BY <1>2 DEF Types
  <2>2. QED BY <1>3, <2>1, QueueWithoutKeysShorter
<1>6. frame'.buttons \in SUBSET Button /\ pressed \in SUBSET Button
  BY <1>2, <1>4 DEF Types
<1>7. Types'
  <2>1. queue' \in Seq(Seq(Event))
    <3>1. KeylessEvent \subseteq Event
      BY DEF KeylessEvent
    <3>2. Seq(KeylessEvent) \subseteq Seq(Event)
      BY <3>1, SeqMonotonic
    <3>3. QED BY <1>5, <3>2, SeqMonotonic
  <2>2. /\ Len(queue) \in Nat /\ Len(queue') \in Nat /\ sent \in Nat /\ nextSequence \in Nat
        /\ nextSequence - 1 + Len(queue) <= sent
        /\ KernelBuffer \in Nat /\ Len(queue) <= KernelBuffer
    BY <1>2, <2>1, EvdevAssumption DEF Types
  <2>3. nextSequence - 1 + Len(queue') <= sent /\ Len(queue') <= KernelBuffer
    BY <1>5, <2>2
  <2>4. QED BY <1>2, <1>3, <1>4, <1>6, <2>1, <2>3 DEF Types
<1>8. Numbered'
  BY <1>2, <1>3 DEF Numbered
<1>9. InStep'
  <2>1. open = TRUE
    BY <1>2, <1>3 DEF InStep, Types
  <2>2. ButtonsAhead(frame'.buttons, queue', pressed)
    <3>1. PICK buttons \in SUBSET Button, packets \in Seq(Seq(KeylessEvent)), keys \in {pressed} :
            buttons = frame'.buttons /\ packets = queue' /\ keys = pressed
      BY <1>5, <1>6
    <3>2. buttons \cap Refreshed = keys \cap Refreshed
      BY <1>4, <3>1
    <3>3. ButtonsAhead(buttons, packets, keys)
      BY <3>2, AheadKeyless
    <3>4. QED BY <3>1, <3>3
  <2>3. QED BY <1>3, <2>1, <2>2 DEF InStep
<1>10. QED BY <1>7, <1>8, <1>9 DEF EvdevInv

\* Reading a packet, as far as the queue, the frame and the record's buttons go.
LEMMA PacketRead ==
  ASSUME Types, ReadPacket
  PROVE  /\ Head(queue) \in Seq(Event) /\ Tail(queue) \in Seq(Seq(Event))
         /\ queue # <<>> /\ Len(queue) \in Nat \ {0} /\ Len(Tail(queue)) = Len(queue) - 1
         /\ FoldLeft(ProcessEvent, frame, Head(queue)) \in Frame
         /\ FoldLeft(ProcessEvent, frame, Head(queue)).buttons
              = KeysAfter(frame.buttons, Head(queue))
<1>1. queue # <<>> /\ queue \in Seq(Seq(Event))
  BY DEF Types, ReadPacket
<1>2. /\ Head(queue) \in Seq(Event) /\ Tail(queue) \in Seq(Seq(Event))
      /\ Len(Tail(queue)) = Len(queue) - 1
  BY <1>1, HeadTailProperties
<1>3. Len(queue) \in Nat \ {0}
  BY <1>1, EmptySeq
<1>4. frame \in Frame
  BY FrameTyped
<1>5. PICK f \in Frame, packet \in Seq(Event) : f = frame /\ packet = Head(queue)
  BY <1>2, <1>4
<1>6. FoldLeft(ProcessEvent, f, packet) \in Frame
  <2>1. Len(packet) \in 0 .. Len(packet)
    OBVIOUS
  <2>2. PICK F \in [0 .. Len(packet) -> Frame] : F[Len(packet)] = FoldLeft(ProcessEvent, f, packet)
    BY FrameSteps
  <2>3. F[Len(packet)] \in Frame
    BY <2>1
  <2>4. QED BY <2>2, <2>3
<1>7. FoldLeft(ProcessEvent, f, packet).buttons = KeysAfter(f.buttons, packet)
  BY FrameKeys
<1>8. QED BY <1>1, <1>2, <1>3, <1>5, <1>6, <1>7

\* drain_input_device takes one step of the way.
LEMMA ReadInv == EvdevInv /\ ReadPacket => EvdevInv'
<1>1. SUFFICES ASSUME EvdevInv, ReadPacket
               PROVE  EvdevInv'
  OBVIOUS
<1>2. Types /\ Numbered /\ InStep
  BY <1>1 DEF EvdevInv
<1> DEFINE full == FoldLeft(ProcessEvent, frame, Head(queue))
<1>3. /\ phase = "running" /\ open /\ plugged
      /\ record' = RecordOf(full, nextSequence, generation) \/ record' = record
      /\ frame' = EmptyFrame(full.buttons)
      /\ queue' = Tail(queue) /\ nextSequence' = nextSequence + 1
      /\ UNCHANGED <<plugged, pressed, sent, phase, open, generation, doubtful>>
  BY <1>1 DEF ReadPacket, NextFrame
<1>4. /\ full \in Frame /\ full.buttons = KeysAfter(frame.buttons, Head(queue))
      /\ Tail(queue) \in Seq(Seq(Event)) /\ queue # <<>>
      /\ Len(queue) \in Nat \ {0} /\ Len(Tail(queue)) = Len(queue) - 1
  BY <1>1, <1>2, PacketRead
<1> HIDE DEF full
<1>5. full.buttons \in SUBSET Button
  BY <1>4 DEF Frame
<1>6. frame'.buttons = full.buttons
  BY <1>3, <1>5, FrameBetween
<1>7. Types'
  <2>1. /\ nextSequence \in Nat \ {0} /\ sent \in Nat /\ KernelBuffer \in Nat
        /\ nextSequence - 1 + Len(queue) <= sent /\ Len(queue) <= KernelBuffer
    BY <1>2, EvdevAssumption DEF Types
  <2>2. Len(queue') = Len(queue) - 1
    BY <1>3, <1>4
  <2>3. /\ nextSequence' \in Nat \ {0} /\ Len(queue') <= KernelBuffer
        /\ nextSequence' - 1 + Len(queue') <= sent
    BY <1>3, <1>4, <2>1, <2>2
  <2>4. frame' = EmptyFrame(frame'.buttons) /\ frame'.buttons \in SUBSET Button
    BY <1>3, <1>5, <1>6
  <2>5. QED BY <1>2, <1>3, <1>4, <2>3, <2>4 DEF Types
<1>8. Numbered'
  <2>1. nextSequence \in Nat \ {0} /\ record.sequence \in 0 .. nextSequence - 1
    BY <1>2 DEF Types, Numbered
  <2>2. CASE record' = record
    <3>1. record.sequence # nextSequence' - 1 /\ record.sequence \in 0 .. nextSequence' - 1
      BY <1>3, <2>1
    <3>2. QED BY <1>3, <2>2, <3>1 DEF Numbered
  <2>3. CASE record' = RecordOf(full, nextSequence, generation)
    <3>1. record'.sequence = nextSequence /\ record'.buttons = full.buttons
      BY <2>3 DEF RecordOf
    <3>2. nextSequence \in 0 .. nextSequence' - 1
      BY <1>3, <2>1
    <3>3. QED BY <1>3, <1>6, <3>1, <3>2 DEF Numbered
  <2>4. QED BY <1>3, <2>2, <2>3
<1>9. InStep'
  <2>1. ASSUME ~doubtful
        PROVE  ButtonsAhead(full.buttons, Tail(queue), pressed)
    <3>1. ButtonsAhead(frame.buttons, queue, pressed)
      BY <1>2, <1>3, <2>1 DEF InStep
    <3>2. PICK packets \in Seq(Seq(Event)), buttons \in {frame.buttons}, keys \in {pressed} :
            packets = queue
      BY <1>2 DEF Types
    <3>3. ButtonsAhead(KeysAfter(buttons, Head(packets)), Tail(packets), keys)
      BY <1>4, <3>1, <3>2, AheadTail
    <3>4. QED BY <1>4, <3>2, <3>3
  <2>2. QED BY <1>2, <1>3, <1>6, <2>1 DEF InStep
<1>10. QED BY <1>7, <1>8, <1>9 DEF EvdevInv

LEMMA StutterInv == EvdevInv /\ UNCHANGED vars => EvdevInv'
<1>1. SUFFICES ASSUME EvdevInv, UNCHANGED vars
               PROVE  EvdevInv'
  OBVIOUS
<1>2. QED BY <1>1 DEF EvdevInv, Types, Numbered, InStep, vars

-----------------------------------------------------------------------------
(* Theorems                                                                *)

\* The bridge and the device keep EvdevInv: what drain_input_device, the start barrier
\* and a reconnect leave in the queue, in the accumulator and in the newest record.
THEOREM EvdevInvariant == Spec => []EvdevInv
<1>1. EvdevInv /\ [Next]_vars => EvdevInv'
  BY EmitInv, PlugInv, DiscardInv, RefreshInv, ReadInv, DeviceInv, StutterInv DEF Next
<1>2. QED BY InitInv, <1>1, PTL DEF Spec

\* Every variable keeps its type, the kernel's queue its length, and the accumulator is
\* empty but for the buttons after each complete_frame.
THEOREM EvdevTypeCorrect == Spec => []TypeOK
<1>1. EvdevInv => TypeOK
  <2>1. SUFFICES ASSUME EvdevInv
                 PROVE  TypeOK
    OBVIOUS
  <2>2. Types /\ Numbered
    BY <2>1 DEF EvdevInv
  <2>3. Len(queue) \in Nat /\ sent \in 0 .. MaxPackets /\ MaxPackets \in Nat
    BY <2>2, EvdevAssumption DEF Types
  <2>4. nextSequence \in 1 .. MaxPackets + 1
    BY <2>2, <2>3 DEF Types
  <2>5. frame \in Frame /\ frame = EmptyFrame(frame.buttons)
    BY <2>2, FrameTyped DEF Types
  <2>6. QED BY <2>2, <2>3, <2>4, <2>5 DEF Types, Numbered, TypeOK
<1>2. QED BY EvdevInvariant, <1>1, PTL

\* Once the queue is read, the bitmap of the buttons refresh_button_state asks for is the
\* state of the device, unless events were lost or the device was away.
THEOREM BridgeButtonsFollowDevice == Spec => []ButtonsFollowDevice
<1>1. EvdevInv => ButtonsFollowDevice
  <2>1. SUFFICES ASSUME EvdevInv, CaughtUp, ~doubtful
                 PROVE  frame.buttons \cap Refreshed = pressed \cap Refreshed
    BY DEF ButtonsFollowDevice
  <2>2. ButtonsAhead(frame.buttons, <<>>, pressed)
    BY <2>1 DEF EvdevInv, InStep, CaughtUp
  <2>3. PICK buttons, keys : buttons = frame.buttons /\ keys = pressed
    OBVIOUS
  <2>4. buttons \cap Refreshed = keys \cap Refreshed
    BY <2>2, <2>3, AheadEmpty
  <2>5. QED BY <2>3, <2>4
<1>2. QED BY EvdevInvariant, <1>1, PTL

\* Only ReadPacket publishes a record.
LEMMA OnlyReadPublishes == [Next]_vars /\ Published => ReadPacket
BY DEF Next, vars, Published, Emit, Unplug, Plug, DiscardPending, RefreshButtons,
       DeviceGone, ReconnectDevice

LEMMA RecordFields ==
  ASSUME NEW f, NEW sequence, NEW device
  PROVE  LET r == RecordOf(f, sequence, device)
         IN  /\ r.sequence = sequence /\ r.buttons = f.buttons
             /\ r.dx = Clamp(f.dx, DeltaLimit) /\ r.wheel = Clamp(f.wheel, WheelLimit)
             /\ r.flags = f.flags \cup {flag \in {"MOTION"} : r.dx # 0}
                                  \cup {flag \in {"WHEEL"} : r.wheel # 0}
BY DEF RecordOf

LEMMA RecordFlags ==
  ASSUME NEW f, NEW sequence, NEW device, f.flags \subseteq {"BUTTON", "SYN_DROPPED"}
  PROVE  LET r == RecordOf(f, sequence, device)
         IN  /\ "MOTION" \in r.flags <=> r.dx # 0
             /\ "WHEEL" \in r.flags <=> r.wheel # 0
             /\ "SYN_DROPPED" \in r.flags <=> "SYN_DROPPED" \in f.flags
             /\ "BUTTON" \in r.flags <=> "BUTTON" \in f.flags
<1> DEFINE r == RecordOf(f, sequence, device)
<1>1. r.flags = f.flags \cup {flag \in {"MOTION"} : r.dx # 0}
                         \cup {flag \in {"WHEEL"} : r.wheel # 0}
  BY RecordFields
<1> HIDE DEF r
<1>2. /\ "MOTION" \in r.flags <=> r.dx # 0
      /\ "WHEEL" \in r.flags <=> r.wheel # 0
      /\ "SYN_DROPPED" \in r.flags <=> "SYN_DROPPED" \in f.flags
      /\ "BUTTON" \in r.flags <=> "BUTTON" \in f.flags
  BY <1>1
<1>3. QED BY <1>2 DEF r

\* A record is the frame of its own packet: process_input_event sums it, chooses between
\* the two wheel resolutions, follows the keys and flags it exactly, and complete_frame
\* saturates.
THEOREM EveryFrameExact == Spec => FrameExact
<1>1. EvdevInv /\ [Next]_vars /\ Published =>
        LET packet == Head(queue)
            unit == IF HasType(packet, "REL_WHEEL_HI_RES") THEN "REL_WHEEL_HI_RES" ELSE "REL_WHEEL"
        IN  /\ record'.dx = Clamp(ValuesOf(packet, "REL_X"), DeltaLimit)
            /\ record'.wheel = Clamp(ValuesOf(packet, unit), WheelLimit)
            /\ record'.buttons = KeysAfter(frame.buttons, packet)
            /\ "MOTION" \in record'.flags <=> record'.dx # 0
            /\ "WHEEL" \in record'.flags <=> record'.wheel # 0
            /\ "BUTTON" \in record'.flags <=> ChangesKeys(frame.buttons, packet)
            /\ "SYN_DROPPED" \in record'.flags <=> HasType(packet, "SYN_DROPPED")
  <2>1. SUFFICES ASSUME EvdevInv, [Next]_vars, Published
        PROVE  LET packet == Head(queue)
                   unit == IF HasType(packet, "REL_WHEEL_HI_RES") THEN "REL_WHEEL_HI_RES"
                                                                  ELSE "REL_WHEEL"
               IN  /\ record'.dx = Clamp(ValuesOf(packet, "REL_X"), DeltaLimit)
                   /\ record'.wheel = Clamp(ValuesOf(packet, unit), WheelLimit)
                   /\ record'.buttons = KeysAfter(frame.buttons, packet)
                   /\ "MOTION" \in record'.flags <=> record'.dx # 0
                   /\ "WHEEL" \in record'.flags <=> record'.wheel # 0
                   /\ "BUTTON" \in record'.flags <=> ChangesKeys(frame.buttons, packet)
                   /\ "SYN_DROPPED" \in record'.flags <=> HasType(packet, "SYN_DROPPED")
    OBVIOUS
  <2>2. ReadPacket /\ Types
    BY <2>1, OnlyReadPublishes DEF EvdevInv
  <2>3. PICK f \in Frame, packet \in Seq(Event), sequence \in {nextSequence},
             device \in {generation} : f = frame /\ packet = Head(queue)
    BY <2>2, PacketRead, FrameTyped
  <2>4. f.flags = {} /\ f.dx = 0 /\ f.wheel = 0 /\ f.hires = FALSE
    BY <2>2, <2>3, FrameTyped
  <2> DEFINE full == FoldLeft(ProcessEvent, f, packet)
             unit == IF HasType(packet, "REL_WHEEL_HI_RES") THEN "REL_WHEEL_HI_RES" ELSE "REL_WHEEL"
  <2>5. record' = RecordOf(full, sequence, device)
    BY <2>1, <2>2, <2>3 DEF ReadPacket, Published
  <2>6. full.dx = ValuesOf(packet, "REL_X") /\ full.wheel = ValuesOf(packet, unit)
    BY <2>4, FrameSums
  <2>7. full.flags \subseteq {"BUTTON", "SYN_DROPPED"}
        /\ ("SYN_DROPPED" \in full.flags <=> HasType(packet, "SYN_DROPPED"))
    BY <2>4, FrameFlags
  <2>8. /\ full.buttons = KeysAfter(f.buttons, packet)
        /\ "BUTTON" \in full.flags <=> ChangesKeys(f.buttons, packet)
    BY <2>4, FrameKeys, FrameButton
  <2> HIDE DEF full, unit
  <2>9. /\ record'.dx = Clamp(ValuesOf(packet, "REL_X"), DeltaLimit)
        /\ record'.wheel = Clamp(ValuesOf(packet, unit), WheelLimit)
        /\ record'.buttons = KeysAfter(f.buttons, packet)
    BY <2>5, <2>6, <2>8, RecordFields
  <2>10. /\ "MOTION" \in record'.flags <=> record'.dx # 0
         /\ "WHEEL" \in record'.flags <=> record'.wheel # 0
         /\ "BUTTON" \in record'.flags <=> ChangesKeys(f.buttons, packet)
         /\ "SYN_DROPPED" \in record'.flags <=> HasType(packet, "SYN_DROPPED")
    BY <2>5, <2>7, <2>8, RecordFlags
  <2>11. QED BY <2>3, <2>9, <2>10 DEF unit
<1>2. QED BY EvdevInvariant, <1>1, PTL DEF Spec, FrameExact

\* A bitmap that differs from the previous record's has the BUTTON flag or a gap in the
\* sequence before it, across dropped records and reconnects.
THEOREM NoSilentButtonEdge == Spec => ButtonEdgesVisible
<1>1. EvdevInv /\ [Next]_vars
        /\ Published /\ record.sequence # 0 /\ record'.buttons # record.buttons =>
          "BUTTON" \in record'.flags \/ record'.sequence # record.sequence + 1
  <2>1. SUFFICES ASSUME EvdevInv, [Next]_vars, Published, record.sequence # 0,
                        "BUTTON" \notin record'.flags,
                        record'.sequence = record.sequence + 1
                 PROVE  record'.buttons = record.buttons
    OBVIOUS
  <2>2. ReadPacket /\ Types /\ Numbered
    BY <2>1, OnlyReadPublishes DEF EvdevInv
  <2>3. PICK f \in Frame, packet \in Seq(Event), sequence \in {nextSequence},
             device \in {generation} : f = frame /\ packet = Head(queue)
    BY <2>2, PacketRead, FrameTyped
  <2>4. f.flags = {}
    BY <2>2, <2>3, FrameTyped
  <2> DEFINE full == FoldLeft(ProcessEvent, f, packet)
  <2>5. record' = RecordOf(full, sequence, device)
    BY <2>1, <2>2, <2>3 DEF ReadPacket, Published
  <2>6. /\ full.flags \subseteq {"BUTTON", "SYN_DROPPED"}
        /\ "BUTTON" \notin full.flags => full.buttons = f.buttons
    BY <2>4, FrameFlags
  <2> HIDE DEF full
  <2>7. record'.buttons = f.buttons /\ record'.sequence = sequence
    BY <2>1, <2>5, <2>6, RecordFlags, RecordFields
  <2>8. record.sequence = nextSequence - 1
    <3>1. nextSequence \in Nat \ {0} /\ record.sequence \in 0 .. nextSequence - 1
      BY <2>2 DEF Types, Numbered
    <3>2. QED BY <2>1, <2>3, <2>7, <3>1
  <2>9. record.buttons = frame.buttons
    BY <2>1, <2>2, <2>8 DEF Numbered
  <2>10. QED BY <2>3, <2>7, <2>9
<1>2. QED BY EvdevInvariant, <1>1, PTL DEF Spec, ButtonEdgesVisible

=============================================================================
