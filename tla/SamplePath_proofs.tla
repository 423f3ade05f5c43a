-------------------------- MODULE SamplePath_proofs --------------------------
(***************************************************************************)
(* First the pending ring: it keeps its invariant, loses no sample         *)
(* unaccounted and implements the drop-oldest queue, for every capacity,   *)
(* batch size and number of samples.  Then a sample's way on: the history  *)
(* of a consumer is the newest part of what it drained since it last       *)
(* cleared, for every capacity of the ring and of the history, and         *)
(* whatever the interleaving of source and consumer, and a sample missing  *)
(* from what the consumer heard was reported to it as dropped.             *)
(***************************************************************************)
EXTENDS SamplePath, SequenceTheorems, TLAPS

-----------------------------------------------------------------------------
(* Index arithmetic.  An index and a length of at most Capacity add up to   *)
(* less than two turns, so % Capacity subtracts Capacity at most once.      *)

\* An index that has not reached the end of the arrays is its own remainder.
LEMMA ModFirstTurn == ASSUME NEW x \in Nat, x < Capacity
                      PROVE  x % Capacity = x
  BY CapacityAssumption

\* In its second turn the remainder is one Capacity less.
LEMMA ModSecondTurn == ASSUME NEW x \in Nat, Capacity <= x, x < 2 * Capacity
                       PROVE  x % Capacity = x - Capacity
  BY CapacityAssumption

Turns == 0..2 * Capacity - 1

\* Slot subtracts Capacity from an index in its second turn, and only then.
LEMMA SlotTurn ==
  \A x \in Turns : Slot(x) = IF x < Capacity THEN x ELSE x - Capacity
<1> SUFFICES ASSUME NEW x \in Turns
             PROVE  Slot(x) = IF x < Capacity THEN x ELSE x - Capacity
  OBVIOUS
<1>1. x \in Nat /\ x < 2 * Capacity /\ Capacity \in Nat
  BY CapacityAssumption DEF Turns
<1>2. CASE x < Capacity
  <2>1. x % Capacity = x
    BY <1>1, <1>2, ModFirstTurn
  <2>2. QED
    BY <1>2, <2>1 DEF Slot
<1>3. CASE ~(x < Capacity)
  <2>1. x % Capacity = x - Capacity
    BY <1>1, <1>3, ModSecondTurn
  <2>2. QED
    BY <1>3, <2>1 DEF Slot
<1>4. QED
  BY <1>2, <1>3

USE CapacityAssumption, BoundsAssumption

\* Advancing an index by two lengths one after the other is advancing it by their sum.
LEMMA SlotShift ==
  ASSUME NEW r \in Slots, NEW a \in 0..Capacity, NEW k \in 0..Capacity,
         a + k <= Capacity
  PROVE  /\ Slot(r + a) \in Slots
         /\ Slot(Slot(r + a) + k) = Slot(r + (a + k))
<1>1. r + a \in Turns /\ r + (a + k) \in Turns
  BY DEF Slots, Turns
<1>2. Slot(r + a) = IF r + a < Capacity THEN r + a ELSE r + a - Capacity
  BY <1>1, SlotTurn DEF Turns, Slots
<1>3. Slot(r + (a + k)) = IF r + (a + k) < Capacity THEN r + (a + k)
                          ELSE r + (a + k) - Capacity
  BY <1>1, SlotTurn DEF Turns, Slots
<1>4. Slot(r + a) \in Slots /\ Slot(r + a) + k \in Turns
  BY <1>2 DEF Slots, Turns
<1>5. Slot(Slot(r + a) + k) = IF Slot(r + a) + k < Capacity THEN Slot(r + a) + k
                              ELSE Slot(r + a) + k - Capacity
  BY <1>4, SlotTurn DEF Turns, Slots
<1>6. QED
  BY <1>2, <1>3, <1>4, <1>5 DEF Slots

\* The pending arrays, slice or two slices, are the pending slots in ring order.
LEMMA PendingBySlot ==
  ASSUME readIndex \in Slots, count \in 0..Capacity
  PROVE  PendingArrays = [k \in 1..count |-> ring[Slot(readIndex + (k - 1))]]
<1>1. ASSUME NEW k \in 1..count
      PROVE  Slot(readIndex + (k - 1)) = IF readIndex + k - 1 < Capacity
                                         THEN readIndex + k - 1
                                         ELSE readIndex + k - 1 - Capacity
  <2>1. readIndex + (k - 1) \in Turns
    BY DEF Slots, Turns
  <2>2. QED
    BY <2>1, SlotTurn DEF Slots
<1>2. CASE readIndex + count <= Capacity
  <2>1. ASSUME NEW k \in 1..count
        PROVE  ring[readIndex + k - 1] = ring[Slot(readIndex + (k - 1))]
    <3>1. readIndex + k - 1 < Capacity
      BY <1>2 DEF Slots
    <3>2. QED
      BY <1>1, <3>1
  <2>2. QED
    BY <1>2, <2>1 DEF PendingArrays
<1>3. CASE ~(readIndex + count <= Capacity)
  <2>1. ASSUME NEW k \in 1..count
        PROVE  (IF k <= Capacity - readIndex THEN ring[readIndex + k - 1]
                                             ELSE ring[k - 1 - (Capacity - readIndex)])
                 = ring[Slot(readIndex + (k - 1))]
    <3>1. CASE k <= Capacity - readIndex
      BY <1>1, <3>1 DEF Slots
    <3>2. CASE ~(k <= Capacity - readIndex)
      <4>1. ~(readIndex + k - 1 < Capacity)
            /\ k - 1 - (Capacity - readIndex) = readIndex + k - 1 - Capacity
        BY <3>2 DEF Slots
      <4>2. QED
        BY <1>1, <3>2, <4>1
    <3>3. QED
      BY <3>1, <3>2
  <2>2. QED
    BY <1>3, <2>1 DEF PendingArrays
<1>4. QED
  BY <1>2, <1>3

\* A shorter batch fills the n slots after the write index, in order, and leaves
\* the other slots of the turn untouched.
LEMMA WrittenSlots ==
  ASSUME TypeOK, NEW n \in 1..MaxBatch, n < Capacity
  PROVE  /\ \A j \in 0..n - 1 :
              Written(n)[Slot(writeIndex + j)] = produced + 1 + j
         /\ \A j \in n..Capacity - 1 :
              Written(n)[Slot(writeIndex + j)] = ring[Slot(writeIndex + j)]
<1> DEFINE first == Least(n, Capacity - writeIndex)
<1>0. /\ n \in 1..Capacity - 1 /\ writeIndex \in 0..Capacity - 1 /\ produced \in Nat
      /\ first = IF n <= Capacity - writeIndex THEN n ELSE Capacity - writeIndex
  BY DEF TypeOK, Slots, Least
<1>1. ASSUME NEW i \in Slots
      PROVE  Written(n)[i] =
               IF writeIndex <= i /\ i < writeIndex + first
               THEN produced + 1 + (i - writeIndex)
               ELSE IF i < n - first THEN produced + 1 + first + i ELSE ring[i]
  BY DEF Written
<1> HIDE DEF first
<1>2. ASSUME NEW j \in 0..Capacity - 1
      PROVE  /\ Slot(writeIndex + j) = IF writeIndex + j < Capacity
                                       THEN writeIndex + j
                                       ELSE writeIndex + j - Capacity
             /\ Slot(writeIndex + j) \in Slots
  <2>1. writeIndex + j \in Turns
    BY <1>0 DEF Turns
  <2>2. QED
    BY <1>0, <2>1, SlotTurn DEF Slots
<1>3. ASSUME NEW j \in 0..n - 1
      PROVE  Written(n)[Slot(writeIndex + j)] = produced + 1 + j
  <2>0. j \in 0..Capacity - 1
    BY <1>0
  <2>1. CASE writeIndex + j < Capacity
    <3>1. Slot(writeIndex + j) = writeIndex + j /\ Slot(writeIndex + j) \in Slots
      BY <1>2, <2>0, <2>1
    <3>2. j < first
      BY <1>0, <2>1
    <3>3. QED
      BY <1>0, <1>1, <3>1, <3>2
  <2>2. CASE ~(writeIndex + j < Capacity)
    <3> DEFINE i == writeIndex + j - Capacity
    <3>1. Slot(writeIndex + j) = i /\ i \in Slots
      BY <1>2, <2>0, <2>2
    <3>2. first = Capacity - writeIndex /\ i < writeIndex /\ i < n - first
      BY <1>0, <2>2
    <3>3. Written(n)[i] = produced + 1 + first + i
      BY <1>0, <1>1, <3>1, <3>2
    <3>4. QED
      BY <1>0, <3>1, <3>2, <3>3
  <2>3. QED
    BY <2>1, <2>2
<1>4. ASSUME NEW j \in n..Capacity - 1
      PROVE  Written(n)[Slot(writeIndex + j)] = ring[Slot(writeIndex + j)]
  <2> DEFINE i == Slot(writeIndex + j)
  <2>1. j \in 0..Capacity - 1
    BY <1>0
  <2>2. ~(writeIndex <= i /\ i < writeIndex + first)
    BY <1>0, <1>2, <2>1
  <2>3. ~(i < n - first)
    BY <1>0, <1>2, <2>1
  <2>4. QED
    BY <1>1, <1>2, <2>1, <2>2, <2>3
<1>5. QED
  BY <1>3, <1>4

-----------------------------------------------------------------------------
(* The inductive invariant.                                                 *)

\* An empty ring is well formed.
LEMMA InitRing == Init => RingInv
<1>1. 0 \in Turns /\ Slot(0) = 0
  BY SlotTurn DEF Turns, Slots
<1>2. QED
  BY <1>1 DEF Init, RingInv, TypeOK, IndicesAgree, SlotsInOrder, Accounting, Slots

\* A batch that replaces the whole ring.
LEMMA AppendFullRing ==
  ASSUME RingInv, NEW n \in 1..MaxBatch, AppendMany(n), AppendFull(n)
  PROVE  RingInv'
<1> USE DEF RingInv, AppendMany, AppendFull
<1>1. TypeOK'
  BY DEF TypeOK, Slots
<1>2. IndicesAgree'
  <2>1. 0 + Capacity \in Turns /\ Slot(0 + Capacity) = 0
    BY SlotTurn DEF Turns, Slots
  <2>2. QED
    BY <2>1 DEF IndicesAgree
<1>3. SlotsInOrder'
  <2> SUFFICES ASSUME NEW k \in 0..Capacity - 1
               PROVE  ring'[Slot(0 + k)] = produced' - Capacity + 1 + k
    BY DEF SlotsInOrder
  <2>1. Slot(0 + k) = k
    BY SlotTurn DEF Turns, Slots
  <2>2. ring'[k] = produced + (n - Capacity) + k + 1
    BY DEF Slots
  <2>3. produced + (n - Capacity) + k + 1 = produced' - Capacity + 1 + k
    BY DEF TypeOK
  <2>4. QED
    BY <2>1, <2>2, <2>3
<1>4. Accounting'
  BY DEF Accounting, TypeOK
<1>5. QED
  BY <1>1, <1>2, <1>3, <1>4

\* A shorter batch.  The samples that stay pending keep their slots, those beyond
\* them are the batch's, and the read index passes the samples dropped.
LEMMA AppendPartRing ==
  ASSUME RingInv, NEW n \in 1..MaxBatch, AppendMany(n), AppendPart(n)
  PROVE  RingInv'
<1> USE DEF RingInv
<1> DEFINE over == Overflow(n)
<1>1. /\ n \in 1..Capacity - 1
      /\ over \in 0..Capacity /\ over <= count /\ over <= n
      /\ count' = count - over + n /\ count' \in 0..Capacity
      /\ over > 0 => count' = Capacity
  BY DEF AppendPart, Overflow, Least, TypeOK
<1>2. /\ readIndex \in Slots /\ writeIndex \in Slots /\ count \in 0..Capacity
      /\ produced \in Nat /\ produced' = produced + n
      /\ readIndex' = Slot(readIndex + over)
      /\ writeIndex' = Slot(writeIndex + n)
      /\ ring' = Written(n)
      /\ dropped' = dropped + over
      /\ cumulativeDropped' = cumulativeDropped + over
      /\ UNCHANGED <<batch, consumed, reported>>
  BY DEF AppendPart, AppendMany, TypeOK
<1> HIDE DEF over
<1>3. readIndex' \in Slots
  BY <1>1, <1>2, SlotShift
<1>4. TypeOK'
  <2>1. writeIndex' \in Slots
    BY <1>1, <1>2, SlotShift
  <2>2. ring' \in [Slots -> Nat]
    BY <1>1, <1>2 DEF Written, TypeOK, Least, Slots
  <2>3. QED
    BY <1>1, <1>2, <1>3, <2>1, <2>2 DEF TypeOK
\* The free slots lead from the write index around to the read index, and the
\* samples kept from the new read index to the write index.
<1>5. Slot(writeIndex + (Capacity - count)) = readIndex
  <2>1. Slot(Slot(readIndex + count) + (Capacity - count)) = Slot(readIndex + Capacity)
    BY <1>2, SlotShift
  <2>2. Slot(readIndex + Capacity) = readIndex
    BY <1>2, SlotTurn DEF Turns, Slots
  <2>3. QED
    BY <2>1, <2>2 DEF IndicesAgree
<1>6. Slot(readIndex' + (count - over)) = writeIndex
  <2>1. Slot(Slot(readIndex + over) + (count - over)) = Slot(readIndex + count)
    BY <1>1, <1>2, SlotShift
  <2>2. QED
    BY <1>2, <2>1 DEF IndicesAgree
<1>7. IndicesAgree'
  <2>1. CASE over = 0
    <3>1. Slot(Slot(readIndex + count) + n) = Slot(readIndex + (count + n))
      BY <1>1, <1>2, <2>1, SlotShift
    <3>2. readIndex' = readIndex
      BY <1>2, <2>1, SlotTurn DEF Turns, Slots
    <3>3. QED
      BY <1>1, <1>2, <2>1, <3>1, <3>2 DEF IndicesAgree
  <2>2. CASE over > 0
    <3>1. Slot(readIndex' + count') = readIndex'
      BY <1>1, <1>3, <2>2, SlotTurn DEF Turns, Slots
    <3>2. (Capacity - count) + over = n
      BY <1>1, <1>2, <2>2
    <3>3. Slot(Slot(writeIndex + (Capacity - count)) + over)
            = Slot(writeIndex + ((Capacity - count) + over))
      BY <1>1, <1>2, <3>2, SlotShift
    <3>4. QED
      BY <1>2, <1>5, <3>1, <3>2, <3>3 DEF IndicesAgree
  <2>3. QED
    BY <1>1, <2>1, <2>2
<1>8. SlotsInOrder'
  <2> SUFFICES ASSUME NEW k \in 0..count' - 1
               PROVE  ring'[Slot(readIndex' + k)] = produced' - count' + 1 + k
    BY DEF SlotsInOrder
  <2>1. CASE k < count - over
    <3> DEFINE j == (Capacity - count) + (over + k)
    <3>1. j \in n..Capacity - 1 /\ over + k \in 0..count - 1
      BY <1>1, <1>2, <2>1
    <3>2. Slot(readIndex' + k) = Slot(readIndex + (over + k))
      BY <1>1, <1>2, <3>1, SlotShift
    <3>3. Slot(Slot(writeIndex + (Capacity - count)) + (over + k)) = Slot(writeIndex + j)
      BY <1>1, <1>2, <3>1, SlotShift
    <3>4. Slot(readIndex + (over + k)) = Slot(writeIndex + j)
      BY <1>5, <3>3
    <3>5. ring'[Slot(writeIndex + j)] = ring[Slot(writeIndex + j)]
      BY <1>1, <1>2, <3>1, WrittenSlots
    <3>6. ring[Slot(readIndex + (over + k))] = produced - count + 1 + (over + k)
      BY <3>1 DEF SlotsInOrder
    <3>7. QED
      BY <1>1, <1>2, <3>2, <3>4, <3>5, <3>6
  <2>2. CASE ~(k < count - over)
    <3> DEFINE j == k - (count - over)
    <3>1. j \in 0..n - 1 /\ (count - over) + j = k
      BY <1>1, <1>2, <2>2
    <3>2. Slot(Slot(readIndex' + (count - over)) + j) = Slot(readIndex' + k)
      BY <1>1, <1>2, <1>3, <3>1, SlotShift
    <3>3. ring'[Slot(writeIndex + j)] = produced + 1 + j
      BY <1>1, <1>2, <3>1, WrittenSlots
    <3>4. QED
      BY <1>1, <1>2, <1>6, <3>1, <3>2, <3>3
  <2>3. QED
    BY <2>1, <2>2
<1>9. Accounting'
  BY <1>1, <1>2 DEF Accounting, TypeOK
<1>10. QED
  BY <1>4, <1>7, <1>8, <1>9

\* Draining leaves an empty ring whose indices still agree.
LEMMA DrainRing == ASSUME RingInv, Drain PROVE RingInv'
<1> USE DEF RingInv, Drain
<1>1. readIndex \in Slots /\ writeIndex \in Slots /\ count \in 0..Capacity
  BY DEF TypeOK
<1>2. Slot(readIndex + 0) = readIndex /\ Slot(writeIndex + 0) = writeIndex
  BY <1>1, SlotTurn DEF Turns, Slots
<1>3. TypeOK'
  <2>1. \A k \in 1..count : Slot(readIndex + (k - 1)) \in Slots
    BY <1>1, SlotShift
  <2>2. PendingArrays \in [1..count -> Nat]
    BY <1>1, <2>1, PendingBySlot DEF TypeOK
  <2>3. batch' \in Seq(Nat)
    BY <1>1, <2>2
  <2>4. QED
    BY <2>3 DEF TypeOK
<1>4. IndicesAgree'
  BY <1>1, <1>2 DEF IndicesAgree
<1>5. SlotsInOrder'
  BY DEF SlotsInOrder
<1>6. Accounting'
  BY DEF Accounting, TypeOK
<1>7. QED
  BY <1>3, <1>4, <1>5, <1>6

\* Every step of the ring preserves the invariant.
LEMMA NextRing == RingInv /\ [Next]_pendingVars => RingInv'
<1> SUFFICES ASSUME RingInv, [Next]_pendingVars
             PROVE  RingInv'
  OBVIOUS
<1>1. ASSUME NEW n \in 1..MaxBatch, AppendMany(n)
      PROVE  RingInv'
  <2>1. AppendFull(n) \/ AppendPart(n)
    BY <1>1 DEF AppendMany
  <2>2. QED
    BY <1>1, <2>1, AppendFullRing, AppendPartRing
<1>2. CASE Drain
  BY <1>2, DrainRing
<1>3. CASE UNCHANGED pendingVars
  BY <1>3 DEF pendingVars, ringVars, historyVars, RingInv, TypeOK, IndicesAgree,
              SlotsInOrder, Accounting
<1>4. QED
  BY <1>1, <1>2, <1>3 DEF Next

-----------------------------------------------------------------------------
(* The drop-oldest queue.  The ring's pending arrays are its queue.         *)

\* Under the invariant the pending arrays are the newest samples, in order.
LEMMA PendingNewest == RingInv => HoldsNewest
<1> SUFFICES ASSUME RingInv
             PROVE  HoldsNewest
  OBVIOUS
<1>1. readIndex \in Slots /\ count \in 0..Capacity /\ produced \in Nat
  BY DEF RingInv, TypeOK
<1>2. \A k \in 1..count : ring[Slot(readIndex + (k - 1))] = produced - count + k
  <2> SUFFICES ASSUME NEW k \in 1..count
               PROVE  ring[Slot(readIndex + (k - 1))] = produced - count + k
    OBVIOUS
  <2>1. k - 1 \in 0..count - 1
    BY <1>1
  <2>2. ring[Slot(readIndex + (k - 1))] = produced - count + 1 + (k - 1)
    BY <2>1 DEF RingInv, SlotsInOrder
  <2>3. QED
    BY <1>1, <2>2
<1>3. QED
  BY <1>1, <1>2, PendingBySlot DEF HoldsNewest

\* Runs of consecutive samples join into one.
LEMMA RunsJoin ==
  ASSUME NEW b \in Nat, NEW c \in Nat, NEW n \in Nat
  PROVE  [k \in 1..c |-> b + k] \o [k \in 1..n |-> b + c + k] = [k \in 1..c + n |-> b + k]
<1> DEFINE s == [k \in 1..c |-> b + k]
           t == [k \in 1..n |-> b + c + k]
           u == [k \in 1..c + n |-> b + k]
<1>1. /\ s \in Seq(Nat) /\ Len(s) = c /\ \A k \in 1..c : s[k] = b + k
      /\ t \in Seq(Nat) /\ Len(t) = n /\ \A k \in 1..n : t[k] = b + c + k
      /\ u \in Seq(Nat) /\ Len(u) = c + n /\ \A k \in 1..c + n : u[k] = b + k
  OBVIOUS
<1> HIDE DEF s, t, u
<1>2. /\ s \o t \in Seq(Nat) /\ Len(s \o t) = c + n
      /\ \A k \in 1..c + n : (s \o t)[k] = IF k <= c THEN s[k] ELSE t[k - c]
  BY <1>1, ConcatProperties
<1>3. \A k \in 1..c + n : (s \o t)[k] = u[k]
  <2> SUFFICES ASSUME NEW k \in 1..c + n
               PROVE  (s \o t)[k] = u[k]
    OBVIOUS
  <2>1. CASE k <= c
    BY <1>1, <1>2, <2>1
  <2>2. CASE ~(k <= c)
    <3>1. k - c \in 1..n /\ b + c + (k - c) = b + k
      BY <2>2
    <3>2. (s \o t)[k] = t[k - c]
      BY <1>2, <2>2
    <3>3. QED
      BY <1>1, <3>1, <3>2
  <2>3. QED
    BY <2>1, <2>2
<1>4. s \o t = u
  BY <1>1, <1>2, <1>3, SeqEqual
<1>5. QED
  BY <1>4 DEF s, t, u

\* An append of the ring is a Put of the queue.
LEMMA AppendIsPut ==
  ASSUME RingInv, NEW n \in 1..MaxBatch, AppendMany(n)
  PROVE  Queue!Put(n)
<1> DEFINE m == IF count + n <= Capacity THEN count + n ELSE Capacity
<1>1. /\ count \in 0..Capacity /\ produced \in Nat /\ cumulativeDropped \in Nat
      /\ count <= produced /\ n \in Nat
  BY DEF RingInv, TypeOK, Accounting
<1>2. /\ produced' = produced + n /\ produced + n <= MaxSamples
      /\ count' = m /\ cumulativeDropped' = cumulativeDropped + (count + n - m)
      /\ UNCHANGED batch
  BY <1>1 DEF AppendMany, AppendFull, AppendPart, Overflow, Least
<1>3. PendingArrays = [k \in 1..count |-> (produced - count) + k]
  BY PendingNewest DEF HoldsNewest
<1>4. RingInv'
  BY NextRing DEF Next
<1>5. PendingArrays' = [k \in 1..m |-> (produced - count) + (count + n - m) + k]
  <2>1. HoldsNewest'
    BY <1>4, PendingNewest, PTL
  <2>2. PendingArrays' = [k \in 1..count' |-> produced' - count' + k]
    BY <2>1 DEF HoldsNewest
  <2>3. QED
    BY <1>1, <1>2, <2>2
<1>6. PendingArrays \o Queue!Fresh(n) = [k \in 1..count + n |-> (produced - count) + k]
  <2>1. Queue!Fresh(n) = [k \in 1..n |-> (produced - count) + count + k]
    BY <1>1 DEF Queue!Fresh
  <2>2. QED
    BY <1>1, <1>3, <2>1, RunsJoin
<1>7. Len(PendingArrays \o Queue!Fresh(n)) = count + n
  BY <1>1, <1>6
<1>8. CASE count + n <= Capacity
  <2>1. PendingArrays' = PendingArrays \o Queue!Fresh(n)
    BY <1>1, <1>5, <1>6, <1>8
  <2>2. QED
    BY <1>1, <1>2, <1>7, <1>8, <2>1 DEF Queue!Put, Queue!Newest, Queue!Excess
<1>9. CASE ~(count + n <= Capacity)
  <2>1. ASSUME NEW i \in 1..Capacity
        PROVE  (PendingArrays \o Queue!Fresh(n))[i + (count + n - Capacity)]
                 = (produced - count) + (count + n - Capacity) + i
    <3>1. i + (count + n - Capacity) \in 1..count + n
      BY <1>1, <1>9
    <3>2. QED
      BY <1>1, <1>6, <3>1
  <2>2. PendingArrays' = [i \in 1..Capacity |->
                            (PendingArrays \o Queue!Fresh(n))[i + (count + n - Capacity)]]
    BY <1>5, <1>9, <2>1
  <2>3. QED
    BY <1>1, <1>2, <1>7, <1>9, <2>2 DEF Queue!Put, Queue!Newest, Queue!Excess
<1>10. QED
  BY <1>8, <1>9

\* A drain of the ring is a Take of the queue.
LEMMA DrainIsTake == ASSUME RingInv, Drain PROVE Queue!Take
<1>1. RingInv'
  BY DrainRing
<1>2. HoldsNewest'
  BY <1>1, PendingNewest, PTL
<1>3. PendingArrays' = <<>>
  BY <1>2 DEF HoldsNewest, Drain
<1>4. QED
  BY <1>3 DEF Drain, Queue!Take

-----------------------------------------------------------------------------
(* Theorems.                                                                *)

\* The ring's indices, count and slots always describe the newest pending samples,
\* and no sample is unaccounted for.
THEOREM RingCorrect == Spec => []RingInv
<1>1. Init => RingInv
  BY InitRing
<1>2. RingInv /\ [Next]_pendingVars => RingInv'
  BY NextRing
<1>3. QED
  BY <1>1, <1>2, PTL DEF Spec

\* No drain hands out a sample twice, out of order, or older than one dropped.
THEOREM DrainsOrdered == Spec => DrainsInOrder
<1>1. RingInv /\ [Next]_pendingVars =>
        [batch' # batch => \A k \in DOMAIN batch' :
                              batch'[k] = consumed + cumulativeDropped + k]_pendingVars
  <2> SUFFICES ASSUME RingInv, Next, batch' # batch
               PROVE  \A k \in DOMAIN batch' :
                         batch'[k] = consumed + cumulativeDropped + k
    OBVIOUS
  <2>1. Drain
    BY DEF Next, AppendMany
  <2>2. batch' = [k \in 1..count |-> produced - count + k]
    BY <2>1, PendingNewest DEF Drain, HoldsNewest
  <2>3. produced - count = consumed + cumulativeDropped
    BY DEF RingInv, TypeOK, Accounting
  <2>4. QED
    BY <2>2, <2>3
<1>2. QED
  BY <1>1, RingCorrect, PTL DEF Spec, DrainsInOrder

\* The ring implements the drop-oldest queue: it loses the oldest samples only, only
\* when the pending ones exceed the capacity, and counts each.
THEOREM RingImplementsQueue == Spec => ImplementsQueue
<1>1. Init => Queue!Init
  <2> SUFFICES ASSUME Init
               PROVE  Queue!Init
    OBVIOUS
  <2>1. PendingArrays = [k \in 1..count |-> produced - count + k]
    BY InitRing, PendingNewest DEF HoldsNewest
  <2>2. PendingArrays = <<>>
    BY <2>1 DEF Init
  <2>3. QED
    BY <2>2 DEF Init, Queue!Init
<1>2. RingInv /\ [Next]_pendingVars => [Queue!Next]_Queue!queueVars
  <2> SUFFICES ASSUME RingInv, [Next]_pendingVars
               PROVE  [Queue!Next]_Queue!queueVars
    OBVIOUS
  <2>1. ASSUME NEW n \in 1..MaxBatch, AppendMany(n)
        PROVE  Queue!Next
    BY <2>1, AppendIsPut DEF Queue!Next
  <2>2. CASE Drain
    BY <2>2, DrainIsTake DEF Queue!Next
  <2>3. CASE UNCHANGED pendingVars
    BY <2>3 DEF pendingVars, ringVars, historyVars, PendingArrays, Queue!queueVars
  <2>4. QED
    BY <2>1, <2>2, <2>3 DEF Next
<1>3. QED
  BY <1>1, <1>2, RingCorrect, PTL DEF Spec, ImplementsQueue, Queue!Spec

-----------------------------------------------------------------------------
(* Index arithmetic, one turn below zero included: the read side subtracts *)
(* the count from the write index before it takes the remainder.           *)

\* Of an index one turn below zero, Python's % and TLA+'s take the slot that
\* many places before the end of the arrays.
LEMMA ModTurnBelow == ASSUME NEW C \in Nat \ {0}, NEW x \in Int, -C <= x, x < 0
                      PROVE  x % C = x + C
  OBVIOUS

\* The remainders of the first and of the second turn.
LEMMA ModTurnAbove == ASSUME NEW C \in Nat \ {0}, NEW x \in Nat, x < 2 * C
                      PROVE  x % C = IF x < C THEN x ELSE x - C
  OBVIOUS

HistoryTurns == -HistoryCapacity..2 * HistoryCapacity - 1

\* HistorySlot moves an index by one turn at most.
LEMMA HistorySlotTurn ==
  ASSUME NEW x \in HistoryTurns
  PROVE  HistorySlot(x) = IF x < 0 THEN x + HistoryCapacity
                          ELSE IF x < HistoryCapacity THEN x ELSE x - HistoryCapacity
<1>1. x \in Int /\ -HistoryCapacity <= x /\ x < 2 * HistoryCapacity
  BY HistoryCapacityAssumption DEF HistoryTurns
<1>2. CASE x < 0
  <2>1. x % HistoryCapacity = x + HistoryCapacity
    BY <1>1, <1>2, HistoryCapacityAssumption, ModTurnBelow
  <2>2. QED
    BY <1>2, <2>1 DEF HistorySlot
<1>3. CASE ~(x < 0)
  <2>1. x \in Nat
    BY <1>1, <1>3
  <2>2. x % HistoryCapacity = IF x < HistoryCapacity THEN x ELSE x - HistoryCapacity
    BY <1>1, <2>1, HistoryCapacityAssumption, ModTurnAbove
  <2>3. QED
    BY <1>3, <2>2 DEF HistorySlot
<1>4. QED
  BY <1>2, <1>3

USE HistoryCapacityAssumption

\* A shorter batch fills the slots from the write index on, in order, and leaves
\* the rest of the turn untouched.
LEMMA PlacedSlots ==
  ASSUME HistoryTypeOK, NEW samples \in Seq(Nat), Len(samples) < HistoryCapacity
  PROVE  /\ Placed(samples) \in [HistorySlots -> Nat]
         /\ \A j \in 0..Len(samples) - 1 :
              Placed(samples)[HistorySlot(historyWrite + j)] = samples[j + 1]
         /\ \A j \in Len(samples)..HistoryCapacity - 1 :
              Placed(samples)[HistorySlot(historyWrite + j)]
                = history[HistorySlot(historyWrite + j)]
<1> DEFINE n == Len(samples)
           first == IF n <= HistoryCapacity - historyWrite
                    THEN n ELSE HistoryCapacity - historyWrite
<1>0. /\ n \in 0..HistoryCapacity - 1 /\ historyWrite \in 0..HistoryCapacity - 1
      /\ first \in 0..n
      /\ first = IF n <= HistoryCapacity - historyWrite
                 THEN n ELSE HistoryCapacity - historyWrite
  BY DEF HistoryTypeOK, HistorySlots
<1>1. Placed(samples) =
        [i \in HistorySlots |->
          IF historyWrite <= i /\ i < historyWrite + first
          THEN samples[i - historyWrite + 1]
          ELSE IF i < n - first THEN samples[first + i + 1] ELSE history[i]]
  BY DEF Placed
<1>2. \A k \in 1..n : samples[k] \in Nat
  OBVIOUS
<1> HIDE DEF n, first
<1>3. ASSUME NEW i \in HistorySlots
      PROVE  /\ Placed(samples)[i] =
                  IF historyWrite <= i /\ i < historyWrite + first
                  THEN samples[i - historyWrite + 1]
                  ELSE IF i < n - first THEN samples[first + i + 1] ELSE history[i]
             /\ Placed(samples)[i] \in Nat
  <2>1. Placed(samples)[i] =
          IF historyWrite <= i /\ i < historyWrite + first
          THEN samples[i - historyWrite + 1]
          ELSE IF i < n - first THEN samples[first + i + 1] ELSE history[i]
    BY <1>1
  <2>2. i \in 0..HistoryCapacity - 1 /\ history[i] \in Nat
    BY DEF HistoryTypeOK, HistorySlots
  <2>3. CASE historyWrite <= i /\ i < historyWrite + first
    <3>1. i - historyWrite + 1 \in 1..n
      BY <1>0, <2>2, <2>3
    <3>2. QED
      BY <1>2, <2>1, <2>3, <3>1
  <2>4. CASE ~(historyWrite <= i /\ i < historyWrite + first) /\ i < n - first
    <3>1. first + i + 1 \in 1..n
      BY <1>0, <2>2, <2>4
    <3>2. QED
      BY <1>2, <2>1, <2>4, <3>1
  <2>5. QED
    BY <2>1, <2>2, <2>3, <2>4
<1>4. ASSUME NEW j \in 0..HistoryCapacity - 1
      PROVE  /\ HistorySlot(historyWrite + j) =
                  IF historyWrite + j < HistoryCapacity
                  THEN historyWrite + j ELSE historyWrite + j - HistoryCapacity
             /\ HistorySlot(historyWrite + j) \in HistorySlots
  <2>1. historyWrite + j \in HistoryTurns
    BY <1>0 DEF HistoryTurns
  <2>2. QED
    BY <1>0, <2>1, HistorySlotTurn DEF HistorySlots
<1>5. ASSUME NEW j \in 0..n - 1
      PROVE  Placed(samples)[HistorySlot(historyWrite + j)] = samples[j + 1]
  <2>0. j \in 0..HistoryCapacity - 1
    BY <1>0
  <2>1. CASE historyWrite + j < HistoryCapacity
    <3>1. /\ HistorySlot(historyWrite + j) = historyWrite + j
          /\ historyWrite + j \in HistorySlots
      BY <1>4, <2>0, <2>1
    <3>2. j < first /\ historyWrite + j - historyWrite + 1 = j + 1
      BY <1>0, <2>1
    <3>3. QED
      BY <1>0, <1>3, <3>1, <3>2
  <2>2. CASE ~(historyWrite + j < HistoryCapacity)
    <3> DEFINE i == historyWrite + j - HistoryCapacity
    <3>1. HistorySlot(historyWrite + j) = i /\ i \in HistorySlots
      BY <1>4, <2>0, <2>2
    <3>2. /\ first = HistoryCapacity - historyWrite
          /\ i < historyWrite /\ i < n - first /\ first + i + 1 = j + 1
      BY <1>0, <2>2
    <3>3. QED
      BY <1>0, <1>3, <3>1, <3>2
  <2>3. QED
    BY <2>1, <2>2
<1>6. ASSUME NEW j \in n..HistoryCapacity - 1
      PROVE  Placed(samples)[HistorySlot(historyWrite + j)]
               = history[HistorySlot(historyWrite + j)]
  <2> DEFINE i == HistorySlot(historyWrite + j)
  <2>1. j \in 0..HistoryCapacity - 1
    BY <1>0
  <2>i. i = IF historyWrite + j < HistoryCapacity
            THEN historyWrite + j ELSE historyWrite + j - HistoryCapacity
    BY <1>4, <2>1
  <2> HIDE DEF i
  <2>2. ~(historyWrite <= i /\ i < historyWrite + first) /\ ~(i < n - first)
    <3>1. CASE historyWrite + j < HistoryCapacity
      BY <1>0, <2>1, <2>i, <3>1
    <3>2. CASE ~(historyWrite + j < HistoryCapacity)
      BY <1>0, <2>1, <2>i, <3>2
    <3>3. QED
      BY <3>1, <3>2
  <2>3. QED
    BY <1>3, <1>4, <2>1, <2>2 DEF i
<1>7. Placed(samples) \in [HistorySlots -> Nat]
  BY <1>1, <1>3
<1>8. QED
  BY <1>5, <1>6, <1>7 DEF n

-----------------------------------------------------------------------------
(* The inductive invariant.                                                 *)

\* The k newest samples are those in the k slots before the write index: the
\* same slot counted from either end of the turn.
LEMMA SlotBehind ==
  ASSUME NEW w \in HistorySlots, NEW k \in 1..HistoryCapacity
  PROVE  HistorySlot(w - k) = HistorySlot(w + (HistoryCapacity - k))
<1> DEFINE x == w + (HistoryCapacity - k)
<1>1. /\ w - k \in HistoryTurns /\ x \in HistoryTurns
      /\ w \in 0..HistoryCapacity - 1 /\ x = w + (HistoryCapacity - k)
  BY DEF HistorySlots, HistoryTurns
<1> HIDE DEF x
<1>2. HistorySlot(w - k) = IF w - k < 0 THEN w - k + HistoryCapacity
                           ELSE IF w - k < HistoryCapacity THEN w - k
                           ELSE w - k - HistoryCapacity
  BY <1>1, HistorySlotTurn
<1>3. HistorySlot(x) = IF x < 0 THEN x + HistoryCapacity
                       ELSE IF x < HistoryCapacity THEN x ELSE x - HistoryCapacity
  BY <1>1, HistorySlotTurn
<1>4. HistorySlot(w - k) = HistorySlot(x)
  BY <1>1, <1>2, <1>3
<1>5. QED
  BY <1>4 DEF x

\* Behind a write index advanced by n, the k-th slot is the (n - k)-th ahead of
\* the old one, or the (k - n)-th behind it.
LEMMA SlotAdvanced ==
  ASSUME NEW w \in HistorySlots, NEW n \in 0..HistoryCapacity - 1,
         NEW k \in 1..HistoryCapacity
  PROVE  /\ HistorySlot(w + n) \in HistorySlots
         /\ k <= n => HistorySlot(HistorySlot(w + n) - k) = HistorySlot(w + (n - k))
         /\ n < k => HistorySlot(HistorySlot(w + n) - k) = HistorySlot(w - (k - n))
<1> DEFINE v == HistorySlot(w + n)
<1>1. /\ w \in 0..HistoryCapacity - 1 /\ w + n \in HistoryTurns
      /\ w + (n - k) \in HistoryTurns /\ w - (k - n) = w + (n - k)
  BY DEF HistorySlots, HistoryTurns
<1>2. v = IF w + n < HistoryCapacity THEN w + n ELSE w + n - HistoryCapacity
  BY <1>1, HistorySlotTurn
<1> HIDE DEF v
<1>3. v \in 0..HistoryCapacity - 1 /\ v - k \in HistoryTurns
  BY <1>1, <1>2 DEF HistoryTurns
<1>4. HistorySlot(v - k) = IF v - k < 0 THEN v - k + HistoryCapacity
                           ELSE IF v - k < HistoryCapacity THEN v - k
                           ELSE v - k - HistoryCapacity
  BY <1>3, HistorySlotTurn
<1>5. HistorySlot(w + (n - k)) =
        IF w + (n - k) < 0 THEN w + (n - k) + HistoryCapacity
        ELSE IF w + (n - k) < HistoryCapacity THEN w + (n - k)
        ELSE w + (n - k) - HistoryCapacity
  BY <1>1, HistorySlotTurn
<1>6. HistorySlot(v - k) = HistorySlot(w + (n - k))
  BY <1>1, <1>2, <1>3, <1>4, <1>5
<1>7. QED
  BY <1>1, <1>3, <1>6 DEF v, HistorySlots

\* The arrays start empty.
LEMMA InitHistory == HistoryInit => HistoryInv
<1> SUFFICES ASSUME HistoryInit PROVE HistoryInv
  OBVIOUS
<1>1. HistoryTypeOK
  BY DEF HistoryInit, HistoryTypeOK, HistorySlots
<1>2. HistorySlotsInOrder
  BY DEF HistoryInit, HistorySlotsInOrder
<1>3. QED
  BY <1>1, <1>2 DEF HistoryInv

\* Clearing forgets what was heard with the count.
LEMMA ClearHistory == ASSUME HistoryInv, HistoryClear PROVE HistoryInv'
<1>1. HistoryTypeOK'
  BY DEF HistoryInv, HistoryTypeOK, HistoryClear, HistorySlots
<1>2. HistorySlotsInOrder'
  BY DEF HistoryInv, HistorySlotsInOrder, HistoryClear
<1>3. QED
  BY <1>1, <1>2 DEF HistoryInv

\* A batch longer than the arrays leaves its own newest samples.
LEMMA KeepTailHistory ==
  ASSUME HistoryInv, NEW samples \in Seq(Nat), KeepTail(samples),
         heard' = heard \o samples
  PROVE  HistoryInv'
<1> DEFINE n == Len(samples)
<1>0. /\ n \in Nat /\ HistoryCapacity <= n /\ Len(heard) \in Nat
      /\ \A k \in 1..n : samples[k] \in Nat
      /\ historyCount' = HistoryCapacity /\ historyWrite' = 0
      /\ history' = [i \in HistorySlots |-> samples[n - HistoryCapacity + i + 1]]
  BY DEF HistoryInv, HistoryTypeOK, KeepTail
<1>1. /\ heard' \in Seq(Nat) /\ Len(heard') = Len(heard) + n
      /\ \A k \in 1..n : heard'[Len(heard) + k] = samples[k]
  BY ConcatProperties DEF HistoryInv, HistoryTypeOK
<1> HIDE DEF n
<1>2. ASSUME NEW i \in HistorySlots
      PROVE  n - HistoryCapacity + i + 1 \in 1..n
  BY <1>0 DEF HistorySlots
<1>3. HistoryTypeOK'
  BY <1>0, <1>1, <1>2 DEF HistoryTypeOK, HistorySlots
<1>4. ASSUME NEW k \in 1..HistoryCapacity
      PROVE  history'[HistorySlot(0 - k)] = heard'[Len(heard') + 1 - k]
  <2>1. 0 - k \in HistoryTurns
    BY DEF HistoryTurns
  <2>2. HistorySlot(0 - k) = HistoryCapacity - k /\ HistoryCapacity - k \in HistorySlots
    BY <2>1, HistorySlotTurn DEF HistorySlots
  <2>3. history'[HistoryCapacity - k] = samples[n + 1 - k]
    <3>1. n - HistoryCapacity + (HistoryCapacity - k) + 1 = n + 1 - k
      BY <1>0
    <3>2. QED
      BY <1>0, <2>2, <3>1
  <2>4. n + 1 - k \in 1..n /\ Len(heard') + 1 - k = Len(heard) + (n + 1 - k)
    BY <1>0, <1>1
  <2>5. QED
    BY <1>1, <2>2, <2>3, <2>4
<1>5. HistorySlotsInOrder'
  <2>1. historyCount' = IF Len(heard') <= HistoryCapacity THEN Len(heard')
                        ELSE HistoryCapacity
    BY <1>0, <1>1
  <2>2. QED
    BY <1>0, <1>4, <2>1 DEF HistorySlotsInOrder
<1>6. QED
  BY <1>3, <1>5 DEF HistoryInv

\* A shorter batch pushes out the oldest samples, and only those.
LEMMA PlaceHistory ==
  ASSUME HistoryInv, NEW samples \in Seq(Nat), Place(samples),
         heard' = heard \o samples
  PROVE  HistoryInv'
<1> DEFINE n == Len(samples)
<1>0. /\ n \in 0..HistoryCapacity - 1 /\ Len(heard) \in Nat
      /\ historyWrite \in HistorySlots /\ historyCount \in 0..HistoryCapacity
      /\ historyCount = IF Len(heard) <= HistoryCapacity THEN Len(heard)
                        ELSE HistoryCapacity
      /\ history' = Placed(samples)
      /\ historyWrite' = HistorySlot(historyWrite + n)
      /\ historyCount' = IF historyCount + n <= HistoryCapacity
                         THEN historyCount + n ELSE HistoryCapacity
  BY DEF HistoryInv, HistoryTypeOK, HistorySlotsInOrder, Place
<1>1. /\ heard' \in Seq(Nat) /\ Len(heard') = Len(heard) + n
      /\ \A k \in 1..n : heard'[Len(heard) + k] = samples[k]
      /\ \A k \in 1..Len(heard) : heard'[k] = heard[k]
  BY ConcatProperties DEF HistoryInv, HistoryTypeOK
<1>2. /\ Placed(samples) \in [HistorySlots -> Nat]
      /\ \A j \in 0..n - 1 :
           Placed(samples)[HistorySlot(historyWrite + j)] = samples[j + 1]
      /\ \A j \in n..HistoryCapacity - 1 :
           Placed(samples)[HistorySlot(historyWrite + j)]
             = history[HistorySlot(historyWrite + j)]
  BY PlacedSlots DEF HistoryInv, Place
<1> HIDE DEF n
<1>3. HistorySlot(historyWrite + n) \in HistorySlots
  <2>1. 1 \in 1..HistoryCapacity
    OBVIOUS
  <2>2. QED
    BY <1>0, <2>1, SlotAdvanced
<1>4. HistoryTypeOK'
  <2>1. history' \in [HistorySlots -> Nat]
    BY <1>0, <1>2
  <2>2. historyWrite' \in HistorySlots /\ historyCount' \in 0..HistoryCapacity
    BY <1>0, <1>3
  <2>3. QED
    BY <1>1, <2>1, <2>2 DEF HistoryTypeOK, HistorySlots
<1>5. historyCount' = IF Len(heard') <= HistoryCapacity THEN Len(heard')
                      ELSE HistoryCapacity
  BY <1>0, <1>1
<1>6. ASSUME NEW k \in 1..historyCount'
      PROVE  history'[HistorySlot(historyWrite' - k)] = heard'[Len(heard') + 1 - k]
  <2>0. k \in 1..HistoryCapacity
    BY <1>0
  <2>1. CASE k <= n
    <3>1. HistorySlot(historyWrite' - k) = HistorySlot(historyWrite + (n - k))
      BY <1>0, <2>0, <2>1, SlotAdvanced
    <3>2. n - k \in 0..n - 1 /\ (n - k) + 1 \in 1..n
          /\ Len(heard') + 1 - k = Len(heard) + ((n - k) + 1)
      <4>1. n \in Nat /\ k \in Nat /\ 1 <= k /\ k <= n /\ Len(heard) \in Nat
        BY <1>0, <2>0, <2>1
      <4>2. Len(heard') = Len(heard) + n
        BY <1>1
      <4>3. QED
        BY <4>1, <4>2
    <3> DEFINE j == n - k
    <3>3. j \in 0..n - 1 /\ j + 1 \in 1..n /\ Len(heard') + 1 - k = Len(heard) + (j + 1)
          /\ HistorySlot(historyWrite' - k) = HistorySlot(historyWrite + j)
      BY <3>1, <3>2
    <3> HIDE DEF j
    <3>4. history'[HistorySlot(historyWrite + j)] = samples[j + 1]
      BY <1>0, <1>2, <3>3
    <3>5. heard'[Len(heard) + (j + 1)] = samples[j + 1]
      BY <1>1, <3>3
    <3>6. QED
      BY <3>3, <3>4, <3>5
  <2>2. CASE ~(k <= n)
    <3> DEFINE m == k - n
    <3>1. /\ m \in 1..historyCount /\ m \in 1..HistoryCapacity
          /\ HistoryCapacity - m \in n..HistoryCapacity - 1
          /\ Len(heard') + 1 - k = Len(heard) + 1 - m
          /\ Len(heard) + 1 - m \in 1..Len(heard)
      <4>1. m \in 1..historyCount
        BY <1>0, <2>0, <2>2
      <4>2. m \in 1..HistoryCapacity /\ HistoryCapacity - m \in n..HistoryCapacity - 1
        BY <1>0, <2>0, <2>2
      <4>3. historyCount <= Len(heard)
        BY <1>0
      <4>4. Len(heard') + 1 - k = Len(heard) + 1 - m
        BY <1>0, <1>1, <2>0
      <4>5. Len(heard) + 1 - m \in 1..Len(heard)
        BY <1>0, <4>1, <4>3
      <4>6. QED
        BY <4>1, <4>2, <4>4, <4>5
    <3>2. HistorySlot(historyWrite' - k) = HistorySlot(historyWrite - m)
      BY <1>0, <2>0, <2>2, SlotAdvanced
    <3>3. HistorySlot(historyWrite - m)
            = HistorySlot(historyWrite + (HistoryCapacity - m))
      BY <1>0, <3>1, SlotBehind
    <3>4. history'[HistorySlot(historyWrite - m)] = history[HistorySlot(historyWrite - m)]
      BY <1>0, <1>2, <3>1, <3>3
    <3>5. history[HistorySlot(historyWrite - m)] = heard[Len(heard) + 1 - m]
      BY <3>1 DEF HistoryInv, HistorySlotsInOrder
    <3>6. heard'[Len(heard) + 1 - m] = heard[Len(heard) + 1 - m]
      BY <1>1, <3>1
    <3>7. QED
      BY <3>1, <3>2, <3>4, <3>5, <3>6
  <2>3. QED
    BY <2>1, <2>2
<1>7. QED
  BY <1>4, <1>5, <1>6 DEF HistoryInv, HistorySlotsInOrder

\* Each step of the history's owner keeps it; a step of another leaves it alone.
LEMMA AppendHistory ==
  ASSUME HistoryInv, NEW samples \in Seq(Nat), HistoryAppend(samples)
  PROVE  HistoryInv'
<1>1. heard' = heard \o samples
  BY DEF HistoryAppend
<1>2. CASE KeepTail(samples)
  BY <1>1, <1>2, KeepTailHistory
<1>3. CASE Place(samples)
  BY <1>1, <1>3, PlaceHistory
<1>4. QED
  BY <1>2, <1>3 DEF HistoryAppend

\* What leaves the history alone leaves it well formed.
LEMMA SameHistory == ASSUME HistoryInv, UNCHANGED historyRingVars PROVE HistoryInv'
  BY DEF HistoryInv, HistoryTypeOK, HistorySlotsInOrder, historyRingVars

\* The snapshot, one slice or two, holds the newest samples in order.
LEMMA SnapshotNewest == HistoryInv => HistoryIsNewest
<1> SUFFICES ASSUME HistoryInv PROVE HistoryIsNewest
  OBVIOUS
<1> DEFINE start == HistorySlot(historyWrite - historyCount)
           first == HistoryCapacity - start
<1>0. /\ historyWrite \in 0..HistoryCapacity - 1 /\ historyCount \in 0..HistoryCapacity
      /\ Len(heard) \in Nat /\ historyCount <= Len(heard)
  BY DEF HistoryInv, HistoryTypeOK, HistorySlots, HistorySlotsInOrder
<1>1. ASSUME NEW k \in 0..historyCount
      PROVE  HistorySlot(historyWrite - k) = IF historyWrite < k
                                             THEN historyWrite - k + HistoryCapacity
                                             ELSE historyWrite - k
  <2>1. historyWrite - k \in HistoryTurns
    BY <1>0 DEF HistoryTurns
  <2>2. QED
    BY <1>0, <2>1, HistorySlotTurn
<1>2. start = IF historyWrite < historyCount
              THEN historyWrite - historyCount + HistoryCapacity
              ELSE historyWrite - historyCount
  BY <1>0, <1>1
<1>o. Ordered = IF historyCount <= first
                THEN [k \in 1..historyCount |-> history[start + k - 1]]
                ELSE [k \in 1..first + historyWrite |->
                       IF k <= first THEN history[start + k - 1]
                       ELSE history[k - 1 - first]]
  BY DEF Ordered
<1> DEFINE newest == [k \in 1..historyCount |-> heard[Len(heard) - historyCount + k]]
<1>f. first = HistoryCapacity - start
  OBVIOUS
<1> HIDE DEF start, first
<1>3. ASSUME NEW k \in 1..historyCount
      PROVE  heard[Len(heard) - historyCount + k]
               = history[HistorySlot(historyWrite - (historyCount + 1 - k))]
  <2> DEFINE j == historyCount + 1 - k
  <2>1. j \in 1..historyCount /\ Len(heard) + 1 - j = Len(heard) - historyCount + k
    BY <1>0
  <2>2. QED
    BY <2>1 DEF HistoryInv, HistorySlotsInOrder
<1>4. ASSUME NEW k \in 1..historyCount
      PROVE  HistorySlot(historyWrite - (historyCount + 1 - k))
               = IF k <= first THEN start + k - 1 ELSE k - 1 - first
  <2> DEFINE j == historyCount + 1 - k
  <2>1. j \in 0..historyCount /\ j = historyCount + 1 - k
    BY <1>0
  <2> HIDE DEF j
  <2>2. HistorySlot(historyWrite - j) = IF historyWrite < j
                                        THEN historyWrite - j + HistoryCapacity
                                        ELSE historyWrite - j
    BY <1>1, <2>1
  <2>3. HistorySlot(historyWrite - j)
          = IF k <= first THEN start + k - 1 ELSE k - 1 - first
    <3>1. CASE historyWrite < historyCount
      BY <1>0, <1>2, <1>f, <2>1, <2>2, <3>1
    <3>2. CASE ~(historyWrite < historyCount)
      BY <1>0, <1>2, <1>f, <2>1, <2>2, <3>2
    <3>3. QED
      BY <3>1, <3>2
  <2>4. QED
    BY <2>3 DEF j
<1>5. Ordered = newest
  <2>1. CASE historyCount <= first
    <3>1. ASSUME NEW k \in 1..historyCount
          PROVE  history[start + k - 1] = heard[Len(heard) - historyCount + k]
      <4>1. k <= first
        BY <1>0, <1>2, <1>f, <2>1
      <4>2. QED
        BY <1>3, <1>4, <4>1
    <3>2. QED
      BY <1>o, <2>1, <3>1
  <2>2. CASE ~(historyCount <= first)
    <3>1. first + historyWrite = historyCount
      BY <1>0, <1>2, <1>f, <2>2
    <3>2. ASSUME NEW k \in 1..historyCount
          PROVE  (IF k <= first THEN history[start + k - 1] ELSE history[k - 1 - first])
                   = heard[Len(heard) - historyCount + k]
      BY <1>3, <1>4
    <3>3. QED
      BY <1>o, <2>2, <3>1, <3>2
  <2>3. QED
    BY <2>1, <2>2
<1>6. QED
  BY <1>5 DEF HistoryIsNewest, HistoryInv, HistorySlotsInOrder

-----------------------------------------------------------------------------
(* Every behaviour of source and consumer.                                  *)

\* A step of the source or of the consumer keeps both invariants.
LEMMA NextPath ==
  ASSUME RingInv, HistoryInv, [PathNext]_pathVars
  PROVE  RingInv' /\ HistoryInv'
<1>0. batch \in Seq(Nat)
  BY DEF RingInv, TypeOK
<1>1. CASE SourceAppends
  <2>1. [Next]_pendingVars
    BY <1>1 DEF SourceAppends, Next
  <2>2. UNCHANGED historyRingVars
    BY <1>1 DEF SourceAppends
  <2>3. QED
    BY <2>1, <2>2, NextRing, SameHistory
<1>2. CASE ConsumerDrains
  <2>1. [Next]_pendingVars
    BY <1>2 DEF ConsumerDrains, Next
  <2>2. UNCHANGED historyRingVars
    BY <1>2 DEF ConsumerDrains
  <2>3. QED
    BY <2>1, <2>2, NextRing, SameHistory
<1>3. CASE ConsumerAppends
  <2>1. [Next]_pendingVars
    BY <1>3 DEF ConsumerAppends
  <2>2. HistoryAppend(batch)
    BY <1>3 DEF ConsumerAppends
  <2>3. QED
    BY <1>0, <2>1, <2>2, NextRing, AppendHistory
<1>4. CASE ConsumerClears
  <2>1. [Next]_pendingVars
    BY <1>4 DEF ConsumerClears
  <2>2. HistoryClear
    BY <1>4 DEF ConsumerClears
  <2>3. QED
    BY <2>1, <2>2, NextRing, ClearHistory
<1>5. CASE UNCHANGED pathVars
  <2>1. [Next]_pendingVars
    BY <1>5 DEF pathVars
  <2>2. UNCHANGED historyRingVars
    BY <1>5 DEF pathVars
  <2>3. QED
    BY <2>1, <2>2, NextRing, SameHistory
<1>6. QED
  BY <1>1, <1>2, <1>3, <1>4, <1>5 DEF PathNext

\* The ring and the history both keep their invariant while source and consumer
\* interleave: append_many and drain under the ring's lock, the history's append
\* and clear under none.
THEOREM PathCorrect == PathSpec => [](RingInv /\ HistoryInv)
<1>1. PathInit => RingInv /\ HistoryInv
  BY InitRing, InitHistory DEF PathInit
<1>2. RingInv /\ HistoryInv /\ [PathNext]_pathVars => (RingInv /\ HistoryInv)'
  BY NextPath
<1>3. QED
  BY <1>1, <1>2, PTL DEF PathSpec

\* A snapshot (valid_values, SignalBatchHistory.snapshot) is at every moment the
\* newest samples drained since the last clear, in order, however the writes and
\* the clears fell on the ends of the arrays.
THEOREM SnapshotsAreNewest == PathSpec => []HistoryIsNewest
<1>1. RingInv /\ HistoryInv => HistoryIsNewest
  BY SnapshotNewest
<1>2. QED
  BY <1>1, PathCorrect, PTL

-----------------------------------------------------------------------------
(* What the history misses of the source.                                   *)

\* The samples drained before the history was last cleared.
Before == consumed - Len(heard) - (IF inHand THEN Len(batch) ELSE 0)

\* Of a sample that was heard no more can be missing before it than was reported,
\* and the batch in hand comes after all of them.
GapInv ==
  /\ \A i \in 1..Len(heard) :
       Before + i <= heard[i] /\ heard[i] <= Before + i + reported
  /\ \A i \in 1..Len(heard) - 1 : heard[i] < heard[i + 1]
  /\ inHand => \A k \in 1..Len(batch) : batch[k] = Before + Len(heard) + reported + k

\* The variables of GapInv are numbers, and runs of numbers.
LEMMA GapTypes ==
  ASSUME RingInv, HistoryInv
  PROVE  /\ consumed \in Nat /\ reported \in Nat /\ dropped \in Nat /\ count \in Nat
         /\ produced = consumed + count + cumulativeDropped
         /\ cumulativeDropped = reported + dropped
         /\ batch \in Seq(Nat) /\ Len(batch) \in Nat /\ heard \in Seq(Nat) /\ Len(heard) \in Nat
         /\ \A i \in 1..Len(heard) : heard[i] \in Nat
         /\ \A k \in 1..Len(batch) : batch[k] \in Nat
  BY DEF RingInv, TypeOK, Accounting, HistoryInv, HistoryTypeOK

\* A drain hands out what follows the last sample that is gone.
LEMMA DrainsGap ==
  ASSUME RingInv, HistoryInv, GapInv, ConsumerDrains
  PROVE  GapInv'
<1>1. /\ ~inHand /\ inHand' /\ UNCHANGED heard
      /\ batch' = PendingArrays
      /\ consumed' = consumed + count /\ reported' = reported + dropped
  BY Zenon DEF ConsumerDrains, Drain, historyRingVars
<1>2. PendingArrays = [k \in 1..count |-> produced - count + k]
  BY PendingNewest DEF HoldsNewest
<1>3. Len(batch') = count /\ \A k \in 1..count : batch'[k] = produced - count + k
  BY <1>1, <1>2, GapTypes
<1>4. Before' = Before
  <2>1. /\ consumed' = consumed + count /\ Len(batch') = count /\ heard' = heard
        /\ consumed \in Nat /\ count \in Nat /\ Len(heard) \in Nat
    BY Zenon, <1>1, <1>3, GapTypes
  <2>2. Before = consumed - Len(heard) - 0 /\ Before' = consumed' - Len(heard') - Len(batch')
    BY <1>1 DEF Before
  <2>3. QED
    BY <2>1, <2>2
<1>5. ASSUME NEW i \in 1..Len(heard)
      PROVE  Before + i <= heard[i] /\ heard[i] <= Before + i + reported'
  <2>1. Before \in Int /\ heard[i] \in Nat /\ i \in Nat
    BY GapTypes DEF Before
  <2>2. Before + i <= heard[i] /\ heard[i] <= Before + i + reported
    BY Zenon DEF GapInv
  <2>3. reported' = reported + dropped /\ reported \in Nat /\ dropped \in Nat
    BY Zenon, <1>1, GapTypes
  <2>4. QED
    BY <2>1, <2>2, <2>3
<1>6. ASSUME NEW k \in 1..Len(batch')
      PROVE  batch'[k] = Before + Len(heard) + reported' + k
  <2>1. batch'[k] = produced - count + k /\ k \in Nat
    BY <1>3, GapTypes
  <2>2. /\ produced - count = Before + Len(heard) + reported'
        /\ Before \in Int /\ Len(heard) \in Nat /\ reported' \in Nat
    <3>1. /\ produced = consumed + count + cumulativeDropped
          /\ cumulativeDropped = reported + dropped /\ reported' = reported + dropped
          /\ consumed \in Nat /\ count \in Nat /\ reported \in Nat /\ dropped \in Nat
          /\ Len(heard) \in Nat
      BY Zenon, <1>1, GapTypes
    <3>2. Before = consumed - Len(heard)
      BY <1>1, <3>1 DEF Before
    <3>3. QED
      BY <3>1, <3>2
  <2>3. QED
    BY <2>1, <2>2
<1>7. \A i \in 1..Len(heard) - 1 : heard[i] < heard[i + 1]
  BY Zenon DEF GapInv
<1>8. QED
  BY <1>1, <1>4, <1>5, <1>6, <1>7 DEF GapInv

\* What is appended goes on after what was heard.
LEMMA AppendsGap ==
  ASSUME RingInv, HistoryInv, GapInv, ConsumerAppends
  PROVE  GapInv'
<1>1. /\ inHand /\ ~inHand' /\ heard' = heard \o batch
      /\ UNCHANGED <<batch, consumed, reported>>
  BY Zenon DEF ConsumerAppends, HistoryAppend, pendingVars, historyVars
<1>2. /\ Len(heard') = Len(heard) + Len(batch)
      /\ \A i \in 1..Len(heard') : heard'[i] = IF i <= Len(heard) THEN heard[i]
                                              ELSE batch[i - Len(heard)]
  BY <1>1, GapTypes
<1>3. Before' = Before /\ Before \in Int
  BY <1>1, <1>2, GapTypes DEF Before
<1>4. /\ \A i \in 1..Len(heard) :
           Before + i <= heard[i] /\ heard[i] <= Before + i + reported
      /\ \A i \in 1..Len(heard) - 1 : heard[i] < heard[i + 1]
      /\ \A k \in 1..Len(batch) : batch[k] = Before + Len(heard) + reported + k
  BY Zenon, <1>1 DEF GapInv
<1>5. ASSUME NEW i \in 1..Len(heard')
      PROVE  /\ Before + i <= heard'[i] /\ heard'[i] <= Before + i + reported
             /\ i > Len(heard) => heard'[i] = Before + i + reported
             /\ heard'[i] \in Nat
  <2>0. /\ Len(heard) \in Nat /\ Len(batch) \in Nat /\ reported \in Nat
        /\ i \in 1..Len(heard) + Len(batch)
    BY Zenon, <1>2, GapTypes
  <2>1. CASE i <= Len(heard)
    <3>1. i \in 1..Len(heard)
      BY <2>0, <2>1
    <3>2. heard'[i] = heard[i] /\ heard[i] \in Nat
      BY Zenon, <1>2, <2>1, <3>1, GapTypes
    <3>3. Before + i <= heard[i] /\ heard[i] <= Before + i + reported
      BY Zenon, <1>4, <3>1
    <3>4. QED
      BY <2>1, <3>1, <3>2, <3>3, <2>0
  <2>2. CASE ~(i <= Len(heard))
    <3>1. i - Len(heard) \in 1..Len(batch)
      BY <2>0, <2>2
    <3>2. heard'[i] = batch[i - Len(heard)] /\ batch[i - Len(heard)] \in Nat
      BY Zenon, <1>2, <2>2, <3>1, GapTypes
    <3>3. heard'[i] = Before + Len(heard) + reported + (i - Len(heard))
      BY Zenon, <1>4, <3>1, <3>2
    <3>4. QED
      BY <1>3, <2>0, <2>2, <3>2, <3>3
  <2>3. QED
    BY Zenon, <2>1, <2>2
<1>6. ASSUME NEW i \in 1..Len(heard') - 1
      PROVE  heard'[i] < heard'[i + 1]
  <2>1. i \in 1..Len(heard') /\ i + 1 \in 1..Len(heard')
    BY <1>2, GapTypes
  <2>0. Len(heard) \in Nat /\ reported \in Nat /\ i \in Nat
    BY <1>2, GapTypes
  <2>2. CASE i + 1 <= Len(heard)
    <3>1. i \in 1..Len(heard) - 1 /\ i <= Len(heard)
      BY <2>0, <2>1, <2>2
    <3>2. heard'[i] = heard[i] /\ heard'[i + 1] = heard[i + 1]
      BY Zenon, <1>2, <2>1, <2>2, <3>1
    <3>3. QED
      BY Zenon, <1>4, <3>1, <3>2
  <2>3. CASE i + 1 > Len(heard)
    <3>1. heard'[i] <= Before + i + reported
          /\ heard'[i + 1] = Before + (i + 1) + reported
      BY <1>5, <2>1, <2>3
    <3>2. heard'[i] \in Nat
      BY Zenon, <1>5, <2>1
    <3>3. QED
      BY <1>3, <2>0, <3>1, <3>2
  <2>4. QED
    BY <2>0, <2>2, <2>3
<1>7. QED
  BY Zenon, <1>1, <1>3, <1>5, <1>6 DEF GapInv

\* Every step of source and consumer accounts for what is missing.
LEMMA NextGap ==
  ASSUME RingInv, HistoryInv, GapInv, [PathNext]_pathVars
  PROVE  GapInv'
<1>1. ASSUME UNCHANGED <<heard, batch, consumed, reported, inHand>> PROVE GapInv'
  BY <1>1 DEF GapInv, Before
<1>2. SourceAppends \/ UNCHANGED pathVars
        => UNCHANGED <<heard, batch, consumed, reported, inHand>>
  BY Zenon DEF SourceAppends, AppendMany, pathVars, pendingVars, historyVars,
               historyRingVars
<1>3. CASE ConsumerClears
  <2>1. heard' = <<>> /\ ~inHand'
    BY Zenon, <1>3 DEF ConsumerClears, HistoryClear
  <2>2. QED
    BY <2>1 DEF GapInv
<1>4. QED
  BY Zenon, <1>1, <1>2, <1>3, DrainsGap, AppendsGap DEF PathNext

\* Of what the analysis sees, no more is missing than it was told.
LEMMA GapIsReported ==
  ASSUME RingInv, HistoryInv, GapInv
  PROVE  GapsAreReported
<1>1. /\ historyCount = IF Len(heard) <= HistoryCapacity THEN Len(heard)
                        ELSE HistoryCapacity
      /\ Ordered = [k \in 1..historyCount |-> heard[Len(heard) - historyCount + k]]
  BY SnapshotNewest DEF HistoryIsNewest
<1>2. historyCount \in Nat /\ historyCount <= Len(heard)
  BY <1>1, GapTypes
<1>3. ASSUME historyCount > 0
      PROVE  Ordered[historyCount] - Ordered[1] + 1 - historyCount <= reported
  <2> DEFINE last == Len(heard)
             first == Len(heard) - historyCount + 1
  <2>1. Ordered[historyCount] = heard[last] /\ Ordered[1] = heard[first]
    <3>1. 1 \in 1..historyCount /\ historyCount \in 1..historyCount
      BY <1>2, <1>3
    <3>2. /\ Len(heard) - historyCount + historyCount = last
          /\ Len(heard) - historyCount + 1 = first
      BY <1>2, GapTypes
    <3>3. QED
      BY Zenon, <1>1, <3>1, <3>2
  <2>2. first \in 1..Len(heard) /\ last \in 1..Len(heard)
    BY <1>2, <1>3, GapTypes
  <2>3. Before + first <= heard[first] /\ heard[last] <= Before + last + reported
    BY <2>2 DEF GapInv
  <2>4. heard[first] \in Nat /\ heard[last] \in Nat
    BY Zenon, <2>2, GapTypes
  <2>5. /\ reported \in Nat /\ Len(heard) \in Nat /\ first = Len(heard) - historyCount + 1
        /\ last = Len(heard) /\ Before \in Int
    BY GapTypes DEF Before
  <2> HIDE DEF first, last
  <2>6. QED
    BY <1>2, <2>1, <2>3, <2>4, <2>5
<1>4. QED
  BY Zenon, <1>3 DEF GapInv, GapsAreReported

\* However the source overruns the ring while the consumer is busy, and however
\* often the history wraps and is cleared: the analysis sees the samples in the
\* order of the source, and the drains have reported to it at least as many dropped
\* as are missing in between.
THEOREM GapsStayReported == PathSpec => []GapsAreReported
<1>1. PathInit => GapInv
  BY DEF PathInit, HistoryInit, GapInv
<1>2. RingInv /\ HistoryInv /\ GapInv /\ [PathNext]_pathVars => GapInv'
  BY NextGap
<1>3. RingInv /\ HistoryInv /\ GapInv => GapsAreReported
  BY GapIsReported
<1>4. QED
  BY <1>1, <1>2, <1>3, PathCorrect, PTL DEF PathSpec

=============================================================================
