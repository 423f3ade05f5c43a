-------------------------- MODULE SharedSlot_proofs --------------------------
(***************************************************************************)
(* What a reader of a slot may accept, for payloads of any size and any    *)
(* number of attempts, of writes and of writers that died.                 *)
(***************************************************************************)
EXTENDS SharedSlot, TLAPS

\* The fields a header has in memory when the writer is at the store numbered step.
Stored(h, i) == [magic    |-> IF i > 3 THEN h.magic    ELSE 0,
                 version  |-> IF i > 4 THEN h.version  ELSE 0,
                 active   |-> IF i > 5 THEN h.active   ELSE 0,
                 length_0 |-> IF i > 6 THEN h.length_0 ELSE 0,
                 length_1 |-> 0]

HalfOf(t)   == t[3]
LengthOf(t) == t[4 + HalfOf(t)]

\* The writer: what it is about to store, and what of it is there already.
WriterInv ==
  /\ header.version <= payload.write
  /\ step > 0 =>
       /\ newHeader.version <= payload.write
       /\ newHeader.magic = 1 /\ newHeader.version > 0
       /\ payload.words \in 1..PayloadWords
       /\ LengthOf(Unpacked(newHeader)) = payload.words
  /\ step = 1 => copied < payload.words
  /\ step \in {1, 2} =>
       /\ header.magic = 1
       /\ newHeader.version = header.version + 1
       /\ newHeader.active = 1 - header.active
  /\ step > 2 => header = Stored(newHeader, step)

\* The reader: what it has taken, in order.
ReaderInv ==
  /\ seen \in Seq(Nat) /\ Len(seen) <= 5
  /\ Len(seen) >= 3 => seen[3] \in Halves
  /\ \A i \in 4..Len(seen) : seen[i] <= PayloadWords
  /\ taken \in Seq(Pickles)
  /\ again \in Seq(Nat) /\ Len(again) <= 5
  /\ attempt = 0 => seen = <<>> /\ taken = <<>> /\ again = <<>>
  /\ taken # <<>> => Len(seen) > 4
  /\ Len(seen) > 4 => Len(taken) <= LengthOf(seen)
  /\ again # <<>> => Len(seen) > 4 /\ Len(taken) = LengthOf(seen)

\* No word is of a later write than the one under way, and the half the header calls
\* active starts with a word no older than the last write that returned.
RecentInv ==
  /\ wrote <= payload.write /\ floor <= wrote
  /\ \A h \in Halves, i \in 1..PayloadWords : cells[h][i].write <= payload.write
  /\ step = 1 /\ copied > 0 => cells[newHeader.active][1] = payload
  /\ step > 1 => cells[newHeader.active][1] = payload
  /\ step > 0 => wrote < payload.write
  /\ cells[header.active][1].write >= wrote
  /\ Len(seen) >= 3 => cells[seen[3]][1].write >= floor
  /\ taken # <<>> => taken[1].write >= floor

\* The words of the half t calls active are one pickle, and all of it.
IntactAt(t) ==
  \A i \in 1..LengthOf(t) : /\ cells[HalfOf(t)][i] = cells[HalfOf(t)][1]
                            /\ cells[HalfOf(t)][1].words = LengthOf(t)

IntactCopy == /\ Len(taken) = taken[1].words
              /\ \A i \in DOMAIN taken : taken[i] = taken[1]

\* The headers whose payload is in place: those stored in full and the one being stored.
Committed == published \cup (IF step > 2 THEN {Unpacked(newHeader)} ELSE {})

\* Versions go up, so that a version names one header, for as long as no writer died
\* with the version at zero.
VersionInv ==
  /\ \A t \in published : t[2] \in Nat /\ t[3] \in Halves /\ LengthOf(t) \in 0..PayloadWords
  /\ step < 3 /\ header.magic = 1 =>
       \A t \in published : /\ t[2] <= header.version
                            /\ t[2] = header.version /\ t[2] > 0 => t = Unpacked(header)
  /\ step > 2 => \A t \in published : t[2] < newHeader.version
  /\ Len(seen) >= 2 =>
       /\ step < 3 /\ header.magic = 1 => seen[2] <= header.version
       /\ step \in {3, 4} => seen[2] < newHeader.version
       /\ step > 4 => seen[2] <= newHeader.version

\* What a committed header points to is intact for as long as its version is there,
\* and so is what was copied from it.
CopyInv ==
  /\ step = 1 => \A i \in 1..copied : cells[newHeader.active][i] = payload
  /\ step > 1 => \A i \in 1..payload.words : cells[newHeader.active][i] = payload
  /\ \A t \in published : t[2] = 0 => LengthOf(t) = 0
  /\ \A t \in published : t[2] > 0 /\ t[2] = header.version => IntactAt(t)
  /\ taken # <<>> /\ seen \in Committed /\ seen[2] = header.version /\ Len(again) < 2 =>
       \A i \in DOMAIN taken : taken[i] = cells[HalfOf(seen)][i]
  /\ taken # <<>> /\ seen \in Committed /\ Len(again) > 1 /\ again[2] = seen[2] => IntactCopy

SlotInv == /\ WriterInv /\ ReaderInv /\ RecentInv
           /\ ~versionLost => VersionInv /\ CopyInv

-----------------------------------------------------------------------------
(* The stores of a write. *)

\* The store each step makes.
LEMMA Order == /\ Len(WriteOrder) = 7
               /\ \A i \in 1..7 : /\ WriteOrder[i] = "payload"  <=> i = 1
                                  /\ WriteOrder[i] = "zeros"    <=> i = 2
                                  /\ WriteOrder[i] = "magic"    <=> i = 3
                                  /\ WriteOrder[i] = "version"  <=> i = 4
                                  /\ WriteOrder[i] = "active"   <=> i = 5
                                  /\ WriteOrder[i] = "length_0" <=> i = 6
                                  /\ WriteOrder[i] = "length_1" <=> i = 7
  BY DEF WriteOrder

\* A header's fields as a reader finds them.
LEMMA UnpackedIs ==
  ASSUME NEW h \in Headers
  PROVE  /\ Unpacked(h) \in Seq(Nat) /\ Len(Unpacked(h)) \in 5..5
         /\ Unpacked(h)[1] = h.magic /\ Unpacked(h)[2] = h.version
         /\ Unpacked(h)[3] = h.active /\ Unpacked(h)[3] \in Halves
         /\ LengthOf(Unpacked(h)) = IF h.active = 0 THEN h.length_0 ELSE h.length_1
         /\ LengthOf(Unpacked(h)) \in 0..PayloadWords
  BY BoundsAssumption, CapacityAssumption DEF Headers, Unpacked, Halves, LengthOf, HalfOf

\* The header of the next write.
LEMMA NextHeaderIs ==
  ASSUME NEW words \in 1..PayloadWords, NEW n, n = NextHeader(words),
         header \in Headers, header.version < MaxWrites
  PROVE  /\ n \in Headers /\ n.magic = header.magic /\ n.version = header.version + 1
         /\ n.active = 1 - header.active /\ LengthOf(Unpacked(n)) = words
<1>1. /\ n.magic = header.magic /\ n.version = header.version + 1
      /\ n.active = 1 - header.active
      /\ n.length_0 = IF header.active = 1 THEN words ELSE header.length_0
      /\ n.length_1 = IF header.active = 0 THEN words ELSE header.length_1
      /\ n = [magic |-> n.magic, version |-> n.version, active |-> n.active,
              length_0 |-> n.length_0, length_1 |-> n.length_1]
  BY DEF NextHeader, Headers
<1>2. /\ n.magic \in {0, 1} /\ n.version \in 0..MaxWrites /\ n.active \in Halves
      /\ n.length_0 \in 0..PayloadWords /\ n.length_1 \in 0..PayloadWords
  BY <1>1, BoundsAssumption, CapacityAssumption DEF Headers, Halves
<1>3. n \in Headers
  BY <1>1, <1>2 DEF Headers
<1>4. LengthOf(Unpacked(n)) = words
  BY <1>1, <1>3, UnpackedIs DEF Headers, Halves
<1>5. QED
  BY <1>1, <1>3, <1>4

\* A store of a field brings the header one field nearer to the new one.
LEMMA FieldIsStored ==
  ASSUME TypeOK, NEW f \in DOMAIN header, StoreField(f), header = Stored(newHeader, step)
  PROVE  /\ step \in 3..7
         /\ header' = IF step < 7 THEN Stored(newHeader, step + 1) ELSE newHeader
<1>1. /\ step \in 3..7 /\ WriteOrder[step] = f
  <2>1. f \in {"magic", "version", "active", "length_0", "length_1"}
    BY DEF TypeOK, Headers
  <2>2. step \in 1..7
    BY Order DEF TypeOK, StoreField
  <2>3. QED
    BY <2>1, <2>2, Order DEF StoreField
<1>2. header' = [header EXCEPT ![f] = newHeader[f]]
  BY DEF StoreField
<1>3. /\ header.magic = IF step > 3 THEN newHeader.magic ELSE 0
      /\ header.version = IF step > 4 THEN newHeader.version ELSE 0
      /\ header.active = IF step > 5 THEN newHeader.active ELSE 0
      /\ header.length_0 = IF step > 6 THEN newHeader.length_0 ELSE 0
      /\ header.length_1 = 0
  BY Zenon DEF Stored
<1>4. newHeader = [magic |-> newHeader.magic, version |-> newHeader.version,
                   active |-> newHeader.active, length_0 |-> newHeader.length_0,
                   length_1 |-> newHeader.length_1]
  BY DEF TypeOK, Headers
<1> USE Order DEF TypeOK, Headers
<1>5. CASE step = 3
  <2>1. f = "magic"
    BY <1>1, <1>5
  <2>2. header' = [magic |-> newHeader.magic, version |-> header.version,
                  active |-> header.active, length_0 |-> header.length_0,
                  length_1 |-> header.length_1]
    BY <1>2, <2>1
  <2>3. QED
    BY <1>3, <1>4, <1>5, <2>2 DEF Stored
<1>6. CASE step = 4
  <2>1. f = "version"
    BY <1>1, <1>6
  <2>2. header' = [magic |-> header.magic, version |-> newHeader.version,
                  active |-> header.active, length_0 |-> header.length_0,
                  length_1 |-> header.length_1]
    BY <1>2, <2>1
  <2>3. QED
    BY <1>3, <1>4, <1>6, <2>2 DEF Stored
<1>7. CASE step = 5
  <2>1. f = "active"
    BY <1>1, <1>7
  <2>2. header' = [magic |-> header.magic, version |-> header.version,
                  active |-> newHeader.active, length_0 |-> header.length_0,
                  length_1 |-> header.length_1]
    BY <1>2, <2>1
  <2>3. QED
    BY <1>3, <1>4, <1>7, <2>2 DEF Stored
<1>8. CASE step = 6
  <2>1. f = "length_0"
    BY <1>1, <1>8
  <2>2. header' = [magic |-> header.magic, version |-> header.version,
                  active |-> header.active, length_0 |-> newHeader.length_0,
                  length_1 |-> header.length_1]
    BY <1>2, <2>1
  <2>3. QED
    BY <1>3, <1>4, <1>8, <2>2 DEF Stored
<1>9. CASE step = 7
  <2>1. f = "length_1"
    BY <1>1, <1>9
  <2>2. header' = [magic |-> header.magic, version |-> header.version,
                  active |-> header.active, length_0 |-> header.length_0,
                  length_1 |-> newHeader.length_1]
    BY <1>2, <2>1
  <2>3. QED
    BY <1>3, <1>4, <1>9, <2>2 DEF Stored
<1>10. QED
  BY <1>1, <1>5, <1>6, <1>7, <1>8, <1>9

\* A copied word: the payload's copy goes on, or is done.
LEMMA CopyIs ==
  ASSUME TypeOK, CopyWordIn
  PROVE  /\ step = 1 /\ step' = IF copied' = payload.words THEN 2 ELSE 1
         /\ copied' = copied + 1
         /\ cells' = [cells EXCEPT ![newHeader.active][copied + 1] = payload]
         /\ UNCHANGED <<wrote, published, header, newHeader, payload, versionLost, floor>>
         /\ UNCHANGED <<seen, taken, again, attempt, failed>>
<1>1. step = 1
  BY Order DEF TypeOK, CopyWordIn
<1>2. QED
  BY <1>1, Order DEF CopyWordIn, NextStep, readerVars

\* The zeros of pack_into.
LEMMA ZerosAre ==
  ASSUME TypeOK, StoreZeros
  PROVE  /\ step = 2 /\ step' = 3 /\ header' = Zeros
         /\ UNCHANGED <<wrote, published, cells, newHeader, copied, payload, versionLost, floor>>
         /\ UNCHANGED <<seen, taken, again, attempt, failed>>
<1>1. step = 2
  BY Order DEF TypeOK, StoreZeros
<1>2. QED
  BY <1>1, Order DEF StoreZeros, NextStep, readerVars

\* A field, and with the last one the end of the write.
LEMMA FieldIs ==
  ASSUME TypeOK, WriterInv, NEW f \in DOMAIN header, StoreField(f)
  PROVE  /\ step \in 3..7
         /\ step < 7 => /\ step' = step + 1 /\ UNCHANGED <<wrote, published>>
                        /\ header' = Stored(newHeader, step + 1)
         /\ step = 7 => /\ step' = 0 /\ wrote' = payload.write
                        /\ published' = published \cup {Unpacked(newHeader)}
                        /\ header' = newHeader
         /\ UNCHANGED <<cells, newHeader, copied, payload, versionLost, floor>>
         /\ UNCHANGED <<seen, taken, again, attempt, failed>>
<1>1. step \in 3..7
  <2>1. f \in {"magic", "version", "active", "length_0", "length_1"}
    BY DEF TypeOK, Headers
  <2>2. QED
    BY <2>1, Order DEF TypeOK, StoreField
<1>2. header = Stored(newHeader, step)
  BY <1>1 DEF WriterInv
<1>3. /\ header' = IF step < 7 THEN Stored(newHeader, step + 1) ELSE newHeader
  BY <1>2, FieldIsStored
<1>4. /\ IF step < 7 THEN step' = step + 1 /\ UNCHANGED <<wrote, published>>
                     ELSE /\ step' = 0 /\ wrote' = payload.write
                          /\ published' = published \cup {Unpacked(newHeader)}
  BY Order DEF StoreField, NextStep
<1>5. /\ UNCHANGED <<cells, newHeader, copied, payload, versionLost, floor>>
      /\ UNCHANGED <<seen, taken, again, attempt, failed>>
  BY DEF StoreField, readerVars
<1>6. QED
  BY <1>1, <1>3, <1>4, <1>5

\* The fields stored so far make a header.
LEMMA StoredIs ==
  ASSUME NEW h \in Headers, NEW i \in 3..7
  PROVE  /\ Stored(h, i) \in Headers
         /\ Stored(h, i).version = IF i > 4 THEN h.version ELSE 0
         /\ Stored(h, i).magic = IF i > 3 THEN h.magic ELSE 0
         /\ Stored(h, i).active = IF i > 5 THEN h.active ELSE 0
  BY BoundsAssumption, CapacityAssumption DEF Headers, Stored, Halves

\* Zeros are a header.
LEMMA ZerosTyped == Zeros \in Headers /\ Fresh \in Headers
  BY BoundsAssumption, CapacityAssumption DEF Headers, Zeros, Fresh, Halves

\* A reader writes nothing but its own copies.
LEMMA ReaderLeaves ==
  ASSUME Reader \/ UNCHANGED vars
  PROVE  /\ UNCHANGED <<header, cells, step, newHeader, copied, payload>>
         /\ UNCHANGED <<wrote, published, versionLost>>
  BY Zenon DEF Reader, BeginRead, ReadHeader, CopyWordOut, ReadHeaderAgain, RaiseInvalid,
     Accept,
    Retry, vars, sharedVars, writerVars, writeGhosts
-----------------------------------------------------------------------------
(* The invariant is inductive: the writer's part. *)

\* The type invariant in its parts.
WriterTypes ==
  /\ header \in Headers
  /\ cells \in [Halves -> [1..PayloadWords -> Pickles]]
  /\ step \in 0..Len(WriteOrder)
  /\ newHeader \in Headers
  /\ copied \in 0..PayloadWords
  /\ payload \in Pickles
  /\ versionLost \in BOOLEAN
  /\ wrote \in 0..MaxWrites

ReaderTypes == attempt \in 0..Attempts /\ failed \in 0..Attempts /\ floor \in 0..MaxWrites

\* The parts make up the type invariant.
LEMMA TypeParts == TypeOK <=> WriterTypes /\ ReaderTypes
  BY Zenon DEF TypeOK, WriterTypes, ReaderTypes

\* What the writer relies on holds after every step.
LEMMA WriterStep ==
  ASSUME TypeOK, WriterInv, [Next]_vars
  PROVE  WriterTypes' /\ WriterInv'
<1> USE BoundsAssumption, CapacityAssumption
<1>0. /\ header \in Headers /\ newHeader \in Headers /\ step \in 0..7 /\ payload \in Pickles
      /\ cells \in [Halves -> [1..PayloadWords -> Pickles]] /\ copied \in 0..PayloadWords
      /\ wrote \in 0..MaxWrites /\ versionLost \in BOOLEAN /\ Len(WriteOrder) = 7
  BY Zenon, Order DEF TypeOK
<1>1. ASSUME NEW words \in 1..PayloadWords, BeginWrite(words) PROVE WriterTypes' /\ WriterInv'
  <2>1. /\ header' = header /\ cells' = cells /\ step' = 1 /\ copied' = 0 /\ step = 0
        /\ payload' = [write |-> payload.write + 1, words |-> words] /\ payload.write < MaxWrites
        /\ newHeader' = NextHeader(words) /\ wrote' = wrote /\ header.magic = 1
    BY <1>1 DEF BeginWrite, sharedVars, writeGhosts
  <2>2. versionLost' = versionLost
    BY <1>1 DEF BeginWrite, writeGhosts
  <2>3. header.version <= payload.write /\ header.version \in Nat
    BY <1>0 DEF WriterInv, Headers
  <2>4. payload' \in Pickles /\ payload'.write = payload.write + 1 /\ payload'.words = words
    BY <1>0, <2>1 DEF Pickles
  <2>5. /\ newHeader' \in Headers /\ newHeader'.magic = 1
        /\ newHeader'.version = header.version + 1 /\ newHeader'.active = 1 - header.active
        /\ LengthOf(Unpacked(newHeader')) = words
    BY <1>0, <2>1, <2>3, NextHeaderIs DEF Pickles
  <2>6. 1 \in 0..7 /\ 0 \in 0..PayloadWords
    OBVIOUS
  <2>7. WriterTypes'
    BY Zenon, <1>0, <2>1, <2>2, <2>4, <2>5, <2>6 DEF WriterTypes
  <2>8. header'.version <= payload'.write /\ newHeader'.version <= payload'.write
    BY <1>0, <2>1, <2>3, <2>4, <2>5 DEF Pickles
  <2>9. WriterInv'
    BY <2>1, <2>3, <2>4, <2>5, <2>8 DEF WriterInv
  <2>10. QED
    BY <2>7, <2>9
<1>2. CASE CopyWordIn
  <2>1. /\ copied + 1 \in 1..PayloadWords /\ copied + 1 <= payload.words /\ step = 1
        /\ copied' = copied + 1 /\ step' = IF copied' = payload.words THEN 2 ELSE 1
        /\ header' = header /\ newHeader' = newHeader /\ payload' = payload
    BY <1>0, <1>2, CopyIs DEF WriterInv, Pickles
  <2>2. newHeader.active \in Halves
    BY <1>0 DEF Headers
  <2>3. cells' \in [Halves -> [1..PayloadWords -> Pickles]]
    <3>1. cells' = [cells EXCEPT ![newHeader.active][copied + 1] = payload]
      BY Zenon, <1>2, CopyIs
    <3> HIDE DEF Pickles, Halves
    <3>2. QED
      BY <1>0, <2>1, <2>2, <3>1
  <2>4. wrote' = wrote /\ step' \in 0..7 /\ copied' \in 0..PayloadWords
    BY <1>2, <2>1, CopyIs
  <2>5. versionLost' = versionLost
    BY Zenon, <1>2, CopyIs
  <2>6. WriterTypes'
    BY Zenon, <1>0, <2>1, <2>3, <2>4, <2>5 DEF WriterTypes
  <2>7. WriterInv'
    BY <1>0, <2>1 DEF WriterInv, Pickles
  <2>8. QED
    BY <2>6, <2>7
<1>3. CASE StoreZeros
  <2>1. Zeros = Stored(newHeader, 3) /\ Zeros.version = 0
    BY DEF Zeros, Stored
  <2>2. /\ step = 2 /\ step' = 3 /\ header' = Zeros /\ 3 \in 0..7
        /\ UNCHANGED <<wrote, cells, newHeader, copied, payload>>
    BY <1>3, ZerosAre
  <2>3. versionLost' = versionLost
    BY Zenon, <1>3, ZerosAre
  <2>4. WriterTypes'
    BY Zenon, <1>0, <2>2, <2>3, ZerosTyped DEF WriterTypes
  <2>5. WriterInv'
    BY <1>0, <2>1, <2>2 DEF WriterInv, Pickles
  <2>6. QED
    BY <2>4, <2>5
<1>4. ASSUME NEW f \in DOMAIN header, StoreField(f) PROVE WriterTypes' /\ WriterInv'
  <2>1. UNCHANGED <<cells, newHeader, copied, payload>> /\ step \in 3..7
    BY <1>4, FieldIs
  <2>2. versionLost' = versionLost
    BY Zenon, <1>4, FieldIs
  <2>3. CASE step < 7
    <3>1. step \in 3..6 /\ step + 1 \in 3..7 /\ step' = step + 1 /\ wrote' = wrote /\ step' \in 0..7
      BY <1>4, <2>1, <2>3, FieldIs
    <3>2. header' = Stored(newHeader, step + 1) /\ header' \in Headers
      BY <1>0, <1>4, <2>3, <3>1, FieldIs, StoredIs
    <3>3. header'.version \in {0, newHeader.version}
      BY <1>0, <3>1, <3>2, StoredIs
    <3>4. WriterTypes'
      BY Zenon, <1>0, <2>1, <2>2, <3>1, <3>2 DEF WriterTypes
    <3>5. WriterInv'
      BY <1>0, <2>1, <3>1, <3>2, <3>3 DEF WriterInv, Pickles
    <3>6. QED
      BY <3>4, <3>5
  <2>4. CASE step = 7
    <3>1. /\ step' = 0 /\ header' = newHeader /\ wrote' = payload.write /\ wrote' \in 0..MaxWrites
          /\ 0 \in 0..7
      BY <1>0, <1>4, <2>4, FieldIs DEF Pickles
    <3>2. WriterTypes'
      BY Zenon, <1>0, <2>1, <2>2, <3>1 DEF WriterTypes
    <3>3. WriterInv'
      BY <2>1, <2>4, <3>1 DEF WriterInv
    <3>4. QED
      BY <3>2, <3>3
  <2>5. QED
    BY <2>1, <2>3, <2>4
<1>5. CASE WriterDies
  <2>1. versionLost' \in BOOLEAN
    BY Zenon, <1>5 DEF WriterDies
  <2>2. /\ step' = 0 /\ header' = header /\ cells' = cells /\ newHeader' = newHeader
        /\ copied' = copied /\ payload' = payload /\ wrote' = wrote /\ 0 \in 0..7
    BY <1>5 DEF WriterDies, sharedVars
  <2>3. WriterTypes'
    BY Zenon, <1>0, <2>1, <2>2 DEF WriterTypes
  <2>4. WriterInv'
    BY <2>2 DEF WriterInv
  <2>5. QED
    BY <2>3, <2>4
<1>6. CASE Reader \/ UNCHANGED vars
  <2>1. WriterTypes'
    BY Zenon, <1>0, <1>6, ReaderLeaves DEF WriterTypes
  <2>2. WriterInv'
    BY <1>6, ReaderLeaves DEF WriterInv
  <2>3. QED
    BY <2>1, <2>2
<1>7. QED
  BY Zenon, <1>1, <1>2, <1>3, <1>4, <1>5, <1>6 DEF Next, Writer
-----------------------------------------------------------------------------
(* The reader's part. *)

\* A writer, and its death, change nothing of the reader's.
LEMMA WriterLeaves ==
  ASSUME Writer \/ WriterDies \/ UNCHANGED vars
  PROVE  UNCHANGED <<seen, taken, again, attempt, failed, floor>>
  BY Zenon DEF Writer, WriterDies, BeginWrite, CopyWordIn, StoreZeros, StoreField, vars,
     readerVars

\* A header read has its five fields.
LEMMA HeaderReadIs == ASSUME NEW t \in Seq(Nat), Len(t) <= 5
                      PROVE  HeaderRead(t) <=> Len(t) > 4
<1>1. \A a \in Nat, b \in 5..5 : a <= 5 => (a = b <=> a > 4)
  OBVIOUS
<1>2. Len(t) \in Nat /\ Len(Fields) \in 5..5
  BY DEF Fields
<1>3. QED
  BY Zenon, <1>1, <1>2 DEF HeaderRead

\* The length of a header found is that of a payload.
LEMMA LengthTyped ==
  ASSUME NEW t \in Seq(Nat), Len(t) > 4, t[3] \in Halves,
         \A i \in 4..Len(t) : t[i] <= PayloadWords
  PROVE  LengthOf(t) \in 0..PayloadWords
<1>1. t[4] \in 0..PayloadWords /\ t[5] \in 0..PayloadWords
  BY CapacityAssumption
<1>2. t[3] = 0 \/ t[3] = 1
  BY DEF Halves
<1>3. CASE t[3] = 0
  BY <1>1, <1>3 DEF LengthOf, HalfOf
<1>4. CASE t[3] = 1
  BY <1>1, <1>4 DEF LengthOf, HalfOf
<1>5. QED
  BY <1>2, <1>3, <1>4

\* The fields of a header, one by one.
LEMMA FieldsTyped ==
  ASSUME NEW h \in Headers, NEW i \in 1..5
  PROVE  /\ Unpacked(h)[i] \in Nat
         /\ i = 3 => Unpacked(h)[i] \in Halves
         /\ i > 3 => Unpacked(h)[i] <= PayloadWords
<1>1. /\ h.magic \in Nat /\ h.version \in Nat /\ h.active \in Halves
      /\ h.length_0 \in 0..PayloadWords /\ h.length_1 \in 0..PayloadWords
  BY BoundsAssumption, CapacityAssumption DEF Headers
<1>2. i \in {1, 2, 3, 4, 5}
  OBVIOUS
<1>3. QED
  BY <1>1, <1>2, CapacityAssumption DEF Unpacked, Halves

\* What the reader has taken stays in order.
LEMMA ReaderStep ==
  ASSUME TypeOK, ReaderInv, [Next]_vars
  PROVE  ReaderTypes' /\ ReaderInv'
<1> USE AttemptsAssumption
<1>0. /\ header \in Headers /\ cells \in [Halves -> [1..PayloadWords -> Pickles]]
      /\ attempt \in 0..Attempts /\ failed \in 0..Attempts
      /\ wrote \in 0..MaxWrites /\ floor \in 0..MaxWrites
  BY Zenon DEF TypeOK
<1>a. /\ seen \in Seq(Nat) /\ Len(seen) <= 5
      /\ taken \in Seq(Pickles)
      /\ again \in Seq(Nat) /\ Len(again) <= 5
  BY Zenon DEF ReaderInv
<1>b. /\ attempt = 0 => seen = <<>> /\ taken = <<>> /\ again = <<>>
      /\ taken # <<>> => Len(seen) > 4
      /\ Len(seen) > 4 => Len(taken) <= LengthOf(seen)
      /\ again # <<>> => Len(seen) > 4 /\ Len(taken) = LengthOf(seen)
  BY Zenon DEF ReaderInv
<1>c. /\ Len(seen) >= 3 => seen[3] \in Halves
      /\ \A i \in 4..Len(seen) : seen[i] <= PayloadWords
  BY Zenon DEF ReaderInv
<1>1. CASE BeginRead
  BY <1>0, <1>1, <1>a, <1>b, <1>c DEF BeginRead, ReaderInv, ReaderTypes
<1>2. CASE ReadHeader
  <2> DEFINE k == Len(seen) + 1
             f == Unpacked(header)[k]
  <2>1. /\ ~HeaderRead(seen) /\ seen' = Append(seen, f) /\ attempt > 0
        /\ UNCHANGED <<taken, again, attempt, failed, floor>>
    BY <1>2 DEF ReadHeader
  <2>2. Len(seen) <= 4
    BY <1>a, <2>1, HeaderReadIs
  <2>3. k \in 1..5
    BY <1>a, <2>2
  <2>4. f \in Nat /\ (k = 3 => f \in Halves) /\ (k > 3 => f <= PayloadWords)
    BY <1>0, <2>3, FieldsTyped
  <2>5. /\ seen' \in Seq(Nat) /\ Len(seen') = k /\ seen'[k] = f
        /\ \A i \in 1..Len(seen) : seen'[i] = seen[i]
    BY <1>a, <2>1, <2>4
  <2>6. taken = <<>> /\ again = <<>>
    BY <1>a, <1>b, <2>2
  <2> HIDE DEF f
  <2>7. Len(seen') >= 3 => seen'[3] \in Halves
    BY <1>a, <1>c, <2>3, <2>4, <2>5
  <2>8. ASSUME NEW i \in 4..Len(seen') PROVE seen'[i] <= PayloadWords
    <3>1. CASE i = k
      BY <2>3, <2>4, <2>5, <3>1
    <3>2. CASE i # k
      <4>1. i \in 1..Len(seen) /\ i \in 4..Len(seen)
        BY <1>a, <2>3, <2>5, <3>2
      <4>2. QED
        BY Zenon, <1>c, <2>5, <4>1
    <3>3. QED
      BY <3>1, <3>2
  <2>9. Len(seen') > 4 => LengthOf(seen') \in 0..PayloadWords
    BY <2>3, <2>5, <2>7, <2>8, LengthTyped
  <2>10. QED
    BY <1>0, <1>a, <2>1, <2>3, <2>5, <2>6, <2>7, <2>8, <2>9 DEF ReaderInv, ReaderTypes
<1>3. CASE CopyWordOut
  <2>1. /\ Len(seen) > 4 /\ Len(taken) < LengthOf(seen)
        /\ taken' = Append(taken, cells[HalfOf(seen)][Len(taken) + 1])
        /\ UNCHANGED <<seen, again, attempt, failed, floor>>
    BY <1>3, <1>a, HeaderReadIs DEF CopyWordOut, SeenHalf, SeenLength, LengthOf, HalfOf
  <2>2. LengthOf(seen) \in 0..PayloadWords
    BY <1>a, <1>c, <2>1, LengthTyped
  <2>3. cells[HalfOf(seen)][Len(taken) + 1] \in Pickles
    <3>1. HalfOf(seen) \in Halves
      BY <1>a, <1>c, <2>1 DEF HalfOf
    <3>2. Len(taken) + 1 \in 1..PayloadWords
      BY <1>a, <2>1, <2>2, CapacityAssumption
    <3>3. QED
      BY Zenon, <1>0, <3>1, <3>2
  <2>4. taken' \in Seq(Pickles) /\ Len(taken') = Len(taken) + 1
    BY <1>a, <2>1, <2>3
  <2>5. again = <<>> /\ attempt # 0
    BY <1>a, <1>b, <2>1
  <2>6. QED
    BY <1>0, <1>a, <1>b, <1>c, <2>1, <2>2, <2>4, <2>5 DEF ReaderInv, ReaderTypes
<1>4. CASE ReadHeaderAgain
  <2> DEFINE k == Len(again) + 1
             f == Unpacked(header)[k]
  <2>1. /\ ~HeaderRead(again) /\ again' = Append(again, f) /\ HeaderRead(seen)
        /\ Len(taken) = LengthOf(seen) /\ UNCHANGED <<seen, taken, attempt, failed, floor>>
    BY <1>4 DEF ReadHeaderAgain, SeenHalf, SeenLength, LengthOf, HalfOf
  <2>2. Len(again) <= 4 /\ Len(seen) > 4
    BY <1>a, <2>1, HeaderReadIs
  <2>3. k \in 1..5
    BY <1>a, <2>2
  <2>4. f \in Nat
    BY <1>0, <2>3, FieldsTyped
  <2>5. again' \in Seq(Nat) /\ Len(again') <= 5
    BY <1>a, <2>1, <2>2, <2>4
  <2>6. attempt # 0
    BY <1>a, <1>b, <2>2
  <2>7. QED
    BY <1>0, <1>a, <1>b, <1>c, <2>1, <2>2, <2>5, <2>6 DEF ReaderInv, ReaderTypes
<1>5. CASE RaiseInvalid
  BY <1>0, <1>5, <1>a, <1>b, <1>c DEF RaiseInvalid, Forget, ReaderInv, ReaderTypes
<1>6. CASE Accept
  BY <1>0, <1>6, <1>a, <1>b, <1>c DEF Accept, Forget, ReaderInv, ReaderTypes
<1>7. CASE Retry
  BY SMTT(30), <1>0, <1>7, <1>a, <1>b, <1>c DEF Retry, Forget, ReaderInv, ReaderTypes
<1>8. CASE Writer \/ WriterDies \/ UNCHANGED vars
  BY <1>0, <1>8, <1>a, <1>b, <1>c, WriterLeaves DEF ReaderInv, ReaderTypes
<1>9. QED
  BY Zenon, <1>1, <1>2, <1>3, <1>4, <1>5, <1>6, <1>7, <1>8 DEF Next, Reader
-----------------------------------------------------------------------------
(* Reads are recent. *)

\* A header gets its active half at once, zero or the new one.
LEMMA ActiveTurns ==
  ASSUME TypeOK, WriterInv, NEW f \in DOMAIN header, StoreField(f)
  PROVE  /\ header'.active \in {header.active, newHeader.active}
         /\ step = 7 => header'.active = newHeader.active
<1>1. header \in Headers /\ newHeader \in Headers
  BY Zenon DEF TypeOK
<1>2. step \in 3..7 /\ header = Stored(newHeader, step)
  BY FieldIs DEF WriterInv
<1>3. step < 7 => step + 1 \in 3..7 /\ header' = Stored(newHeader, step + 1)
  BY <1>2, FieldIs
<1>4. step = 7 => header' = newHeader
  BY FieldIs
<1>5. CASE step = 7
  BY <1>4, <1>5
<1>6. CASE step < 7
  <2>1. header'.active = IF step + 1 > 5 THEN newHeader.active ELSE 0
    BY <1>1, <1>3, <1>6, StoredIs
  <2>2. header.active = IF step > 5 THEN newHeader.active ELSE 0
    BY <1>1, <1>2, StoredIs
  <2>3. QED
    BY <1>2, <1>6, <2>1, <2>2
<1>7. QED
  BY <1>2, <1>5, <1>6

\* The first word of the half a header names is as new as the last write that returned.
LEMMA RecentStep ==
  ASSUME TypeOK, WriterInv, ReaderInv, ReaderInv', RecentInv, [Next]_vars
  PROVE  RecentInv'
<1> USE CapacityAssumption, BoundsAssumption
<1>0. /\ header \in Headers /\ newHeader \in Headers /\ step \in 0..7 /\ payload \in Pickles
      /\ cells \in [Halves -> [1..PayloadWords -> Pickles]] /\ copied \in 0..PayloadWords
      /\ wrote \in 0..MaxWrites /\ floor \in 0..MaxWrites
  BY Order DEF TypeOK
<1>a. /\ wrote <= payload.write /\ floor <= wrote
      /\ \A h \in Halves, i \in 1..PayloadWords : cells[h][i].write <= payload.write
      /\ step = 1 /\ copied > 0 => cells[newHeader.active][1] = payload
      /\ step > 1 => cells[newHeader.active][1] = payload
      /\ step > 0 => wrote < payload.write
  BY Zenon DEF RecentInv
<1>b. /\ cells[header.active][1].write >= wrote
      /\ Len(seen) >= 3 => cells[seen[3]][1].write >= floor
      /\ taken # <<>> => taken[1].write >= floor
  BY Zenon DEF RecentInv
<1>c. /\ header.active \in Halves /\ newHeader.active \in Halves /\ 1 \in 1..PayloadWords
      /\ payload.write \in Nat
  BY <1>0 DEF Headers, Pickles
<1>d. \A h \in Halves, i \in 1..PayloadWords : cells[h][i].write \in Nat
  BY <1>0 DEF Pickles
<1>e. Len(seen) >= 3 => seen[3] \in Halves
  BY Zenon DEF ReaderInv
<1>1. ASSUME NEW words \in 1..PayloadWords, BeginWrite(words) PROVE RecentInv'
  <2>1. /\ header' = header /\ cells' = cells /\ step' = 1 /\ copied' = 0 /\ wrote' = wrote
        /\ payload'.write = payload.write + 1 /\ floor' = floor /\ seen' = seen /\ taken' = taken
    BY <1>1 DEF BeginWrite, sharedVars, readerVars, writeGhosts
  <2>2. \A h \in Halves, i \in 1..PayloadWords : cells'[h][i].write <= payload'.write
    BY <1>a, <1>c, <1>d, <2>1
  <2>3. QED
    BY <1>0, <1>a, <1>b, <1>c, <2>1, <2>2 DEF RecentInv
<1>2. CASE CopyWordIn
  <2>1. /\ header' = header /\ newHeader' = newHeader /\ payload' = payload /\ wrote' = wrote
        /\ floor' = floor /\ seen' = seen /\ taken' = taken /\ step = 1 /\ step' \in {1, 2}
        /\ copied' = copied + 1
        /\ cells' = [cells EXCEPT ![newHeader.active][copied + 1] = payload]
    BY <1>2, CopyIs
  <2>2. newHeader.active # header.active /\ copied + 1 \in 1..PayloadWords
    BY <1>0, <2>1 DEF WriterInv, Headers, Halves, Pickles
  <2>3. \A h \in Halves, i \in 1..PayloadWords :
          cells'[h][i] = IF h = newHeader.active /\ i = copied + 1 THEN payload ELSE cells[h][i]
    BY <1>0, <1>c, <2>1, <2>2
  <2>4. \A h \in Halves, i \in 1..PayloadWords : cells'[h][i].write <= payload.write
    BY <1>a, <1>c, <2>3
  <2>5. cells'[newHeader.active][1] = payload
    BY <1>0, <1>a, <1>c, <2>1, <2>2, <2>3
  <2>6. cells'[header.active][1] = cells[header.active][1]
    BY <1>c, <2>2, <2>3
  <2>7. \A h \in Halves : cells'[h][1].write >= cells[h][1].write
    BY <1>a, <1>c, <1>d, <2>3
  <2>8. Len(seen) >= 3 => cells'[seen[3]][1].write >= floor
    BY <1>0, <1>a, <1>b, <1>c, <1>d, <1>e, <2>3
  <2>9. QED
    BY <1>a, <1>b, <2>1, <2>4, <2>5, <2>6, <2>8 DEF RecentInv
<1>3. CASE StoreZeros
  <2>1. /\ step = 2 /\ step' = 3 /\ header'.active = 0
        /\ UNCHANGED <<wrote, cells, newHeader, copied, payload, floor, seen, taken>>
    BY <1>3, ZerosAre DEF Zeros
  <2>2. cells[0][1].write >= wrote
    <3>1. CASE header.active = 0
      BY <1>b, <3>1
    <3>2. CASE newHeader.active = 0
      BY <1>0, <1>a, <1>c, <2>1, <3>2
    <3>3. QED
      BY <1>c, <2>1, <3>1, <3>2 DEF WriterInv, Halves
  <2>3. QED
    BY <1>a, <1>b, <2>1, <2>2 DEF RecentInv
<1>4. ASSUME NEW f \in DOMAIN header, StoreField(f) PROVE RecentInv'
  <2>1. /\ UNCHANGED <<cells, newHeader, copied, payload, floor, seen, taken>> /\ step \in 3..7
        /\ step < 7 => step' = step + 1 /\ wrote' = wrote
        /\ step = 7 => step' = 0 /\ wrote' = payload.write
    BY <1>4, FieldIs
  <2>2. cells[newHeader.active][1] = payload /\ wrote < payload.write
    BY <1>a, <2>1
  <2>3. cells'[header'.active][1].write >= wrote'
    BY <1>0, <1>b, <1>c, <1>4, <2>1, <2>2, ActiveTurns
  <2>4. /\ wrote' <= payload.write /\ floor <= wrote'
    BY <1>0, <1>a, <1>c, <2>1, <2>2
  <2>5. /\ step' = 1 /\ copied' > 0 => cells'[newHeader'.active][1] = payload'
        /\ step' > 1 => cells'[newHeader'.active][1] = payload'
        /\ step' > 0 => wrote' < payload'.write
    BY <2>1, <2>2
  <2>6. QED
    BY <1>a, <1>b, <2>1, <2>3, <2>4, <2>5 DEF RecentInv
<1>5. CASE WriterDies
  <2>1. /\ step' = 0 /\ header' = header /\ cells' = cells /\ newHeader' = newHeader
        /\ copied' = copied /\ payload' = payload /\ wrote' = wrote
        /\ floor' = floor /\ seen' = seen /\ taken' = taken
    BY <1>5 DEF WriterDies, sharedVars, readerVars
  <2>2. QED
    BY <1>a, <1>b, <2>1 DEF RecentInv
<1>6. CASE Reader
  <2>1. UNCHANGED <<header, cells, step, newHeader, copied, payload, wrote>>
    BY <1>6, ReaderLeaves
  <2>2. /\ floor' <= wrote
        /\ Len(seen') >= 3 => cells[seen'[3]][1].write >= floor'
        /\ taken' # <<>> => taken'[1].write >= floor'
    <3>1. CASE BeginRead
      <4>1. floor' = wrote /\ seen' = seen /\ taken' = taken /\ attempt = 0
        BY <3>1 DEF BeginRead
      <4>2. seen = <<>> /\ taken = <<>>
        BY Zenon, <4>1 DEF ReaderInv
      <4>3. QED
        BY <1>0, <4>1, <4>2
    <3>2. CASE ReadHeader
      <4>1. /\ seen' = Append(seen, Unpacked(header)[Len(seen) + 1]) /\ ~HeaderRead(seen)
            /\ taken' = taken /\ floor' = floor
        BY <3>2 DEF ReadHeader
      <4>2. seen \in Seq(Nat) /\ Len(seen) <= 5
        BY Zenon DEF ReaderInv
      <4>3. Len(seen) <= 4 /\ Len(seen) + 1 \in 1..5
        BY <4>1, <4>2, HeaderReadIs
      <4>4. Unpacked(header)[Len(seen) + 1] \in Nat /\ Unpacked(header)[3] = header.active
        BY <1>0, <4>3, FieldsTyped, UnpackedIs
      <4>5. CASE Len(seen) >= 3
        <5>1. seen'[3] = seen[3]
          BY <4>1, <4>2, <4>4, <4>5
        <5>2. QED
          BY <1>a, <1>b, <4>1, <4>5, <5>1
      <4>6. CASE Len(seen) + 1 = 3
        <5>1. seen'[3] = header.active
          BY <4>1, <4>2, <4>4, <4>6
        <5>2. QED
          BY <1>0, <1>a, <1>b, <1>c, <1>d, <4>1, <5>1
      <4>7. CASE Len(seen) + 1 < 3
        <5>1. Len(seen') < 3
          BY <4>1, <4>2, <4>4, <4>7
        <5>2. QED
          BY <1>a, <1>b, <4>1, <4>2, <5>1
      <4>8. QED
        BY <4>2, <4>5, <4>6, <4>7
    <3>3. CASE CopyWordOut
      <4>1. /\ taken' = Append(taken, cells[seen[3]][Len(taken) + 1]) /\ HeaderRead(seen)
            /\ seen' = seen /\ floor' = floor
        BY <3>3 DEF CopyWordOut, SeenHalf
      <4>2. seen \in Seq(Nat) /\ Len(seen) <= 5 /\ taken \in Seq(Pickles)
        BY Zenon DEF ReaderInv
      <4>3. Len(seen) > 4
        BY <4>1, <4>2, HeaderReadIs
      <4>4. CASE taken = <<>>
        <5>1. taken'[1] = cells[seen[3]][1]
          BY <4>1, <4>4
        <5>2. QED
          BY <1>a, <1>b, <4>1, <4>3, <5>1
      <4>5. CASE taken # <<>>
        <5>1. taken'[1] = taken[1]
          BY <4>1, <4>2, <4>5
        <5>2. QED
          BY <1>a, <1>b, <4>1, <4>5, <5>1
      <4>6. QED
        BY <4>4, <4>5
    <3>4. CASE ReadHeaderAgain
      BY <1>a, <1>b, <3>4 DEF ReadHeaderAgain
    <3>5. CASE RaiseInvalid \/ Accept \/ Retry
      <4>1. seen' = <<>> /\ taken' = <<>> /\ floor' = floor
        BY <3>5 DEF RaiseInvalid, Accept, Retry, Forget
      <4>2. QED
        BY <1>a, <4>1
    <3>6. QED
      BY Zenon, <1>6, <3>1, <3>2, <3>3, <3>4, <3>5 DEF Reader
  <2>3. QED
    BY <1>a, <1>b, <2>1, <2>2 DEF RecentInv
<1>7. CASE UNCHANGED vars
  BY <1>a, <1>b, <1>7 DEF RecentInv, vars, sharedVars, writerVars, readerVars, writeGhosts
<1>8. QED
  BY Zenon, <1>1, <1>2, <1>3, <1>4, <1>5, <1>6, <1>7 DEF Next, Writer
-----------------------------------------------------------------------------
(* Versions name headers. *)

\* Versions go up with every write that stores them, and a reader has seen none to come.
LEMMA VersionStep ==
  ASSUME TypeOK, WriterInv, ReaderInv, VersionInv, ~versionLost', [Next]_vars
  PROVE  VersionInv'
<1> USE CapacityAssumption, BoundsAssumption
<1>0. /\ header \in Headers /\ newHeader \in Headers /\ step \in 0..7
      /\ header.version \in Nat /\ newHeader.version \in Nat
  BY Order DEF TypeOK, Headers
<1>a. \A t \in published : t[2] \in Nat /\ t[3] \in Halves /\ LengthOf(t) \in 0..PayloadWords
  BY Zenon DEF VersionInv
<1>b. step < 3 /\ header.magic = 1 =>
        \A t \in published : /\ t[2] <= header.version
                             /\ t[2] = header.version /\ t[2] > 0 => t = Unpacked(header)
  BY Zenon DEF VersionInv
<1>c. step > 2 => \A t \in published : t[2] < newHeader.version
  BY Zenon DEF VersionInv
<1>d. Len(seen) >= 2 =>
       /\ step < 3 /\ header.magic = 1 => seen[2] <= header.version
       /\ step \in {3, 4} => seen[2] < newHeader.version
       /\ step > 4 => seen[2] <= newHeader.version
  BY Zenon DEF VersionInv
<1>e. /\ step \in {1, 2} => header.magic = 1 /\ newHeader.version = header.version + 1
      /\ step > 0 => newHeader.version > 0
      /\ step > 2 => header = Stored(newHeader, step)
  BY DEF WriterInv
<1>f. step > 2 => /\ header.version = IF step > 4 THEN newHeader.version ELSE 0
                  /\ step = 3 => header.magic = 0
  BY <1>0, <1>e, StoredIs
<1>g. seen \in Seq(Nat) /\ Len(seen) <= 5 /\ (Len(seen) >= 2 => seen[2] \in Nat)
  BY DEF ReaderInv
<1>1. ASSUME NEW words \in 1..PayloadWords, BeginWrite(words) PROVE VersionInv'
  <2>1. /\ header' = header /\ step = 0 /\ step' = 1 /\ published' = published /\ seen' = seen
        /\ header.magic = 1
    BY <1>1 DEF BeginWrite, sharedVars, readerVars, writeGhosts
  <2>2. QED
    BY <1>a, <1>b, <1>d, <2>1 DEF VersionInv
<1>2. CASE CopyWordIn
  <2>1. /\ header' = header /\ newHeader' = newHeader /\ published' = published /\ seen' = seen
        /\ step = 1 /\ step' \in {1, 2}
    BY <1>2, CopyIs
  <2>2. QED
    BY <1>a, <1>b, <1>d, <2>1 DEF VersionInv
<1>3. CASE StoreZeros
  <2>1. /\ step = 2 /\ step' = 3 /\ UNCHANGED <<published, newHeader, seen>>
    BY <1>3, ZerosAre
  <2>2. \A t \in published : t[2] < newHeader.version
    BY <1>0, <1>a, <1>b, <1>e, <2>1
  <2>3. Len(seen) >= 2 => seen[2] < newHeader.version
    BY <1>0, <1>d, <1>e, <1>g, <2>1
  <2>4. QED
    BY <1>a, <2>1, <2>2, <2>3 DEF VersionInv
<1>4. ASSUME NEW f \in DOMAIN header, StoreField(f) PROVE VersionInv'
  <2>1. newHeader' = newHeader /\ seen' = seen /\ step \in 3..7
    BY <1>4, FieldIs
  <2>2. CASE step < 7
    <3>1. step' = step + 1 /\ published' = published
      BY <1>4, <2>2, FieldIs
    <3>2. Len(seen) >= 2 => /\ step' \in {3, 4} => seen[2] < newHeader.version
                            /\ step' > 4 => seen[2] <= newHeader.version
      BY <1>0, <1>d, <1>g, <2>1, <3>1
    <3>3. QED
      BY <1>a, <1>c, <2>1, <3>1, <3>2 DEF VersionInv
  <2>3. CASE step = 7
    <3>1. /\ step' = 0 /\ header' = newHeader
          /\ published' = published \cup {Unpacked(newHeader)}
      BY <1>4, <2>3, FieldIs
    <3> DEFINE u == Unpacked(newHeader)
    <3>2. /\ u[2] = newHeader.version /\ u[3] \in Halves /\ LengthOf(u) \in 0..PayloadWords
      BY <1>0, UnpackedIs
    <3> HIDE DEF u
    <3>3. \A t \in published' :
            /\ t[2] \in Nat /\ t[3] \in Halves /\ LengthOf(t) \in 0..PayloadWords
            /\ t[2] <= newHeader.version
            /\ t[2] = newHeader.version => t = u
      BY <1>0, <1>a, <1>c, <2>3, <3>1, <3>2 DEF u
    <3>4. Len(seen) >= 2 => seen[2] <= newHeader.version
      BY <1>d, <2>3
    <3>5. QED
      BY <2>1, <3>1, <3>3, <3>4 DEF VersionInv, u
  <2>4. QED
    BY <2>1, <2>2, <2>3
<1>5. CASE WriterDies
  <2>1. step > 0 /\ step' = 0 /\ header' = header /\ published' = published /\ seen' = seen
    BY <1>5 DEF WriterDies, sharedVars, readerVars
  <2>2. ~(header.magic = 1 /\ header.version < newHeader.version - 1)
    BY Zenon, <1>5 DEF WriterDies
  <2>3. header.magic = 1 =>
          \A t \in published : /\ t[2] <= header.version
                               /\ t[2] = header.version /\ t[2] > 0 => t = Unpacked(header)
    <3>1. CASE step < 3
      BY <1>b, <3>1
    <3>2. CASE step > 2
      BY <1>0, <1>a, <1>c, <1>f, <2>2, <3>2
    <3>3. QED
      BY <1>0, <3>1, <3>2
  <2>4. header.magic = 1 /\ Len(seen) >= 2 => seen[2] <= header.version
    BY <1>0, <1>d, <1>f, <1>g, <2>1, <2>2
  <2>5. QED
    BY <1>a, <2>1, <2>3, <2>4 DEF VersionInv
<1>6. CASE Reader
  <2>1. UNCHANGED <<header, step, newHeader, published>>
    BY <1>6, ReaderLeaves
  <2>2. Len(seen') >= 2 =>
          /\ step < 3 /\ header.magic = 1 => seen'[2] <= header.version
          /\ step \in {3, 4} => seen'[2] < newHeader.version
          /\ step > 4 => seen'[2] <= newHeader.version
    <3>1. CASE ReadHeader
      <4>1. seen' = Append(seen, Unpacked(header)[Len(seen) + 1]) /\ ~HeaderRead(seen)
        BY <3>1 DEF ReadHeader
      <4>2. Len(seen) + 1 \in 1..5
        BY <1>g, <4>1, HeaderReadIs
      <4>3. Unpacked(header)[Len(seen) + 1] \in Nat /\ Unpacked(header)[2] = header.version
        BY <1>0, <4>2, FieldsTyped, UnpackedIs
      <4>4. CASE Len(seen) >= 2
        <5>1. seen'[2] = seen[2]
          BY <1>g, <4>1, <4>3, <4>4
        <5>2. QED
          BY <1>d, <4>4, <5>1
      <4>5. CASE Len(seen) + 1 = 2
        <5>1. seen'[2] = header.version
          BY <1>g, <4>1, <4>3, <4>5
        <5>2. QED
          BY <1>0, <1>e, <1>f, <5>1
      <4>6. CASE Len(seen) + 1 < 2
        BY <1>g, <4>1, <4>3, <4>6
      <4>7. QED
        BY <1>g, <4>4, <4>5, <4>6
    <3>2. CASE BeginRead \/ CopyWordOut \/ ReadHeaderAgain
      <4>1. seen' = seen
        BY <3>2 DEF BeginRead, CopyWordOut, ReadHeaderAgain
      <4>2. QED
        BY <1>d, <4>1
    <3>3. CASE RaiseInvalid \/ Accept \/ Retry
      <4>1. seen' = <<>>
        BY <3>3 DEF RaiseInvalid, Accept, Retry, Forget
      <4>2. QED
        BY <4>1
    <3>4. QED
      BY Zenon, <1>6, <3>1, <3>2, <3>3 DEF Reader
  <2>3. QED
    BY <1>a, <1>b, <1>c, <2>1, <2>2 DEF VersionInv
<1>7. CASE UNCHANGED vars
  BY <1>a, <1>b, <1>c, <1>d, <1>7 DEF VersionInv, vars, sharedVars, writerVars, readerVars,
    writeGhosts
<1>8. QED
  BY Zenon, <1>1, <1>2, <1>3, <1>4, <1>5, <1>6, <1>7 DEF Next, Writer
-----------------------------------------------------------------------------
(* Copies are intact. *)

\* What is in the half of the header under way, once its payload is copied.
LEMMA NewIsIntact ==
  ASSUME TypeOK, WriterInv, CopyInv, step > 1
  PROVE  IntactAt(Unpacked(newHeader)) /\ HalfOf(Unpacked(newHeader)) = newHeader.active
<1>1. newHeader \in Headers /\ payload \in Pickles
  BY Zenon DEF TypeOK
<1>2. /\ LengthOf(Unpacked(newHeader)) = payload.words /\ payload.words \in 1..PayloadWords
      /\ \A i \in 1..payload.words : cells[newHeader.active][i] = payload
  BY Order DEF WriterInv, CopyInv, TypeOK
<1>3. HalfOf(Unpacked(newHeader)) = newHeader.active
  BY <1>1, UnpackedIs DEF HalfOf
<1>4. 1 \in 1..payload.words
  BY <1>2, CapacityAssumption
<1>5. QED
  BY <1>2, <1>3, <1>4 DEF IntactAt

\* A header that is current, and points to words, is intact; so is a copy of it.
LEMMA CurrentIsIntact ==
  ASSUME TypeOK, WriterInv, ReaderInv, VersionInv, CopyInv,
         taken # <<>>, seen \in Committed
  PROVE  /\ seen[2] \in Nat /\ seen[2] > 0
         /\ seen[2] = header.version => IntactAt(seen)
<1>1. LengthOf(seen) > 0
  <2>1. Len(seen) > 4 /\ Len(taken) <= LengthOf(seen) /\ taken \in Seq(Pickles)
    BY DEF ReaderInv
  <2>2. Len(taken) \in Nat /\ Len(taken) > 0
    BY <2>1
  <2>3. LengthOf(seen) \in 0..PayloadWords
    BY <2>1, LengthTyped DEF ReaderInv
  <2>4. QED
    BY <2>1, <2>2, <2>3, CapacityAssumption
<1>2. CASE seen \in published
  <2>1. seen[2] \in Nat /\ (seen[2] = 0 => LengthOf(seen) = 0)
    BY Zenon, <1>2 DEF VersionInv, CopyInv
  <2>2. seen[2] > 0
    BY <1>1, <2>1
  <2>3. seen[2] = header.version => IntactAt(seen)
    BY Zenon, <1>2, <2>2 DEF CopyInv
  <2>4. QED
    BY <2>1, <2>2, <2>3
<1>3. CASE step > 2 /\ seen = Unpacked(newHeader)
  <2>1. newHeader \in Headers /\ newHeader.version \in Nat /\ newHeader.version > 0
    BY <1>3, BoundsAssumption, Order DEF TypeOK, WriterInv, Headers
  <2>2. step > 1
    BY <1>3, Order DEF TypeOK
  <2>3. QED
    BY <1>3, <2>1, <2>2, UnpackedIs, NewIsIntact
<1>4. QED
  BY Zenon, <1>2, <1>3 DEF Committed

\* Nothing overwrites what a current header points to, and so what is copied from it.
LEMMA CopyStep ==
  ASSUME TypeOK, WriterInv, ReaderInv, VersionInv, CopyInv, [Next]_vars
  PROVE  CopyInv'
<1> USE CapacityAssumption, BoundsAssumption
<1>0. /\ header \in Headers /\ newHeader \in Headers /\ step \in 0..7 /\ payload \in Pickles
      /\ cells \in [Halves -> [1..PayloadWords -> Pickles]] /\ copied \in 0..PayloadWords
      /\ header.version \in Nat /\ newHeader.version \in Nat
      /\ header.active \in Halves /\ newHeader.active \in Halves
  BY Order DEF TypeOK, Headers
<1>a. /\ step = 1 => \A i \in 1..copied : cells[newHeader.active][i] = payload
      /\ step > 1 => \A i \in 1..payload.words : cells[newHeader.active][i] = payload
      /\ \A t \in published : t[2] = 0 => LengthOf(t) = 0
  BY Zenon DEF CopyInv
<1>b. \A t \in published : t[2] > 0 /\ t[2] = header.version => IntactAt(t)
  BY Zenon DEF CopyInv
<1>c. taken # <<>> /\ seen \in Committed /\ seen[2] = header.version /\ Len(again) < 2 =>
        \A i \in DOMAIN taken : taken[i] = cells[HalfOf(seen)][i]
  BY Zenon DEF CopyInv
<1>d. taken # <<>> /\ seen \in Committed /\ Len(again) > 1 /\ again[2] = seen[2] => IntactCopy
  BY Zenon DEF CopyInv
<1>e. \A t \in published : t[2] \in Nat /\ t[3] \in Halves /\ LengthOf(t) \in 0..PayloadWords
  BY Zenon DEF VersionInv
<1>f. /\ seen \in Seq(Nat) /\ Len(seen) <= 5 /\ again \in Seq(Nat) /\ Len(again) <= 5
      /\ taken \in Seq(Pickles) /\ (taken # <<>> => Len(seen) > 4)
      /\ again # <<>> => Len(seen) > 4 /\ Len(taken) = LengthOf(seen)
  BY Zenon DEF ReaderInv
<1>1. ASSUME NEW words \in 1..PayloadWords, BeginWrite(words) PROVE CopyInv'
  <2>1. /\ header' = header /\ cells' = cells /\ step = 0 /\ step' = 1 /\ copied' = 0
        /\ published' = published /\ seen' = seen /\ taken' = taken /\ again' = again
    BY <1>1 DEF BeginWrite, sharedVars, readerVars, writeGhosts
  <2>2. Committed' = Committed
    BY <2>1 DEF Committed
  <2>3. QED
    BY <1>a, <1>b, <1>c, <1>d, <2>1, <2>2 DEF CopyInv, IntactAt, IntactCopy
<1>2. CASE CopyWordIn
  <2>1. /\ header' = header /\ newHeader' = newHeader /\ payload' = payload
        /\ published' = published /\ seen' = seen /\ taken' = taken /\ again' = again
        /\ step = 1 /\ copied' = copied + 1
        /\ step' = IF copied' = payload.words THEN 2 ELSE 1
        /\ cells' = [cells EXCEPT ![newHeader.active][copied + 1] = payload]
    BY <1>2, CopyIs
  <2>2. /\ newHeader.active # header.active /\ copied + 1 \in 1..PayloadWords
        /\ header.magic = 1
    BY <1>0, <2>1 DEF WriterInv, Headers, Halves, Pickles
  <2>3. /\ \A i \in 1..copied + 1 : cells'[newHeader.active][i] = payload
        /\ cells'[header.active] = cells[header.active]
    BY <1>0, <1>a, <2>1, <2>2
  <2>4. Committed' = Committed /\ Committed = published
    BY <2>1 DEF Committed
  <2>5. \A t \in published : t[2] > 0 /\ t[2] = header.version => HalfOf(t) = header.active
    BY SMTT(30), <1>0, <2>1, <2>2, UnpackedIs DEF VersionInv, HalfOf
  <2>6. \A t \in published : t[2] > 0 /\ t[2] = header.version => IntactAt(t)'
    BY <1>b, <2>3, <2>5 DEF IntactAt
  <2>7. taken # <<>> /\ seen \in Committed /\ seen[2] = header.version /\ Len(again) < 2 =>
          \A i \in DOMAIN taken : taken[i] = cells'[HalfOf(seen)][i]
    BY <1>c, <2>3, <2>4, <2>5, CurrentIsIntact
  <2>8. /\ step' = 1 => \A i \in 1..copied' : cells'[newHeader'.active][i] = payload'
        /\ step' > 1 => \A i \in 1..payload'.words : cells'[newHeader'.active][i] = payload'
    BY <1>0, <2>1, <2>3
  <2>9. IntactCopy' = IntactCopy
    BY <2>1 DEF IntactCopy
  <2>10. QED
    BY <1>a, <1>d, <2>1, <2>4, <2>6, <2>7, <2>8, <2>9 DEF CopyInv
<1>3. CASE StoreZeros
  <2>1. /\ step = 2 /\ step' = 3 /\ header'.version = 0
        /\ UNCHANGED <<published, cells, newHeader, copied, payload, seen, taken, again>>
    BY <1>3, ZerosAre DEF Zeros
  <2>2. /\ newHeader.version = header.version + 1 /\ header.magic = 1
    BY <2>1 DEF WriterInv
  <2>3. Committed' = Committed \cup {Unpacked(newHeader)} /\ Committed = published
    BY <2>1 DEF Committed
  <2>4. taken # <<>> => seen # Unpacked(newHeader)
    <3>1. Len(seen) >= 2 => seen[2] <= header.version
      BY <2>1, <2>2 DEF VersionInv
    <3>2. Unpacked(newHeader)[2] = header.version + 1
      BY <1>0, <2>2, UnpackedIs
    <3>3. QED
      BY <1>0, <1>f, <3>1, <3>2
  <2>5. taken # <<>> /\ seen \in Committed' => seen \in Committed /\ seen[2] # 0
    BY <2>3, <2>4, CurrentIsIntact
  <2>6. IntactCopy' = IntactCopy
    BY <2>1 DEF IntactCopy
  <2>7. QED
    BY <1>a, <1>d, <2>1, <2>5, <2>6 DEF CopyInv
<1>4. ASSUME NEW f \in DOMAIN header, StoreField(f) PROVE CopyInv'
  <2>1. /\ UNCHANGED <<cells, newHeader, copied, payload, seen, taken, again>> /\ step \in 3..7
    BY <1>4, FieldIs
  <2>2. header.version = IF step > 4 THEN newHeader.version ELSE 0
    BY <1>0, <2>1, StoredIs DEF WriterInv
  <2>3. /\ \A t \in published : t[2] < newHeader.version
        /\ Len(seen) >= 2 /\ step \in {3, 4} => seen[2] < newHeader.version
    BY <2>1 DEF VersionInv
  <2>4. IntactCopy' = IntactCopy
    BY <2>1 DEF IntactCopy
  <2>5. header'.version = header.version
          \/ (header'.version = newHeader.version /\ step \in {3, 4})
    <3>1. CASE step < 7
      <4>1. step + 1 \in 3..7 /\ header' = Stored(newHeader, step + 1)
        BY <1>4, <2>1, <3>1, FieldIs
      <4>2. header'.version = IF step + 1 > 4 THEN newHeader.version ELSE 0
        BY <1>0, <4>1, StoredIs
      <4>3. QED
        BY <2>1, <2>2, <4>2
    <3>2. CASE step = 7
      BY <1>4, <2>2, <3>2, FieldIs
    <3>3. QED
      BY <2>1, <3>1, <3>2
  <2>6. taken # <<>> /\ seen[2] = header'.version => seen[2] = header.version
    BY <1>0, <1>f, <2>3, <2>5
  <2>7. \A t \in published : t[2] = header'.version => t[2] = header.version
    BY <1>0, <1>e, <2>3, <2>5
  <2>8. CASE step < 7
    <3>1. step' = step + 1 /\ published' = published
      BY <1>4, <2>8, FieldIs
    <3>2. Committed' = Committed
      BY <2>1, <3>1 DEF Committed
    <3>3. \A t \in published : t[2] > 0 /\ t[2] = header'.version => IntactAt(t)'
      BY <1>b, <2>1, <2>7 DEF IntactAt
    <3>4. QED
      BY <1>a, <1>c, <1>d, <2>1, <2>4, <2>6, <3>1, <3>2, <3>3 DEF CopyInv
  <2>9. CASE step = 7
    <3> DEFINE u == Unpacked(newHeader)
    <3>1. step' = 0 /\ published' = published \cup {u} /\ header' = newHeader
      BY <1>4, <2>9, FieldIs
    <3>2. Committed' = Committed
      BY <2>9, <3>1 DEF Committed
    <3>3. u[2] = newHeader.version /\ newHeader.version > 0
      BY <1>0, <2>9, UnpackedIs DEF WriterInv
    <3>4. IntactAt(u)
      BY <2>9, NewIsIntact
    <3> HIDE DEF u
    <3>5. \A t \in published' : t[2] = 0 => LengthOf(t) = 0
      BY <1>0, <1>a, <3>1, <3>3
    <3>6. \A t \in published' : t[2] > 0 /\ t[2] = header'.version => IntactAt(t)
      BY <1>b, <2>7, <3>1, <3>4
    <3>7. \A t : IntactAt(t)' <=> IntactAt(t)
      BY <2>1 DEF IntactAt
    <3>8. QED
      BY <1>c, <1>d, <2>1, <2>4, <2>6, <3>1, <3>2, <3>5, <3>6, <3>7 DEF CopyInv
  <2>10. QED
    BY <2>1, <2>8, <2>9
<1>5. CASE WriterDies
  <2>1. /\ step > 0 /\ step' = 0 /\ header' = header /\ cells' = cells
        /\ published' = published /\ seen' = seen /\ taken' = taken /\ again' = again
    BY <1>5 DEF WriterDies, sharedVars, readerVars
  <2>2. Committed' \subseteq Committed
    BY <2>1 DEF Committed
  <2>3. IntactCopy' = IntactCopy /\ \A t : IntactAt(t)' <=> IntactAt(t)
    BY <2>1 DEF IntactCopy, IntactAt
  <2>4. QED
    BY <1>a, <1>b, <1>c, <1>d, <2>1, <2>2, <2>3 DEF CopyInv
<1>6. CASE Reader
  <2>1. UNCHANGED <<header, cells, step, newHeader, copied, payload, published>>
    BY <1>6, ReaderLeaves
  <2>2. Committed' = Committed /\ \A t : IntactAt(t)' <=> IntactAt(t)
    BY <2>1 DEF Committed, IntactAt
  <2>3. /\ taken' # <<>> /\ seen' \in Committed /\ seen'[2] = header.version /\ Len(again') < 2 =>
             \A i \in DOMAIN taken' : taken'[i] = cells[HalfOf(seen')][i]
        /\ taken' # <<>> /\ seen' \in Committed /\ Len(again') > 1 /\ again'[2] = seen'[2] =>
             IntactCopy'
    <3>1. CASE BeginRead
      <4>1. UNCHANGED <<seen, taken, again>>
        BY <3>1 DEF BeginRead
      <4>2. IntactCopy' = IntactCopy
        BY <4>1 DEF IntactCopy
      <4>3. QED
        BY <1>c, <1>d, <4>1, <4>2
    <3>2. CASE ReadHeader
      <4>1. taken' = taken /\ ~HeaderRead(seen)
        BY <3>2 DEF ReadHeader
      <4>2. taken = <<>>
        BY <1>f, <4>1, HeaderReadIs
      <4>3. QED
        BY <4>1, <4>2
    <3>3. CASE CopyWordOut
      <4>1. /\ taken' = Append(taken, cells[HalfOf(seen)][Len(taken) + 1])
            /\ HeaderRead(seen) /\ Len(taken) < LengthOf(seen) /\ seen' = seen /\ again' = again
        BY <3>3 DEF CopyWordOut, SeenHalf, SeenLength, LengthOf, HalfOf
      <4>2. Len(seen) > 4
        BY <1>f, <4>1, HeaderReadIs
      <4>3. LengthOf(seen) \in 0..PayloadWords
        BY <1>f, <4>2, LengthTyped DEF ReaderInv
      <4>4. again = <<>>
        BY <1>f, <4>1, <4>3
      <4>5. ASSUME seen \in Committed, seen[2] = header.version, NEW i \in DOMAIN taken'
            PROVE  taken'[i] = cells[HalfOf(seen)][i]
        <5>1. CASE i = Len(taken) + 1
          BY <1>f, <4>1, <5>1
        <5>2. CASE i # Len(taken) + 1
          <6> DEFINE w == cells[HalfOf(seen)][Len(taken) + 1]
          <6>4. w \in Pickles
            <7>1. HalfOf(seen) \in Halves
              BY <1>f, <4>2 DEF ReaderInv, HalfOf
            <7>2. Len(taken) + 1 \in 1..PayloadWords
              <8>1. Len(taken) \in Nat /\ Len(taken) < LengthOf(seen)
                BY <1>f, <4>1
              <8>2. QED
                BY <4>3, <8>1
            <7>3. QED
              BY Zenon, <1>0, <7>1, <7>2
          <6>5. taken' = Append(taken, w)
            BY <4>1
          <6> HIDE DEF w
          <6>1. i \in DOMAIN taken /\ taken'[i] = taken[i] /\ taken # <<>>
            <7>1. i \in 1..Len(taken) + 1 /\ i # Len(taken) + 1
              BY <1>f, <4>5, <5>2, <6>4, <6>5
            <7>2. i \in 1..Len(taken)
              BY <1>f, <7>1
            <7>3. QED
              BY <1>f, <6>4, <6>5, <7>2
          <6>2. Len(again) < 2
            BY <4>4
          <6>3. QED
            BY <1>c, <4>5, <6>1, <6>2
        <5>3. QED
          BY <5>1, <5>2
      <4>6. ~(Len(again') > 1)
        BY <4>1, <4>4
      <4>7. QED
        BY <4>1, <4>5, <4>6
    <3>4. CASE ReadHeaderAgain
      <4>1. /\ again' = Append(again, Unpacked(header)[Len(again) + 1]) /\ ~HeaderRead(again)
            /\ HeaderRead(seen) /\ Len(taken) = LengthOf(seen) /\ seen' = seen /\ taken' = taken
        BY <3>4 DEF ReadHeaderAgain, SeenHalf, SeenLength, LengthOf, HalfOf
      <4>2. Len(again) + 1 \in 1..5
        BY SMTT(30), <1>f, <4>1, HeaderReadIs
      <4>3. Unpacked(header)[Len(again) + 1] \in Nat /\ Unpacked(header)[2] = header.version
        BY <1>0, <4>2, FieldsTyped, UnpackedIs
      <4>4. IntactCopy' = IntactCopy
        BY <4>1 DEF IntactCopy
      <4>5. CASE Len(again) >= 2
        <5>1. again'[2] = again[2] /\ Len(again') >= 2
          BY <1>f, <4>1, <4>3, <4>5
        <5>2. QED
          BY <1>d, <1>f, <4>1, <4>4, <4>5, <5>1
      <4>6. CASE Len(again) + 1 = 2
        <5>1. again'[2] = header.version /\ Len(again') >= 2 /\ Len(again) < 2
          BY <1>f, <4>1, <4>3, <4>6
        <5>2. ASSUME taken # <<>>, seen \in Committed, header.version = seen[2]
              PROVE  IntactCopy
          <6>1. IntactAt(seen) /\ \A i \in DOMAIN taken : taken[i] = cells[HalfOf(seen)][i]
            BY <1>c, <5>1, <5>2, CurrentIsIntact
          <6>2. DOMAIN taken = 1..LengthOf(seen) /\ 1 \in DOMAIN taken
            BY <1>f, <4>1, <5>2
          <6>3. QED
            BY <4>1, <6>1, <6>2 DEF IntactAt, IntactCopy
        <5>3. QED
          BY <4>1, <4>4, <5>1, <5>2
      <4>7. CASE Len(again) + 1 < 2
        <5>1. Len(again') < 2 /\ Len(again) < 2
          BY <1>f, <4>1, <4>3, <4>7
        <5>2. QED
          BY <1>c, <4>1, <5>1
      <4>8. QED
        BY <1>f, <4>5, <4>6, <4>7
    <3>5. CASE RaiseInvalid \/ Accept \/ Retry
      <4>1. taken' = <<>>
        BY <3>5 DEF RaiseInvalid, Accept, Retry, Forget
      <4>2. QED
        BY <4>1
    <3>6. QED
      BY Zenon, <1>6, <3>1, <3>2, <3>3, <3>4, <3>5 DEF Reader
  <2>4. QED
    BY <1>a, <1>b, <2>1, <2>2, <2>3 DEF CopyInv
<1>7. CASE UNCHANGED vars
  <2>1. UNCHANGED <<header, cells, step, newHeader, copied, payload, published, seen, taken, again>>
    BY <1>7 DEF vars, sharedVars, writerVars, readerVars, writeGhosts
  <2>2. QED
    BY <2>1 DEF CopyInv, Committed, IntactAt, IntactCopy
<1>8. QED
  BY Zenon, <1>1, <1>2, <1>3, <1>4, <1>5, <1>6, <1>7 DEF Next, Writer
-----------------------------------------------------------------------------
(* The theorems. *)

\* A slot that create has made.
LEMMA SlotBegins == Init => TypeOK /\ SlotInv
<1> SUFFICES ASSUME Init PROVE TypeOK /\ SlotInv
  OBVIOUS
<1> USE BoundsAssumption, CapacityAssumption, AttemptsAssumption
<1>1. Fresh \in Headers /\ Blank \in Pickles
  BY ZerosTyped DEF Blank, Pickles
<1>2. cells \in [Halves -> [1..PayloadWords -> Pickles]]
  BY <1>1 DEF Init
<1>3. 0 \in 0..Len(WriteOrder) /\ 0 \in 0..PayloadWords /\ 0 \in 0..Attempts /\ 0 \in 0..MaxWrites
  BY Order
<1>4. TypeOK
  BY Zenon, <1>1, <1>2, <1>3 DEF Init, TypeOK
<1>5. header = Fresh /\ step = 0 /\ seen = <<>> /\ taken = <<>> /\ again = <<>> /\ wrote = 0
      /\ floor = 0 /\ payload = Blank /\ published = {Unpacked(Fresh)}
  BY DEF Init
<1>6. Fresh.version = 0 /\ Fresh.magic = 1 /\ Fresh.active = 0 /\ Fresh.length_0 = 0
  BY DEF Fresh, Zeros
<1>7. /\ Unpacked(Fresh)[2] = 0 /\ Unpacked(Fresh)[3] \in Halves
      /\ LengthOf(Unpacked(Fresh)) = 0
  BY <1>1, <1>6, UnpackedIs
<1>8. WriterInv
  BY <1>5, <1>6 DEF WriterInv, Blank
<1>9. ReaderInv
  BY <1>5 DEF ReaderInv
<1>10. RecentInv
  <2>1. \A h \in Halves, i \in 1..PayloadWords : cells[h][i] = Blank
    BY DEF Init
  <2>2. 0 \in Halves /\ 1 \in 1..PayloadWords
    BY DEF Halves
  <2>3. QED
    BY <1>5, <1>6, <2>1, <2>2 DEF RecentInv, Blank
<1>11. VersionInv
  BY <1>5, <1>6, <1>7 DEF VersionInv
<1>12. CopyInv
  BY <1>5, <1>7 DEF CopyInv
<1>13. QED
  BY <1>4, <1>8, <1>9, <1>10, <1>11, <1>12 DEF SlotInv

\* The invariant holds throughout.
LEMMA SlotHolds == Spec => [](TypeOK /\ SlotInv)
<1>1. TypeOK /\ SlotInv /\ [Next]_vars => (TypeOK /\ SlotInv)'
  <2> SUFFICES ASSUME TypeOK, SlotInv, [Next]_vars PROVE TypeOK' /\ SlotInv'
    OBVIOUS
  <2>1. WriterInv /\ ReaderInv /\ RecentInv /\ (~versionLost => VersionInv /\ CopyInv)
    BY Zenon DEF SlotInv
  <2>2. WriterTypes' /\ WriterInv'
    BY Zenon, <2>1, WriterStep
  <2>3. ReaderTypes' /\ ReaderInv'
    BY Zenon, <2>1, ReaderStep
  <2>4. TypeOK'
    BY Zenon, <2>2, <2>3 DEF TypeOK, WriterTypes, ReaderTypes
  <2>5. RecentInv'
    BY Zenon, <2>1, <2>3, RecentStep
  <2>6. ASSUME ~versionLost' PROVE VersionInv' /\ CopyInv'
    <3>1. CASE WriterDies
      <4>1. ~versionLost
        BY Zenon, <2>6, <3>1 DEF WriterDies
      <4>2. QED
        BY Zenon, <2>1, <2>6, <4>1, VersionStep, CopyStep
    <3>2. CASE ~WriterDies
      <4>1. versionLost' = versionLost
        BY Zenon, <3>2 DEF Next, Writer, BeginWrite, CopyWordIn, StoreZeros, StoreField,
           Reader,
          BeginRead, ReadHeader, CopyWordOut, ReadHeaderAgain, RaiseInvalid, Accept, Retry,
          writeGhosts, vars
      <4>2. QED
        BY Zenon, <2>1, <2>6, <4>1, VersionStep, CopyStep
    <3>3. QED
      BY Zenon, <3>1, <3>2
  <2>7. QED
    BY Zenon, <2>2, <2>3, <2>4, <2>5, <2>6 DEF SlotInv
<1>2. QED
  BY <1>1, SlotBegins, PTL DEF Spec

\* Every variable of a slot, its writer and its reader keeps its type.
THEOREM SlotTyped == Spec => []TypeOK
  BY SlotHolds, PTL

\* read_with_version loads no pickle older than the last one whose write had returned
\* when the read began, whoever died and whatever header was found.
THEOREM ReadsStayRecent == Spec => []ReadsAreRecent
<1>1. TypeOK /\ SlotInv => ReadsAreRecent
  BY Zenon DEF SlotInv, RecentInv, ReadsAreRecent, Accepting
<1>2. QED
  BY <1>1, SlotHolds, PTL

\* A copy accepted between two looks at a header stored in full is one write's whole
\* pickle, though nothing keeps the writer from writing meanwhile.
THEOREM AcceptedStaysIntact == Spec => []AcceptedIsIntact
<1>1. ASSUME TypeOK, SlotInv, Accepting, seen \in published, ~versionLost
      PROVE  IntactCopy
  <2>1. HeaderRead(again) /\ again = seen /\ taken # <<>>
    BY Zenon, <1>1 DEF Accepting
  <2>2. again \in Seq(Nat) /\ Len(again) <= 5
    BY Zenon, <1>1 DEF SlotInv, ReaderInv
  <2>3. Len(again) > 1
    BY <2>1, <2>2, HeaderReadIs
  <2>4. seen \in Committed /\ again[2] = seen[2]
    BY Zenon, <1>1, <2>1 DEF Committed
  <2>5. QED
    BY Zenon, <1>1, <2>1, <2>3, <2>4 DEF SlotInv, CopyInv
<1>2. TypeOK /\ SlotInv => AcceptedIsIntact
  BY Zenon, <1>1 DEF AcceptedIsIntact, IntactCopy
<1>3. QED
  BY <1>2, SlotHolds, PTL

=============================================================================
