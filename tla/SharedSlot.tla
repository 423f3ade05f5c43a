------------------------------ MODULE SharedSlot ------------------------------
(***************************************************************************)
(* _PickleSharedMemorySlot of yalsa/app.py: a double-buffered payload in   *)
(* memory that a writing and a reading process share without a lock.  The  *)
(* writer copies the payload to the inactive half and then stores a new    *)
(* header; the reader takes the header, copies the half it calls active,   *)
(* and accepts the copy when the header is still the same.                 *)
(*                                                                         *)
(* Nothing makes a header or a payload one access.  Struct.pack_into fills *)
(* the header with zeros (CPython's s_pack_internal) and then stores field *)
(* after field, unpack_from loads field after field, and a payload is      *)
(* copied word by word.  Each such access is a step here, the zeros are    *)
(* one, and steps of one process are seen by the other in their order.     *)
(* One process at a time writes: a slot has its second writer only after   *)
(* the first has died, at any step, or as LiveAnalysis models.             *)
(***************************************************************************)
EXTENDS Integers, Sequences

CONSTANTS
  PayloadWords,   \* the words a half holds, _payload_capacity
  Attempts,       \* range(5) in read_with_version
  MaxWrites       \* bound: calls of write

ASSUME CapacityAssumption == PayloadWords \in Nat \ {0}
ASSUME AttemptsAssumption == Attempts \in Nat \ {0}
ASSUME BoundsAssumption   == MaxWrites \in Nat

VARIABLES
  \* shared memory
  header, cells,             \* the header's fields, and the two halves, word by word
  \* the writing process
  step,                      \* steps of the write under way that are done; 0: none is
  newHeader,                      \* the header it will store
  copied,                    \* words of the payload copied so far
  payload,                   \* the pickle being written
  \* the reading process
  seen,                      \* the fields of the first header read so far
  taken,                     \* the words copied so far
  again,                     \* the fields of the second header read so far
  attempt,                   \* _attempt; 0: not reading
  failed,                    \* the last read raised after this many attempts; 0: it did not
  \* history variables
  wrote,                     \* the last write that returned
  published,                 \* the headers that were stored in full
  versionLost,               \* a writer died with the version at the zero before its store
  floor                      \* the last write that had returned when the read began

sharedVars == <<header, cells>>
writerVars == <<step, newHeader, copied, payload>>
readerVars == <<seen, taken, again, attempt, failed>>
writeGhosts == <<wrote, published, versionLost>>
vars == <<sharedVars, writerVars, readerVars, writeGhosts, floor>>

Halves == {0, 1}

\* A pickle is known by the write it was made for and its size.
Pickles == [write : 0..MaxWrites, words : 0..PayloadWords]
Blank   == [write |-> 0, words |-> 0]

\* _SHARED_SLOT_HEADER; magic is 1 for _SHARED_SLOT_MAGIC.
Fields  == <<"magic", "version", "active", "length_0", "length_1">>
Headers == [magic : {0, 1}, version : 0..MaxWrites, active : Halves,
            length_0 : 0..PayloadWords, length_1 : 0..PayloadWords]
Zeros   == [magic |-> 0, version |-> 0, active |-> 0, length_0 |-> 0, length_1 |-> 0]
Fresh   == [Zeros EXCEPT !.magic = 1]

\* A header's fields as _read_header returns them.
Unpacked(h) == <<h.magic, h.version, h.active, h.length_0, h.length_1>>

\* create
Init ==
  /\ header = Fresh
  /\ cells = [h \in Halves |-> [i \in 1..PayloadWords |-> Blank]]
  /\ step = 0
  /\ newHeader = Fresh
  /\ copied = 0
  /\ payload = Blank
  /\ seen = <<>>
  /\ taken = <<>>
  /\ again = <<>>
  /\ attempt = 0
  /\ failed = 0
  /\ wrote = 0
  /\ published = {Unpacked(Fresh)}
  /\ versionLost = FALSE
  /\ floor = 0

-----------------------------------------------------------------------------
(* write *)

\* Mutant of WriteOrder: the header is stored before the payload is copied.
WriteOrderMutant ==
  <<"zeros", "magic", "version", "active", "length_0", "length_1", "payload">>

\* The order of a write's stores.
WriteOrder ==
  <<"payload", "zeros", "magic", "version", "active", "length_0", "length_1">>

\* The write goes on to its next store, or returns.
NextStep ==
  IF step < Len(WriteOrder)
  THEN step' = step + 1 /\ UNCHANGED <<wrote, published>>
  ELSE /\ step' = 0
       /\ wrote' = payload.write
       /\ published' = published \cup {Unpacked(newHeader)}

\* Mutant of NextHeader: the next half is counted up.
NextHeaderMutant(words) ==
  [header EXCEPT !.version  = header.version + 1,
                 !.active   = header.active + 1,
                 !.length_0 = IF header.active = 1 THEN words ELSE header.length_0,
                 !.length_1 = IF header.active = 0 THEN words ELSE header.length_1]

\* Mutant of NextHeader: the half the readers are sent to is written.
SameHalfMutant(words) ==
  [header EXCEPT !.version  = header.version + 1,
                 !.length_0 = IF header.active = 0 THEN words ELSE header.length_0,
                 !.length_1 = IF header.active = 1 THEN words ELSE header.length_1]

\* The header of a payload in the inactive half.
NextHeader(words) ==
  [header EXCEPT !.version  = header.version + 1,
                 !.active   = 1 - header.active,
                 !.length_0 = IF header.active = 1 THEN words ELSE header.length_0,
                 !.length_1 = IF header.active = 0 THEN words ELSE header.length_1]

\* A payload larger than a half is a ValueError, a header without its magic a
\* RuntimeError, both before anything is stored.
BeginWrite(words) ==
  /\ step = 0
  /\ payload.write < MaxWrites
  /\ header.magic = 1
  /\ payload' = [write |-> payload.write + 1, words |-> words]
  /\ newHeader' = NextHeader(words)
  /\ copied' = 0
  /\ step' = 1
  /\ UNCHANGED <<sharedVars, readerVars, writeGhosts, floor>>

CopyWordIn ==
  /\ step > 0 /\ WriteOrder[step] = "payload"
  /\ cells' = [cells EXCEPT ![newHeader.active][copied + 1] = payload]
  /\ copied' = copied + 1
  /\ IF copied' = payload.words THEN NextStep ELSE UNCHANGED <<step, wrote, published>>
  /\ UNCHANGED <<header, newHeader, payload, readerVars, versionLost, floor>>

\* pack_into: zeros, and then the fields.
StoreZeros ==
  /\ step > 0 /\ WriteOrder[step] = "zeros"
  /\ header' = Zeros
  /\ NextStep
  /\ UNCHANGED <<cells, newHeader, copied, payload, readerVars, versionLost, floor>>

StoreField(f) ==
  /\ step > 0 /\ WriteOrder[step] = f
  /\ header' = [header EXCEPT ![f] = newHeader[f]]
  /\ NextStep
  /\ UNCHANGED <<cells, newHeader, copied, payload, readerVars, versionLost, floor>>

\* The writing process dies, and another takes its place.
WriterDies ==
  /\ step > 0
  /\ step' = 0
  /\ versionLost' = (versionLost \/ (header.magic = 1 /\ header.version < newHeader.version - 1))
  /\ UNCHANGED <<sharedVars, newHeader, copied, payload, readerVars, wrote,
                 published, floor>>

Writer == \/ \E words \in 1..PayloadWords : BeginWrite(words)
          \/ CopyWordIn \/ StoreZeros \/ \E f \in DOMAIN header : StoreField(f)

-----------------------------------------------------------------------------
(* read_with_version *)

HeaderRead(fields) == Len(fields) = Len(Fields)

SeenHalf   == seen[3]
SeenLength == seen[4 + SeenHalf]

Forget == seen' = <<>> /\ taken' = <<>> /\ again' = <<>>

\* A process attaches to a slot that was written before: run_live_analysis
\* writes all three slots before it starts its children.
BeginRead ==
  /\ attempt = 0
  /\ wrote > 0
  /\ attempt' = 1
  /\ failed' = 0
  /\ floor' = wrote
  /\ UNCHANGED <<sharedVars, writerVars, seen, taken, again, writeGhosts>>

ReadHeader ==
  /\ attempt > 0
  /\ ~HeaderRead(seen)
  /\ seen' = Append(seen, Unpacked(header)[Len(seen) + 1])
  /\ UNCHANGED <<sharedVars, writerVars, taken, again, attempt, failed, writeGhosts,
                 floor>>

\* Every active_slot and length found with the magic passes the range checks.
CopyWordOut ==
  /\ HeaderRead(seen)
  /\ seen[1] = 1
  /\ Len(taken) < SeenLength
  /\ taken' = Append(taken, cells[SeenHalf][Len(taken) + 1])
  /\ UNCHANGED <<sharedVars, writerVars, seen, again, attempt, failed, writeGhosts,
                 floor>>

ReadHeaderAgain ==
  /\ HeaderRead(seen)
  /\ seen[1] = 1
  /\ Len(taken) = SeenLength
  /\ ~HeaderRead(again)
  /\ again' = Append(again, Unpacked(header)[Len(again) + 1])
  /\ UNCHANGED <<sharedVars, writerVars, seen, taken, attempt, failed, writeGhosts,
                 floor>>

\* _read_header raises when a header, the first or the second, lacks the magic.
RaiseInvalid ==
  /\ \/ HeaderRead(seen) /\ seen[1] = 0
     \/ HeaderRead(again) /\ again[1] = 0
  /\ failed' = attempt
  /\ attempt' = 0
  /\ Forget
  /\ UNCHANGED <<sharedVars, writerVars, writeGhosts, floor>>

\* An empty payload raises, and loads nothing.
Accept ==
  /\ HeaderRead(again)
  /\ again = seen
  /\ failed' = IF taken = <<>> THEN attempt ELSE 0
  /\ attempt' = 0
  /\ Forget
  /\ UNCHANGED <<sharedVars, writerVars, writeGhosts, floor>>

\* A header that changed is another attempt, or the RuntimeError.
Retry ==
  /\ HeaderRead(again)
  /\ again[1] = 1
  /\ again # seen
  /\ IF attempt < Attempts THEN attempt' = attempt + 1 /\ UNCHANGED failed
                            ELSE attempt' = 0 /\ failed' = attempt
  /\ Forget
  /\ UNCHANGED <<sharedVars, writerVars, writeGhosts, floor>>

Reader == \/ BeginRead \/ ReadHeader \/ CopyWordOut \/ ReadHeaderAgain
          \/ RaiseInvalid \/ Accept \/ Retry

Next == Writer \/ WriterDies \/ Reader

Spec == Init /\ [][Next]_vars

-----------------------------------------------------------------------------
(* Properties *)

TypeOK ==
  /\ header \in Headers
  /\ cells \in [Halves -> [1..PayloadWords -> Pickles]]
  /\ step \in 0..Len(WriteOrder)
  /\ newHeader \in Headers
  /\ copied \in 0..PayloadWords
  /\ payload \in Pickles
  /\ attempt \in 0..Attempts
  /\ failed \in 0..Attempts
  /\ versionLost \in BOOLEAN
  /\ wrote \in 0..MaxWrites
  /\ floor \in 0..MaxWrites

\* The reader is about to accept what it copied.
Accepting == HeaderRead(again) /\ again = seen /\ taken # <<>>

\* When both looks found a header that was stored in full, the copy is one write's
\* whole pickle, in one piece, however many writes went on meanwhile and wherever a
\* writer died before: unless one died with the version at zero, which starts the
\* versions over.
AcceptedIsIntact ==
  (Accepting /\ seen \in published /\ ~versionLost) =>
    /\ Len(taken) = taken[1].words
    /\ \A i \in DOMAIN taken : taken[i] = taken[1]

\* Whatever header was found, the pickle's first word is of a write no older than
\* the last that had returned when the read began.
ReadsAreRecent == Accepting => taken[1].write >= floor

\* A slot that changed while it was being read is noticed: what a read accepts is the
\* pickle of one write, and all of it (pickle.loads ignores what follows its end).
AcceptedIsOnePickle ==
  (Accepting /\ ~versionLost) =>
    /\ Len(taken) >= taken[1].words
    /\ \A i \in 1..taken[1].words : taken[i] = taken[1]

\* A read that a write disturbs is tried again, Attempts times, before it fails.
FailsAfterAttempts == failed # 0 => failed = Attempts

=============================================================================
