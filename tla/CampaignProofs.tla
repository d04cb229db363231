--------------------------- MODULE CampaignProofs ---------------------------
(***************************************************************************)
(* Proofs about a batch of runs and about what its loaders replay:         *)
(* DrawJournal, for any source, batch size, number of sessions and, except *)
(* where stated, any failure of the power; AblationCampaign, for any arms, *)
(* seeds, readings of the gate and numbers of edits and changes.           *)
(***************************************************************************)
EXTENDS DrawJournal, AblationCampaign, TLAPS

(*                              DrawJournal                                *)

LenAt(c) == BatchAt(c).len

(* What is on disk: the chain of records and the blobs they name *)
DiskInv ==
    /\ JournalFollowsSource
    /\ \A i \in 1 .. Len(draws) :
          /\ draws[i].after <= Items
          /\ [batch |-> draws[i].batch, after |-> draws[i].after] \in blobs
    /\ draws # <<>> => genesis

(* Where __next__ stands: the memory of an open session against the disk *)
StepInv ==
    /\ phase # "open" => step = "idle"
    /\ phase = "open" =>
          /\ genesis
          /\ step # "linked" => records = draws
          /\ step = "linked" => draws = Append(records, NewRecord)
          /\ step \in {"idle", "synced"} => cursor = AfterState(records)
          /\ step \in {"drawn", "stored", "linked"} =>
                /\ AfterState(records) < Items
                /\ cursor = AfterState(records) + LenAt(AfterState(records))
          /\ step = "stored" => Stored \in blobs
          /\ step = "synced" => records # <<>>
          /\ step # "idle" => index = pending

(* What the session has delivered of its records *)
GotInv ==
    /\ IsPrefix(got, records)
    /\ phase = "open" =>
          /\ ~used \/ index < pending => pending = Len(records)
          /\ ~used => index = 0 /\ step = "idle"
          /\ step = "idle" => Len(got) = IF index < pending THEN index ELSE Len(records)
          /\ step \in {"drawn", "stored", "linked"} => Len(got) = Len(records)
          /\ step = "synced" => Len(got) = Len(records) - 1 /\ pending <= Len(got)

SeenInv == \A x \in seen : x[1] = x[2]

JInv == TypeOK /\ DiskInv /\ StepInv /\ GotInv /\ SeenInv

-----------------------------------------------------------------------------
(* A batch taken before the end of the source is not empty and stays inside it. *)
LEMMA BatchInside ==
    ASSUME NEW c \in Nat, c < Items
    PROVE  /\ LenAt(c) \in Nat \ {0}
           /\ c + LenAt(c) <= Items
           /\ BatchAt(c) = [from |-> c, len |-> LenAt(c)]
BY JournalAssumption DEF LenAt, BatchAt

(* The base state after a chain of records is inside the source, and so is the
   number of its slots, to which it is equal.                                *)
LEMMA AfterInside ==
    ASSUME TypeOK, DiskInv
    PROVE  /\ AfterState(draws) \in Nat /\ AfterState(draws) <= Items
           /\ Occurrences(draws) = AfterState(draws)
           /\ \A i \in 1 .. Len(draws) :
                 draws[i].occurrence + draws[i].batch.len = draws[i].after
<1>1. \A i \in 1 .. Len(draws) : draws[i] \in Record
  BY DEF TypeOK
<1>2. \A i \in 1 .. Len(draws) : draws[i].occurrence + draws[i].batch.len = draws[i].after
  <2> SUFFICES ASSUME NEW i \in 1 .. Len(draws)
               PROVE  draws[i].occurrence + draws[i].batch.len = draws[i].after
    OBVIOUS
  <2>1. draws[i].batch = BatchAt(draws[i].occurrence)
        /\ draws[i].after = draws[i].occurrence + BatchAt(draws[i].occurrence).len
    BY DEF DiskInv, JournalFollowsSource
  <2> QED BY <2>1
<1>3. CASE draws = <<>>
  BY <1>2, <1>3, JournalAssumption DEF AfterState, Occurrences
<1>4. CASE draws # <<>>
  <2>1. Len(draws) \in 1 .. Len(draws) /\ Last(draws) = draws[Len(draws)]
    BY <1>4 DEF TypeOK, Last
  <2> QED BY <1>1, <1>2, <1>4, <2>1 DEF AfterState, Occurrences, DiskInv, Record, Batch
<1> QED BY <1>3, <1>4

-----------------------------------------------------------------------------
(* The empty journal satisfies the invariant. *)
LEMMA InitJInv == Init => JInv
<1> SUFFICES ASSUME Init PROVE JInv
  OBVIOUS
<1>1. TypeOK
  <2>1. genesis \in BOOLEAN /\ used \in BOOLEAN
    BY DEF Init
  <2>2. draws \in Seq(Record) /\ records \in Seq(Record) /\ got \in Seq(Record)
        /\ durable \in 0 .. Len(draws) /\ pending \in 0 .. Len(records) /\ index \in 0 .. pending
        /\ sessions \in 0 .. MaxSessions /\ cursor \in 0 .. Items
    BY JournalAssumption DEF Init
  <2>3. blobs = {} /\ seen = {} /\ snaps = {} /\ phase = "none" /\ step = "idle"
    BY DEF Init
  <2> QED BY <2>1, <2>2, <2>3 DEF TypeOK
<1>2. DiskInv
  BY DEF Init, DiskInv, JournalFollowsSource
<1>3. StepInv
  BY DEF Init, StepInv
<1>4. GotInv
  BY DEF Init, GotInv, IsPrefix
<1> QED BY <1>1, <1>2, <1>3, <1>4 DEF Init, JInv, SeenInv

(* A step that leaves the disk alone leaves what is known of it alone. *)
LEMMA DiskKept ==
    ASSUME DiskInv, UNCHANGED disk
    PROVE  DiskInv'
BY DEF DiskInv, JournalFollowsSource, disk

(* Prefixes of records, element by element. *)
LEMMA PrefixAppend ==
    ASSUME NEW s \in Seq(Record), NEW t \in Seq(Record), IsPrefix(s, t), Len(s) < Len(t)
    PROVE  IsPrefix(Append(s, t[Len(s) + 1]), t)
<1>1. \A i \in 1 .. Len(s) : s[i] = t[i]
  BY DEF IsPrefix
<1> QED BY <1>1 DEF IsPrefix

(* A record delivered names each of its items by the item's own number. *)
LEMMA OwnSlots ==
    ASSUME TypeOK, DiskInv, NEW i \in 1 .. Len(draws)
    PROVE  /\ \A x \in Slots(draws[i]) : x[1] = x[2]
           /\ Slots(draws[i]) \subseteq Nat \X Nat
<1>1. draws[i] \in Record
  BY DEF TypeOK
<1>2. draws[i].batch.from = draws[i].occurrence
  <2>1. draws[i].batch = BatchAt(draws[i].occurrence)
    BY DEF DiskInv, JournalFollowsSource
  <2> QED BY <2>1 DEF BatchAt
<1> QED BY <1>1, <1>2 DEF Slots, Record, Batch

(* Opening reads the journal and places the base iterator after it. *)
LEMMA OpenStep == JInv /\ Open => JInv'
<1> SUFFICES ASSUME JInv, Open PROVE JInv'
  OBVIOUS
<1> USE DEF JInv
<1>1. AfterState(draws) \in 0 .. Items
  BY AfterInside, JournalAssumption
<1>2. TypeOK'
  <2>1. records' \in Seq(Record) /\ pending' = Len(records') /\ draws' \in Seq(Record)
        /\ durable' \in 0 .. Len(draws') /\ got' \in Seq(Record) /\ sessions' \in 0 .. MaxSessions
    BY JournalAssumption DEF TypeOK, Open
  <2>2. phase' = "open" /\ cursor' \in 0 .. Items /\ step' = "idle" /\ index' \in 0 .. pending'
    BY <1>1, <2>1 DEF Open
  <2>3. genesis' \in BOOLEAN /\ used' \in BOOLEAN
    BY DEF Open
  <2>4. blobs' = blobs /\ seen' = seen /\ snaps' = snaps
    BY DEF Open
  <2> QED BY <2>1, <2>2, <2>3, <2>4 DEF TypeOK
<1>3. DiskInv'
  BY DEF DiskInv, JournalFollowsSource, Open
<1>4. StepInv'
  BY DEF StepInv, Open, AfterState
<1>5. GotInv'
  BY DEF GotInv, Open, IsPrefix, TypeOK
<1> QED BY <1>2, <1>3, <1>4, <1>5 DEF SeenInv, Open

(* A recorded batch is delivered again in its turn. *)
LEMMA RedeliverStep == JInv /\ Redeliver => JInv'
<1> SUFFICES ASSUME JInv, Redeliver PROVE JInv'
  OBVIOUS
<1> USE DEF JInv
<1>1. records = draws /\ index + 1 \in 1 .. Len(draws) /\ Len(got) = index
  BY DEF StepInv, GotInv, Redeliver, TypeOK
<1>2. Slots(draws[index + 1]) \subseteq Nat \X Nat
      /\ \A x \in Slots(draws[index + 1]) : x[1] = x[2]
  BY <1>1, OwnSlots
<1>3. draws[index + 1] \in Record
  BY <1>1 DEF TypeOK
<1>4. TypeOK'
  BY <1>1, <1>2, <1>3 DEF TypeOK, Redeliver, disk
<1>5. DiskInv'
  BY DiskKept DEF Redeliver
<1>6. StepInv'
  BY DEF StepInv, Redeliver, disk, NewRecord, Fetched, Stored
<1>7. IsPrefix(got', records')
  <2>1. got \in Seq(Record) /\ records \in Seq(Record) /\ Len(got) < Len(records)
    BY <1>1 DEF TypeOK
  <2> QED BY <1>1, <2>1, PrefixAppend DEF GotInv, Redeliver
<1>8. GotInv'
  <2>1. step' = "idle" /\ Len(got') = index'
    BY <1>1 DEF Redeliver, TypeOK
  <2>2. pending' = Len(records') /\ used'
    BY DEF Redeliver, GotInv
  <2>3. index' <= pending' /\ index' \in Nat /\ pending' \in Nat
    BY DEF Redeliver, TypeOK
  <2> QED BY <1>7, <2>1, <2>2, <2>3 DEF GotInv
<1>9. SeenInv'
  BY <1>1, <1>2 DEF SeenInv, Redeliver
<1> QED BY <1>4, <1>5, <1>6, <1>8, <1>9

(* The base iterator moves to the end of the batch it yields. *)
LEMMA BaseNextStep == JInv /\ BaseNext => JInv'
<1> SUFFICES ASSUME JInv, BaseNext PROVE JInv'
  OBVIOUS
<1> USE DEF JInv
<1>1. records = draws /\ cursor = AfterState(records) /\ cursor \in Nat /\ cursor < Items
  BY JournalAssumption DEF StepInv, BaseNext, TypeOK
<1>2. LenAt(cursor) \in Nat \ {0} /\ cursor' = cursor + LenAt(cursor) /\ cursor' <= Items
  BY <1>1, BatchInside DEF BaseNext, LenAt
<1>3. TypeOK'
  <2>1. cursor' \in 0 .. Items
    BY <1>1, <1>2, JournalAssumption
  <2>2. used' \in BOOLEAN /\ step' \in {"drawn"}
    BY DEF BaseNext
  <2> QED BY <2>1, <2>2 DEF TypeOK, BaseNext, disk
<1>4. DiskInv'
  BY DiskKept DEF BaseNext
<1>5. StepInv'
  <2>1. index = pending
    BY DEF BaseNext, TypeOK
  <2> QED BY <1>1, <1>2, <2>1 DEF StepInv, BaseNext, disk, AfterState
<1>6. GotInv'
  BY DEF GotInv, BaseNext, TypeOK
<1> QED BY <1>3, <1>4, <1>5, <1>6 DEF SeenInv, BaseNext

(* The blobs of the batch drawn are stored. *)
LEMMA PutBlobsStep == JInv /\ PutBlobs => JInv'
<1> SUFFICES ASSUME JInv, PutBlobs PROVE JInv'
  OBVIOUS
<1> USE DEF JInv
<1>1. phase = "open" /\ records = draws
  BY DEF StepInv, PutBlobs
<1>2. AfterState(records) \in Nat /\ cursor \in Nat /\ LenAt(AfterState(records)) \in Nat
      /\ cursor = AfterState(records) + LenAt(AfterState(records))
  BY <1>1, AfterInside, BatchInside, JournalAssumption DEF StepInv, PutBlobs, TypeOK
<1>3. Stored \in [batch : Batch, after : Nat]
  BY <1>2 DEF Stored, Fetched, Batch
<1>4. TypeOK'
  BY <1>3 DEF TypeOK, PutBlobs
<1>5. DiskInv'
  BY DEF DiskInv, JournalFollowsSource, PutBlobs
<1>6. StepInv'
  BY <1>1 DEF StepInv, PutBlobs, AfterState, Stored, Fetched
<1>7. GotInv'
  BY <1>1 DEF GotInv, PutBlobs
<1> QED BY <1>4, <1>5, <1>6, <1>7 DEF SeenInv, PutBlobs

(* The record published continues the source where the last one ended. *)
LEMMA LinkRecordStep == JInv /\ LinkRecord => JInv'
<1> SUFFICES ASSUME JInv, LinkRecord PROVE JInv'
  OBVIOUS
<1> USE DEF JInv
<1> DEFINE a == AfterState(draws)
<1>1. phase = "open" /\ records = draws /\ Stored \in blobs /\ genesis
  BY DEF StepInv, LinkRecord
<1>2. a \in Nat /\ a < Items /\ Occurrences(draws) = a
  BY <1>1, AfterInside DEF StepInv, LinkRecord
<1>3. LenAt(a) \in Nat \ {0} /\ cursor = a + LenAt(a) /\ cursor <= Items /\ BatchAt(a).len = LenAt(a)
      /\ BatchAt(a) = [from |-> a, len |-> LenAt(a)]
  BY <1>1, <1>2, BatchInside DEF StepInv, LinkRecord, LenAt
<1>4. NewRecord = [batch |-> BatchAt(a), after |-> cursor, occurrence |-> a]
      /\ Fetched = BatchAt(a)
  BY <1>1, <1>2, <1>3 DEF NewRecord, Fetched
<1>5. NewRecord \in Record /\ cursor \in Nat
  BY <1>2, <1>3, <1>4 DEF Record, Batch
<1>6. draws \in Seq(Record) /\ draws' = Append(draws, NewRecord)
  BY DEF TypeOK, LinkRecord
<1>7. TypeOK'
  <2>1. draws' \in Seq(Record) /\ durable' \in 0 .. Len(draws')
    BY <1>5, <1>6 DEF TypeOK, LinkRecord
  <2> QED BY <2>1 DEF TypeOK, LinkRecord
<1>8. DiskInv'
  <2>1. \A i \in 1 .. Len(draws) : draws'[i] = draws[i]
    BY <1>6
  <2>2. Len(draws') = Len(draws) + 1 /\ draws'[Len(draws) + 1] = NewRecord
    BY <1>6
  <2>3. a = IF Len(draws) + 1 = 1 THEN 0 ELSE draws'[Len(draws) + 1 - 1].after
    BY <1>6, <2>1 DEF AfterState, Last
  <2> HIDE DEF a
  <2>4. JournalFollowsSource'
    <3> SUFFICES ASSUME NEW i \in 1 .. Len(draws')
                 PROVE  LET start == IF i = 1 THEN 0 ELSE draws'[i - 1].after
                        IN /\ draws'[i].occurrence = start
                           /\ draws'[i].batch = BatchAt(start)
                           /\ draws'[i].after = start + BatchAt(start).len
      BY DEF JournalFollowsSource, BatchAt
    <3>1. CASE i = Len(draws) + 1
      BY <1>3, <1>4, <2>2, <2>3, <3>1
    <3>2. CASE i # Len(draws) + 1
      <4>1. i \in 1 .. Len(draws) /\ (i # 1 => i - 1 \in 1 .. Len(draws))
        BY <1>6, <2>2, <3>2
      <4> QED BY <2>1, <4>1 DEF DiskInv, JournalFollowsSource
    <3> QED BY <3>1, <3>2
  <2>5. \A i \in 1 .. Len(draws') :
          /\ draws'[i].after <= Items
          /\ [batch |-> draws'[i].batch, after |-> draws'[i].after] \in blobs'
    <3>1. [batch |-> Fetched, after |-> cursor] \in blobs
      BY <1>1 DEF Stored
    <3> QED BY <1>3, <1>4, <2>1, <2>2, <1>6, <3>1 DEF DiskInv, LinkRecord
  <2> QED BY <1>1, <2>4, <2>5 DEF DiskInv, LinkRecord
<1>9. StepInv'
  BY <1>1 DEF StepInv, LinkRecord, AfterState, NewRecord, Fetched
<1>10. GotInv'
  BY <1>1 DEF GotInv, LinkRecord
<1> QED BY <1>7, <1>8, <1>9, <1>10 DEF SeenInv, LinkRecord

(* The record is in memory once its directory is synced. *)
LEMMA SyncRecordStep == JInv /\ SyncRecord => JInv'
<1> SUFFICES ASSUME JInv, SyncRecord PROVE JInv'
  OBVIOUS
<1> USE DEF JInv
<1>1. phase = "open" /\ draws = Append(records, NewRecord)
  BY DEF StepInv, SyncRecord
<1>2. records' = draws /\ draws \in Seq(Record) /\ records \in Seq(Record)
  BY <1>1 DEF SyncRecord, TypeOK
<1>3. Len(draws) = Len(records) + 1 /\ Last(draws) = NewRecord /\ draws # <<>>
  BY <1>1, <1>2 DEF Last
<1>4. TypeOK'
  BY <1>2, <1>3 DEF TypeOK, SyncRecord
<1>5. DiskInv'
  BY DEF DiskInv, JournalFollowsSource, SyncRecord
<1>6. StepInv'
  <2>1. AfterState(draws) = cursor
    BY <1>3 DEF AfterState, NewRecord
  <2> QED BY <1>1, <1>2, <1>3, <2>1 DEF StepInv, SyncRecord
<1>7. IsPrefix(got', records') /\ Len(got') = Len(records)
  <2>1. \A i \in 1 .. Len(records) : draws[i] = records[i]
    BY <1>1, <1>2
  <2>2. Len(got) = Len(records) /\ got' = got
    BY <1>1 DEF GotInv, SyncRecord
  <2>3. \A i \in 1 .. Len(got) : got[i] = records[i]
    BY DEF GotInv, IsPrefix, TypeOK
  <2> QED BY <1>2, <1>3, <2>1, <2>2, <2>3 DEF IsPrefix, TypeOK
<1>8. GotInv'
  <2>1. used' /\ ~(index' < pending') /\ pending' <= Len(records)
    BY <1>1 DEF SyncRecord, StepInv, GotInv, TypeOK
  <2> QED BY <1>2, <1>3, <1>7, <2>1 DEF GotInv, SyncRecord
<1> QED BY <1>4, <1>5, <1>6, <1>8 DEF SeenInv, SyncRecord

(* A fresh batch is delivered once it is the last record. *)
LEMMA YieldStep == JInv /\ Yield => JInv'
<1> SUFFICES ASSUME JInv, Yield PROVE JInv'
  OBVIOUS
<1> USE DEF JInv
<1>1. phase = "open" /\ records = draws /\ Len(got) = Len(records) - 1 /\ records # <<>>
  BY DEF StepInv, GotInv, Yield
<1>2. Len(draws) \in 1 .. Len(draws) /\ Last(records) = draws[Len(draws)]
      /\ Last(records) = records[Len(got) + 1]
  BY <1>1 DEF TypeOK, Last
<1>3. Slots(Last(records)) \subseteq Nat \X Nat /\ \A x \in Slots(Last(records)) : x[1] = x[2]
  BY <1>2, OwnSlots
<1>4. Last(records) \in Record
  <2>1. draws \in Seq(Record) /\ Len(draws) \in 1 .. Len(draws)
    BY <1>2 DEF TypeOK
  <2>2. draws[Len(draws)] \in Record
    BY <2>1
  <2> QED BY <1>2, <2>2
<1>5. TypeOK'
  BY <1>3, <1>4 DEF TypeOK, Yield, disk
<1>6. DiskInv'
  BY DiskKept DEF Yield
<1>7. StepInv'
  BY <1>1 DEF StepInv, Yield, disk
<1>8. IsPrefix(got', records') /\ Len(got') = Len(records')
  <2>1. IsPrefix(Append(got, records[Len(got) + 1]), records)
    BY <1>1, PrefixAppend DEF TypeOK, GotInv
  <2>2. Len(Append(got, records[Len(got) + 1])) = Len(records)
    BY <1>1 DEF TypeOK
  <2> QED BY <1>2, <2>1, <2>2 DEF Yield
<1>9. GotInv'
  <2>1. index' = pending' /\ pending' \in Nat /\ used'
    BY <1>1 DEF Yield, StepInv, GotInv, TypeOK
  <2> QED BY <1>8, <2>1 DEF GotInv, Yield
<1> QED BY <1>3, <1>5, <1>6, <1>7, <1>9 DEF SeenInv, Yield

(* Ending a session, or poisoning it, only drops what it had in memory. *)
LEMMA EndStep == JInv /\ (Raise \/ Close \/ Crash) => JInv'
<1> SUFFICES ASSUME JInv, Raise \/ Close \/ Crash PROVE JInv'
  OBVIOUS
<1> USE DEF JInv
<1>1. phase' # "open" /\ step' = "idle" /\ phase' \in {"none", "open", "poisoned"}
  BY DEF Raise, Close, Crash
<1>2. UNCHANGED <<disk, sessions, records, pending, index, used, cursor, got, seen, snaps>>
  BY DEF Raise, Close, Crash
<1>3. TypeOK'
  BY <1>1, <1>2 DEF TypeOK, disk
<1>4. DiskInv'
  BY <1>2, DiskKept
<1>5. StepInv' /\ GotInv' /\ SeenInv'
  BY <1>1, <1>2 DEF StepInv, GotInv, SeenInv
<1> QED BY <1>3, <1>4, <1>5

(* A power failure leaves a prefix of the journal. *)
LEMMA PowerStep == JInv /\ PowerFailure => JInv'
<1> SUFFICES ASSUME JInv, PowerFailure PROVE JInv'
  OBVIOUS
<1> USE DEF JInv
<1>1. PICK n \in durable .. Len(draws) : draws' = SubSeq(draws, 1, n) /\ durable' = n
  BY DEF PowerFailure
<1>2. /\ draws' \in Seq(Record) /\ Len(draws') = n /\ n <= Len(draws)
      /\ \A i \in 1 .. n : draws'[i] = draws[i]
  BY <1>1 DEF TypeOK
<1>3. TypeOK'
  <2>1. durable' \in 0 .. Len(draws')
    BY <1>1, <1>2 DEF TypeOK
  <2> QED BY <1>2, <2>1 DEF TypeOK, PowerFailure
<1>4. DiskInv'
  <2>1. JournalFollowsSource'
    BY <1>2, SMTT(30) DEF DiskInv, JournalFollowsSource, TypeOK, BatchAt
  <2>2. genesis' = genesis /\ blobs' = blobs /\ (draws' # <<>> => draws # <<>>)
    BY <1>2 DEF PowerFailure, TypeOK
  <2> QED BY <1>2, <2>1, <2>2 DEF DiskInv, TypeOK
<1>5. StepInv' /\ GotInv' /\ SeenInv'
  BY DEF PowerFailure, StepInv, GotInv, SeenInv
<1> QED BY <1>3, <1>4, <1>5

(* Snapshots are read from the journal and never move it. *)
LEMMA SnapshotStep == JInv /\ (TakeSnapshot \/ \E n \in snaps : LoadSnapshot(n)) => JInv'
<1>1. JInv /\ TakeSnapshot => JInv'
  <2> SUFFICES ASSUME JInv, TakeSnapshot PROVE JInv'
    OBVIOUS
  <2> USE DEF JInv
  <2>1. TypeOK'
    <3>1. snaps \subseteq Nat /\ Len(records) \in Nat /\ snaps' = snaps \cup {Len(records)}
      BY DEF TypeOK, TakeSnapshot
    <3>2. snaps' \subseteq Nat
      BY <3>1
    <3> QED BY <3>2, Zenon DEF TypeOK, TakeSnapshot, disk, session
  <2>2. DiskInv'
    BY DiskKept DEF TakeSnapshot
  <2> QED BY <2>1, <2>2 DEF TakeSnapshot, session, disk, StepInv, GotInv, SeenInv, Stored, NewRecord,
            Fetched
<1>2. ASSUME JInv, NEW n \in snaps, LoadSnapshot(n) PROVE JInv'
  <2> USE <1>2 DEF JInv
  <2>1. step = "idle" /\ cursor' = cursor /\ index' = index
    BY DEF LoadSnapshot, StepInv, GotInv
  <2>2. TypeOK'
    BY <2>1, Zenon DEF TypeOK, LoadSnapshot, disk
  <2>3. DiskInv'
    BY DiskKept DEF LoadSnapshot
  <2> QED BY <2>1, <2>2, <2>3 DEF LoadSnapshot, disk, StepInv, GotInv, SeenInv, Stored, NewRecord, Fetched
<1> QED BY <1>1, <1>2

(* The invariant is preserved by every step. *)
LEMMA NextJInv == JInv /\ [Next]_vars => JInv'
<1>1. JInv /\ UNCHANGED vars => JInv'
  <2> SUFFICES ASSUME JInv, UNCHANGED vars PROVE JInv'
    OBVIOUS
  <2>1. DiskInv'
    BY DiskKept DEF vars, JInv
  <2>2. TypeOK'
    BY Zenon DEF vars, disk, session, TypeOK, JInv
  <2> QED BY <2>1, <2>2 DEF JInv, vars, disk, session, StepInv, GotInv, SeenInv, Stored, NewRecord,
                             Fetched
<1> QED BY <1>1, OpenStep, RedeliverStep, BaseNextStep, PutBlobsStep, LinkRecordStep, SyncRecordStep,
           YieldStep, EndStep, PowerStep, SnapshotStep DEF Next, Drawing

-----------------------------------------------------------------------------
(* Every reachable state satisfies the invariant. *)
THEOREM JournalInvariant == Spec => []JInv
BY InitJInv, NextJInv, PTL DEF Spec

(* The journal is the source, record by record, whatever died in between. *)
THEOREM JournalIsTheSource == Spec => []JournalFollowsSource
<1>1. JInv => JournalFollowsSource
  BY DEF JInv, DiskInv
<1> QED BY <1>1, JournalInvariant, PTL

(* Identities are stable over restarts. *)
THEOREM IdentitiesAreStable == Spec => []StableIdentity
<1>1. JInv => StableIdentity
  BY DEF JInv, SeenInv, StableIdentity
<1> QED BY <1>1, JournalInvariant, PTL

(* A session redelivers the whole journal before it draws. *)
THEOREM EverythingIsRedelivered == Spec => []RedeliversAll
<1>1. JInv => RedeliversAll
  BY DEF JInv, TypeOK, StepInv, GotInv, RedeliversAll
<1> QED BY <1>1, JournalInvariant, PTL

(* The journal can always be opened again. *)
THEOREM JournalReopens == Spec => []ReopenAccepts
<1>1. JInv => ReopenAccepts
  <2> SUFFICES ASSUME JInv PROVE ScanOK
    BY DEF ReopenAccepts
  <2>1. \A i \in 1 .. Len(draws) : draws[i].occurrence = Occurrences(SubSeq(draws, 1, i - 1))
    <3> SUFFICES ASSUME NEW i \in 1 .. Len(draws)
                 PROVE  draws[i].occurrence = Occurrences(SubSeq(draws, 1, i - 1))
      OBVIOUS
    <3>1. CASE i = 1
      BY <3>1 DEF JInv, DiskInv, JournalFollowsSource, Occurrences
    <3>2. CASE i # 1
      <4>1. i - 1 \in 1 .. Len(draws) /\ draws \in Seq(Record)
        BY <3>2 DEF JInv, TypeOK
      <4>2. SubSeq(draws, 1, i - 1) # <<>> /\ Last(SubSeq(draws, 1, i - 1)) = draws[i - 1]
        BY <4>1 DEF Last
      <4>3. draws[i].occurrence = draws[i - 1].after
        BY <3>2 DEF JInv, DiskInv, JournalFollowsSource
      <4> QED BY <4>1, <4>2, <4>3, AfterInside DEF JInv, Occurrences
    <3> QED BY <3>1, <3>2
  <2> QED BY <2>1 DEF JInv, DiskInv, ScanOK
<1> QED BY <1>1, JournalInvariant, PTL

(* A snapshot is taken with every counted record linked, and records are only appended:
   but for a failure of the power, the journal never falls behind a snapshot.          *)
THEOREM SnapshotsAreAnchored == Spec => SnapshotsAnchor
<1> DEFINE Step == (\A n \in snaps : n <= Len(draws)) /\ ~PowerFailure => \A n \in snaps' : n <= Len(draws')
<1>1. JInv /\ [Next]_vars => [Step]_vars
  <2> SUFFICES ASSUME JInv, Next, ~PowerFailure, \A n \in snaps : n <= Len(draws)
               PROVE  \A n \in snaps' : n <= Len(draws')
    OBVIOUS
  <2>1. snaps \subseteq Nat /\ draws \in Seq(Record) /\ Len(draws) \in Nat
    BY DEF JInv, TypeOK
  <2>2. CASE TakeSnapshot
    <3>1. records = draws
      BY <2>2 DEF JInv, StepInv, TakeSnapshot
    <3> QED BY <2>1, <2>2, <3>1 DEF TakeSnapshot, disk
  <2>3. CASE LinkRecord
    <3>1. Len(draws') = Len(draws) + 1 /\ snaps' = snaps
      BY <2>1, <2>3 DEF LinkRecord
    <3> QED BY <2>1, <3>1
  <2>4. CASE Open \/ Redeliver \/ BaseNext \/ PutBlobs \/ SyncRecord \/ Yield
    BY <2>4 DEF Open, Redeliver, BaseNext, PutBlobs, SyncRecord, Yield, disk
  <2>5. CASE Raise \/ Close \/ Crash \/ \E n \in snaps : LoadSnapshot(n)
    BY <2>5 DEF Raise, Close, Crash, LoadSnapshot, disk
  <2> QED BY <2>2, <2>3, <2>4, <2>5 DEF Next, Drawing
<1> QED BY <1>1, JournalInvariant, PTL DEF Spec, SnapshotsAnchor

-----------------------------------------------------------------------------
(*                            AblationCampaign                             *)

(* A run that passed the gate, on the frozen inputs and GPUs *)
Fair(n) ==
    /\ runs[n].inputs = batch.freeze.inputs
    /\ Gate(runs[n].reading)
    /\ Uuids(runs[n].reading) = batch.freeze.gpus

Entries == {"stage", "inputs", "reading", "tries", "measured", "recorded"}
IsRun(x) == DOMAIN x = Entries /\ x = [k \in Entries |-> x[k]]

(* A run directory is made once, under a freeze that is never made again. *)
RunsInv ==
    /\ runs = [n \in DOMAIN runs |-> runs[n]]
    /\ \A n \in DOMAIN runs :
        /\ IsRun(runs[n])
        /\ Frozen
        /\ runs[n].tries = 1
        /\ runs[n].stage # "refused" => Fair(n)
        /\ runs[n].stage = "succeeded" => runs[n].measured \in Accuracies

(* The screen is launched after the smokes were accepted. *)
QueueInv ==
    /\ launcher \in Seq(ToSet(launcher))
    /\ ~Idle => Frozen
    /\ \A n \in DOMAIN runs \union ToSet(launcher) : n.phase = "screen" => acceptance # None

(* What was accepted is a valid smoke of every arm. *)
AcceptInv ==
    acceptance # None =>
        /\ Frozen
        /\ \A arm \in ToSet(Arms) :
              \E n \in DOMAIN acceptance : /\ n.phase = "smoke" /\ n.arm = arm /\ Earned(acceptance, n)
                                         /\ acceptance[n].recorded = acceptance[n].measured

(* What a complete report says was measured, and stays what was measured. *)
ReportInv ==
    report # None =>
        /\ report = [complete |-> report.complete, values |-> report.values, positive |-> report.positive]
        /\ report.complete =>
              /\ report.values = [n \in ToSet(Cells) |-> runs[n].measured]
              /\ \A n \in ToSet(Cells) : n \in DOMAIN runs /\ runs[n].stage = "succeeded"
        /\ report.positive = Decide(report.values)
        /\ report.complete = Complete(report.values)

CampaignInv == RunsInv /\ QueueInv /\ AcceptInv /\ ReportInv

-----------------------------------------------------------------------------
LEMMA Enumerated ==
    ASSUME NEW n \in Nat, NEW f, f = [i \in 1 .. n |-> f[i]]
    PROVE  f \in Seq(ToSet(f)) /\ Len(f) = n
<1>1. f \in [1 .. n -> ToSet(f)]
  BY DEF ToSet
<1> QED
  BY <1>1

LEMMA Listed ==
    ASSUME NEW S, NEW q \in Seq(S)
    PROVE  Len(q) \in Nat /\ DOMAIN q = 1 .. Len(q) /\ q = [i \in 1 .. Len(q) |-> q[i]]
  OBVIOUS

LEMMA TailSet ==
    ASSUME NEW S, NEW q \in Seq(S), q # <<>>
    PROVE  /\ Head(q) \in ToSet(q)
           /\ Tail(q) \in Seq(ToSet(Tail(q))) /\ ToSet(Tail(q)) \subseteq ToSet(q)
<1>1. Len(q) \in Nat \ {0} /\ DOMAIN q = 1 .. Len(q)
  OBVIOUS
<1>2. Head(q) = q[1] /\ 1 \in DOMAIN q
  BY <1>1
<1>3. /\ Len(Tail(q)) = Len(q) - 1 /\ DOMAIN Tail(q) = 1 .. (Len(q) - 1)
      /\ \A i \in 1 .. (Len(q) - 1) : Tail(q)[i] = q[i + 1]
      /\ Tail(q) = [i \in 1 .. (Len(q) - 1) |-> Tail(q)[i]]
  <2>1. Tail(q) \in Seq(S) /\ Len(Tail(q)) = Len(q) - 1
    BY <1>1
  <2> DEFINE f == Tail(q)
  <2>2. DOMAIN f = 1 .. (Len(q) - 1) /\ f = [i \in 1 .. (Len(q) - 1) |-> f[i]]
    <3>1. f \in Seq(S) /\ Len(f) = Len(q) - 1
      BY <2>1
    <3> HIDE DEF f
    <3>2. DOMAIN f = 1 .. Len(f) /\ f = [i \in 1 .. Len(f) |-> f[i]]
      BY <3>1, Listed
    <3> QED
      BY <3>1, <3>2
  <2>3. \A i \in 1 .. (Len(q) - 1) : Tail(q)[i] = q[i + 1]
    BY <1>1
  <2> QED
    BY <2>1, <2>2, <2>3
<1>4. Tail(q) \in Seq(ToSet(Tail(q)))
  <2> DEFINE n == Len(q) - 1
             f == Tail(q)
  <2>1. n \in Nat /\ f = [i \in 1 .. n |-> f[i]]
    BY <1>1, <1>3
  <2> HIDE DEF n, f
  <2>2. f \in Seq(ToSet(f))
    BY <2>1, Enumerated
  <2> QED
    BY <2>2 DEF f
<1>5. ASSUME NEW i \in 1 .. (Len(q) - 1) PROVE Tail(q)[i] \in ToSet(q)
  <2>1. i + 1 \in DOMAIN q
    BY <1>1
  <2>2. q[i + 1] \in ToSet(q)
    BY <2>1 DEF ToSet
  <2> QED
    BY <1>3, <2>2
<1>6. Head(q) \in ToSet(q)
  BY <1>2 DEF ToSet
<1>7. ToSet(Tail(q)) \subseteq ToSet(q)
  <2>1. ToSet(Tail(q)) = {Tail(q)[i] : i \in 1 .. (Len(q) - 1)}
    BY <1>3 DEF ToSet
  <2> QED
    BY <1>5, <2>1
<1> QED
  BY <1>4, <1>6, <1>7

(* Quotient and remainder of the place of a cell *)
LEMMA DivMod ==
    ASSUME NEW L \in Nat, L >= 1, NEW a \in Nat, NEW b \in 0 .. L - 1
    PROVE  (a * L + b) \div L = a /\ (a * L + b) % L = b
  OBVIOUS

(* Each arm has a cell for each seed. *)
LEMMA CellOf ==
    ASSUME NEW arm \in ToSet(Arms), NEW s \in ToSet(Seeds)
    PROVE  \E n \in ToSet(Cells) : n.arm = arm /\ n.seed = s
<1> DEFINE L == Len(Arms)
<1>1. L \in Nat /\ L >= 2 /\ Len(Seeds) \in Nat /\ DOMAIN Seeds = 1 .. Len(Seeds)
  BY CampaignAssumption
<1>2. PICK k \in 1 .. Len(Seeds) : Seeds[k] = s
  BY <1>1 DEF ToSet
<1>3. PICK m \in 1 .. L : Order[s][m] = arm
  <2>1. arm \in ToSet(Order[s]) /\ DOMAIN Order[s] = 1 .. L
    BY CampaignAssumption
  <2> QED
    BY <2>1 DEF ToSet
<1> DEFINE a == k - 1
           b == m - 1
           i == a * L + b
<1>4. a \in Nat /\ b \in 0 .. L - 1 /\ L >= 1 /\ a + 1 <= Len(Seeds)
  BY <1>1
<1> HIDE DEF a, b, L
<1>5. i \div L = a /\ i % L = b
  BY <1>1, <1>4, DivMod
<1>6. i + 1 \in 1 .. Len(Seeds) * L
  <2>1. a * L \in Nat /\ (a + 1) * L = a * L + L
    BY <1>1, <1>4
  <2>2. (a + 1) * L <= Len(Seeds) * L
    BY <1>1, <1>4
  <2> QED
    BY <1>1, <1>4, <2>1, <2>2
<1>0. i \in Nat
  BY <1>1, <1>4
<1> HIDE DEF i
<1>7. Cells[i + 1].arm = arm /\ Cells[i + 1].seed = s /\ Cells[i + 1] \in ToSet(Cells)
  <2>1. (i + 1) - 1 = i /\ 1 + a = k /\ 1 + b = m
    BY <1>0, <1>1 DEF a, b
  <2>2. i + 1 \in 1 .. Len(Seeds) * Len(Arms)
    BY <1>6 DEF L
  <2>3. /\ Cells[i + 1].arm = Order[Seeds[1 + (i \div L)]][1 + (i % L)]
        /\ Cells[i + 1].seed = Seeds[1 + (i \div L)]
    BY <2>1, <2>2 DEF Cells, L, Name
  <2>4. i + 1 \in DOMAIN Cells
    BY <2>2 DEF Cells
  <2> QED
    BY <1>2, <1>3, <1>5, <2>1, <2>3, <2>4 DEF ToSet
<1> QED
  BY <1>7

-----------------------------------------------------------------------------
(* A directory is made where there is none. *)
LEMMA PutRun ==
    ASSUME NEW n, n \notin DOMAIN runs, NEW stage, NEW r, Put(n, stage, r)
    PROVE  /\ DOMAIN runs' = DOMAIN runs \union {n}
           /\ runs'[n] = [stage |-> stage, inputs |-> inputs, reading |-> r, tries |-> 1,
                          measured |-> None, recorded |-> None]
           /\ \A m \in DOMAIN runs : runs'[m] = runs[m]
           /\ runs' = [m \in DOMAIN runs' |-> runs'[m]]
<1> DEFINE run == [stage |-> stage, inputs |-> inputs, reading |-> r, tries |-> 1,
                   measured |-> None, recorded |-> None]
<1>1. Tries(n) + 1 = 1
  BY DEF Tries
<1>2. Started(n, stage, r) = run
  BY <1>1 DEF Started
<1> HIDE DEF run
<1>3. runs' = [m \in DOMAIN runs \union {n} |-> IF m = n THEN run ELSE runs[m]]
  BY <1>2 DEF Put
<1>4. DOMAIN runs' = DOMAIN runs \union {n} /\ runs'[n] = run
  BY <1>3
<1>5. \A m \in DOMAIN runs : runs'[m] = runs[m]
  BY <1>3
<1>6. runs' = [m \in DOMAIN runs' |-> runs'[m]]
  BY <1>3
<1> QED
  BY <1>4, <1>5, <1>6 DEF run

(* What a step does to the runs *)
NewRun(n) ==
    /\ ~Idle /\ n = Due /\ n \notin DOMAIN runs /\ DOMAIN runs' = DOMAIN runs \union {n}
    /\ IsRun(runs'[n]) /\ runs'[n].tries = 1 /\ Verified
    /\ runs'[n].stage \in {"refused", "running"}
    /\ runs'[n].inputs = batch.freeze.inputs
    /\ runs'[n].stage = "running" => /\ Gate(runs'[n].reading)
                                     /\ Uuids(runs'[n].reading) = batch.freeze.gpus
    /\ \A m \in DOMAIN runs : runs'[m] = runs[m]

SameRun(m) ==
    /\ IsRun(runs'[m]) /\ runs'[m].tries = runs[m].tries
    /\ runs'[m].inputs = runs[m].inputs /\ runs'[m].reading = runs[m].reading
    /\ runs'[m].stage = "refused" <=> runs[m].stage = "refused"
    /\ runs[m].stage = "succeeded" => /\ runs'[m].stage = "succeeded"
                                      /\ runs'[m].measured = runs[m].measured
    /\ runs'[m].stage = "succeeded" /\ runs[m].stage # "succeeded" => runs'[m].measured \in Accuracies

LEMMA RunsStep ==
    ASSUME RunsInv, [CampaignNext]_campaignVars
    PROVE  /\ runs' = [m \in DOMAIN runs' |-> runs'[m]]
           /\ \/ \E n : NewRun(n)
              \/ DOMAIN runs' = DOMAIN runs /\ \A m \in DOMAIN runs : SameRun(m)
<1> DEFINE Goal == /\ runs' = [m \in DOMAIN runs' |-> runs'[m]]
                   /\ \/ \E n : NewRun(n)
                      \/ DOMAIN runs' = DOMAIN runs /\ \A m \in DOMAIN runs : SameRun(m)
<1>1. ASSUME runs' = runs PROVE Goal
  BY <1>1 DEF RunsInv, SameRun
<1>2. ASSUME NEW r \in Readings, Begin(r) PROVE Goal
  <2>1. CASE runs' = runs
    BY <1>1, <2>1
  <2>2. CASE Put(Due, "refused", r) /\ ~Occupied(Due) /\ Verified
    <3> DEFINE run == [stage |-> "refused", inputs |-> inputs, reading |-> r, tries |-> 1,
                       measured |-> None, recorded |-> None]
    <3>1. Due \notin DOMAIN runs /\ ~Idle
      BY <1>2, <2>2 DEF Begin, Occupied
    <3>2. /\ DOMAIN runs' = DOMAIN runs \union {Due} /\ runs'[Due] = run
          /\ \A m \in DOMAIN runs : runs'[m] = runs[m]
          /\ runs' = [m \in DOMAIN runs' |-> runs'[m]]
      BY <2>2, <3>1, PutRun
    <3>3. /\ IsRun(run) /\ run.tries = 1 /\ run.stage = "refused" /\ run.inputs = inputs
          /\ run.reading = r
      BY DEF IsRun, Entries
    <3> HIDE DEF run
    <3>4. NewRun(Due)
      BY <2>2, <3>1, <3>2, <3>3 DEF NewRun, Verified
    <3> QED
      BY <3>2, <3>4
  <2>3. CASE /\ Put(Due, "running", r) /\ ~Occupied(Due) /\ Verified
             /\ Gate(r) /\ Uuids(r) = batch.freeze.gpus
    <3> DEFINE run == [stage |-> "running", inputs |-> inputs, reading |-> r, tries |-> 1,
                       measured |-> None, recorded |-> None]
    <3>1. Due \notin DOMAIN runs /\ ~Idle
      BY <1>2, <2>3 DEF Begin, Occupied
    <3>2. /\ DOMAIN runs' = DOMAIN runs \union {Due} /\ runs'[Due] = run
          /\ \A m \in DOMAIN runs : runs'[m] = runs[m]
          /\ runs' = [m \in DOMAIN runs' |-> runs'[m]]
      BY <2>3, <3>1, PutRun
    <3>3. /\ IsRun(run) /\ run.tries = 1 /\ run.stage = "running" /\ run.inputs = inputs
          /\ run.reading = r
      BY DEF IsRun, Entries
    <3> HIDE DEF run
    <3>4. NewRun(Due)
      BY <2>3, <3>1, <3>2, <3>3 DEF NewRun, Verified
    <3> QED
      BY <3>2, <3>4
  <2> QED
    BY <1>2, <2>1, <2>2, <2>3 DEF Begin
<1>3. ASSUME NEW n \in DOMAIN runs, NEW x, IsRun(x), runs' = [runs EXCEPT ![n] = x],
             x.tries = runs[n].tries, x.inputs = runs[n].inputs, x.reading = runs[n].reading,
             x.stage = "refused" <=> runs[n].stage = "refused",
             runs[n].stage = "succeeded" => x.stage = "succeeded" /\ x.measured = runs[n].measured,
             x.stage = "succeeded" /\ runs[n].stage # "succeeded" => x.measured \in Accuracies
      PROVE  Goal
  <2>1. DOMAIN runs' = DOMAIN runs /\ runs'[n] = x /\ \A m \in DOMAIN runs \ {n} : runs'[m] = runs[m]
    BY <1>3
  <2>2. SameRun(n)
    BY <1>3, <2>1 DEF SameRun
  <2>3. ASSUME NEW m \in DOMAIN runs \ {n} PROVE SameRun(m)
    BY <2>1, <2>3 DEF SameRun, RunsInv
  <2>4. runs' = [m \in DOMAIN runs' |-> runs'[m]]
    BY <1>3
  <2> QED
    BY <2>1, <2>2, <2>3, <2>4
<1>4. ASSUME NEW correct \in Accuracies, Succeed(correct) PROVE Goal
  <2> DEFINE x == [runs[Due] EXCEPT !.stage = "succeeded", !.measured = correct, !.recorded = correct]
  <2>1. Due \in DOMAIN runs /\ runs[Due].stage = "running" /\ IsRun(runs[Due])
    BY <1>4 DEF Succeed, Underway, RunsInv
  <2>2. runs' = [runs EXCEPT ![Due] = x]
    BY <1>4, <2>1 DEF Succeed
  <2>3. /\ IsRun(x) /\ x.tries = runs[Due].tries /\ x.inputs = runs[Due].inputs
        /\ x.reading = runs[Due].reading /\ x.stage = "succeeded" /\ x.measured = correct
    BY <2>1 DEF IsRun, Entries
  <2> HIDE DEF x
  <2> QED
    BY <1>3, <2>1, <2>2, <2>3
<1>5. ASSUME NEW stage \in {"failed", "abandoned"}, Fail(stage) PROVE Goal
  <2> DEFINE x == [runs[Due] EXCEPT !.stage = stage]
  <2>1. Due \in DOMAIN runs /\ runs[Due].stage = "running" /\ IsRun(runs[Due])
    BY <1>5 DEF Fail, Underway, RunsInv
  <2>2. runs' = [runs EXCEPT ![Due] = x]
    BY <1>5, <2>1 DEF Fail
  <2>3. /\ IsRun(x) /\ x.tries = runs[Due].tries /\ x.inputs = runs[Due].inputs
        /\ x.reading = runs[Due].reading /\ x.stage = stage
    BY <2>1 DEF IsRun, Entries
  <2> HIDE DEF x
  <2> QED
    BY <1>3, <2>1, <2>2, <2>3
<1>6. ASSUME NEW n \in DOMAIN runs, NEW correct \in Accuracies, Change(n, correct) PROVE Goal
  <2> DEFINE x == [runs[n] EXCEPT !.recorded = correct]
  <2>1. runs[n].stage = "succeeded" /\ IsRun(runs[n])
    BY <1>6 DEF Change, RunsInv
  <2>2. runs' = [runs EXCEPT ![n] = x]
    BY <1>6 DEF Change
  <2>3. /\ IsRun(x) /\ x.tries = runs[n].tries /\ x.inputs = runs[n].inputs
        /\ x.reading = runs[n].reading /\ x.stage = "succeeded" /\ x.measured = runs[n].measured
    BY <2>1 DEF IsRun, Entries
  <2> HIDE DEF x
  <2> QED
    BY <1>3, <2>1, <2>2, <2>3
<1>7. ASSUME \/ \E r \in Readings : Prepare(r)
             \/ Smoke \/ Screen \/ Confirmation \/ Accept \/ Analyze
             \/ \E v \in Inputs : Edit(v)
             \/ \E arm \in ToSet(Arms) \ {Oracle, Reference} : Plan(arm)
             \/ UNCHANGED campaignVars
      PROVE  runs' = runs
  BY <1>7 DEF Prepare, Smoke, Screen, Confirmation, Launch, Accept, Analyze, Edit, Plan, campaignVars
<1> QED
  BY <1>1, <1>2, <1>4, <1>5, <1>6, <1>7 DEF CampaignNext

(* The freeze and the acceptance are made once. *)
LEMMA MadeOnce ==
    ASSUME [CampaignNext]_campaignVars
    PROVE  /\ Frozen => batch' = batch
           /\ acceptance # None => acceptance' = acceptance
           /\ \/ acceptance' = acceptance
              \/ /\ Frozen /\ acceptance' = runs /\ runs' = runs
                 /\ \A arm \in ToSet(Arms) : Accepted(arm)
<1>1. ASSUME NEW r \in Readings, Prepare(r)
      PROVE  ~Frozen /\ acceptance' = acceptance
  BY <1>1 DEF Prepare, Frozen
<1>2. ASSUME Accept
      PROVE  /\ batch' = batch /\ acceptance = None /\ Frozen /\ acceptance' = runs /\ runs' = runs
             /\ \A arm \in ToSet(Arms) : Accepted(arm)
  BY <1>2 DEF Accept, Verified
<1>3. ASSUME \/ \E r \in Readings : Begin(r)
             \/ Smoke \/ Screen \/ Confirmation \/ Analyze
             \/ \E correct \in Accuracies : Succeed(correct)
             \/ \E stage \in {"failed", "abandoned"} : Fail(stage)
             \/ \E v \in Inputs : Edit(v)
             \/ \E n \in DOMAIN runs, correct \in Accuracies : Change(n, correct)
             \/ \E arm \in ToSet(Arms) \ {Oracle, Reference} : Plan(arm)
             \/ UNCHANGED campaignVars
      PROVE  batch' = batch /\ acceptance' = acceptance
  BY <1>3 DEF Begin, Smoke, Screen, Confirmation, Launch, Analyze, Succeed, Fail, Edit, Change, Plan, campaignVars
<1> QED
  BY <1>1, <1>2, <1>3 DEF CampaignNext

(* The runs that a launcher makes *)
Launched(queue) == Frozen /\ launcher' = queue /\ runs' = runs

LEMMA LauncherStep ==
    ASSUME [CampaignNext]_campaignVars
    PROVE  \/ launcher' = launcher
           \/ launcher' = <<>>
           \/ ~Idle /\ launcher' = Tail(launcher)
           \/ \E queue : /\ Launched(queue) /\ queue \in Seq(ToSet(queue))
                         /\ \A n \in ToSet(queue) : n.phase = "screen" => acceptance # None
<1> DEFINE Goal == \/ launcher' = launcher
                   \/ launcher' = <<>>
                   \/ ~Idle /\ launcher' = Tail(launcher)
                   \/ \E queue : /\ Launched(queue) /\ queue \in Seq(ToSet(queue))
                                 /\ \A n \in ToSet(queue) : n.phase = "screen" => acceptance # None
<1>1. ASSUME \/ \E r \in Readings : Prepare(r) \/ Begin(r)
             \/ \E correct \in Accuracies : Succeed(correct)
             \/ \E stage \in {"failed", "abandoned"} : Fail(stage)
             \/ Accept \/ Analyze
             \/ \E v \in Inputs : Edit(v)
             \/ \E n \in DOMAIN runs, correct \in Accuracies : Change(n, correct)
             \/ \E arm \in ToSet(Arms) \ {Oracle, Reference} : Plan(arm)
             \/ UNCHANGED campaignVars
      PROVE  Goal
  BY <1>1 DEF Prepare, Begin, Stop, Succeed, Underway, Fail, Accept, Analyze, Edit, Change, Plan, campaignVars
<1>2. ASSUME NEW N \in Nat, NEW queue, queue = [i \in 1 .. N |-> queue[i]], Launch(queue),
             \A i \in 1 .. N : queue[i].phase = "screen" => acceptance # None
      PROVE  Goal
  <2>1. queue \in Seq(ToSet(queue)) /\ ToSet(queue) = {queue[i] : i \in 1 .. N}
    <3>1. DOMAIN queue = 1 .. N
      BY <1>2
    <3> QED
      BY <1>2, <3>1, Enumerated DEF ToSet
  <2>2. Launched(queue)
    BY <1>2 DEF Launch, Launched, Verified
  <2> QED
    BY <1>2, <2>1, <2>2
<1>3. Len(Arms) \in Nat /\ Len(Seeds) \in Nat /\ Len(Confirm) \in Nat
  BY CampaignAssumption
<1>4. ASSUME Smoke PROVE Goal
  <2>1. CASE Launch(Smokes)
    <3>1. /\ Smokes = [i \in 1 .. Len(Arms) |-> Smokes[i]]
          /\ \A i \in 1 .. Len(Arms) : Smokes[i].phase = "smoke"
      BY DEF Smokes, Name
    <3> QED
      BY <1>2, <1>3, <2>1, <3>1
  <2>2. ASSUME NEW arm, Launch(<<Name("smoke", 0, arm, SmokeSeed)>>) PROVE Goal
    <3> DEFINE queue == <<Name("smoke", 0, arm, SmokeSeed)>>
    <3>1. queue = [i \in 1 .. 1 |-> queue[i]] /\ queue[1].phase = "smoke"
      BY DEF Name
    <3>2. 1 \in Nat /\ Launch(queue)
      BY <2>2
    <3> HIDE DEF queue
    <3> QED
      BY <1>2, <3>1, <3>2
  <2> QED
    BY <1>4, <2>1, <2>2 DEF Smoke
<1>5. ASSUME Screen PROVE Goal
  <2>1. Cells = [i \in 1 .. Len(Seeds) * Len(Arms) |-> Cells[i]] /\ Len(Seeds) * Len(Arms) \in Nat
    BY <1>3 DEF Cells
  <2> QED
    BY <1>2, <1>5, <2>1 DEF Screen
<1>6. ASSUME Confirmation PROVE Goal
  <2> DEFINE Pair(i) == Name("confirm", i - 1, IF (i % 4) \in {1, 0} THEN Reference ELSE plan.candidate,
                             Confirm[1 + ((i - 1) \div 2)])
             queue == [i \in 1 .. 2 * Len(Confirm) |-> Pair(i)]
  <2>1. /\ queue = [i \in 1 .. 2 * Len(Confirm) |-> queue[i]]
        /\ \A i \in 1 .. 2 * Len(Confirm) : queue[i].phase = "confirm"
    BY DEF Name
  <2>2. Launch(queue) /\ 2 * Len(Confirm) \in Nat
    BY <1>3, <1>6 DEF Confirmation
  <2> HIDE DEF queue
  <2> QED
    BY <1>2, <2>1, <2>2
<1> QED
  BY <1>1, <1>4, <1>5, <1>6 DEF CampaignNext

-----------------------------------------------------------------------------
LEMMA InitCampaign ==
    ASSUME CampaignInit PROVE CampaignInv
<1>1. DOMAIN runs = {} /\ runs = [n \in DOMAIN runs |-> runs[n]] /\ ToSet(launcher) = {}
  BY DEF CampaignInit, ToSet
<1>2. launcher \in Seq(ToSet(launcher)) /\ Idle
  BY DEF CampaignInit, Idle
<1> QED
  BY <1>1, <1>2 DEF CampaignInit, CampaignInv, RunsInv, QueueInv, AcceptInv, ReportInv

LEMMA RunsKept ==
    ASSUME CampaignInv, [CampaignNext]_campaignVars PROVE RunsInv'
<1> USE DEF CampaignInv
<1>1. runs' = [m \in DOMAIN runs' |-> runs'[m]]
  BY RunsStep
<1>2. ASSUME NEW n, NewRun(n) PROVE RunsInv'
  <2>1. batch' = batch /\ Frozen
    BY <1>2, MadeOnce DEF NewRun, Verified
  <2>2. IsRun(runs'[n]) /\ runs'[n].tries = 1 /\ runs'[n].stage # "succeeded"
    BY <1>2 DEF NewRun
  <2>3. runs'[n].stage # "refused" => Fair(n)'
    BY <1>2, <2>1 DEF NewRun, Fair
  <2>4. ASSUME NEW m \in DOMAIN runs
        PROVE  /\ IsRun(runs'[m]) /\ runs'[m].tries = 1
               /\ runs'[m].stage # "refused" => Fair(m)'
               /\ runs'[m].stage = "succeeded" => runs'[m].measured \in Accuracies
    BY <1>2, <2>1, <2>4 DEF NewRun, RunsInv, Fair
  <2>5. DOMAIN runs' = DOMAIN runs \union {n} /\ Frozen'
    BY <1>2, <2>1 DEF NewRun, Frozen
  <2> QED
    BY <1>1, <2>2, <2>3, <2>4, <2>5 DEF RunsInv
<1>3. ASSUME DOMAIN runs' = DOMAIN runs, \A m \in DOMAIN runs : SameRun(m) PROVE RunsInv'
  <2>1. ASSUME NEW m \in DOMAIN runs
        PROVE  /\ IsRun(runs'[m]) /\ runs'[m].tries = 1 /\ Frozen'
               /\ runs'[m].stage # "refused" => Fair(m)'
               /\ runs'[m].stage = "succeeded" => runs'[m].measured \in Accuracies
    <3>1. Frozen /\ batch' = batch
      BY <2>1, MadeOnce DEF RunsInv
    <3>2. SameRun(m)
      BY <1>3, <2>1
    <3> QED
      BY <2>1, <3>1, <3>2 DEF SameRun, RunsInv, Fair, Frozen
  <2> QED
    BY <1>1, <1>3, <2>1 DEF RunsInv
<1> QED
  BY <1>2, <1>3, RunsStep

LEMMA QueueKept ==
    ASSUME CampaignInv, [CampaignNext]_campaignVars PROVE QueueInv'
<1> USE DEF CampaignInv
<1>1. acceptance # None => acceptance' = acceptance
  BY MadeOnce
<1>2. ~Idle => ToSet(launcher) # {} /\ Due \in ToSet(launcher)
  BY TailSet DEF QueueInv, Idle, Due
<1>3. DOMAIN runs' \subseteq DOMAIN runs \union ToSet(launcher)
  BY <1>2, RunsStep DEF NewRun
<1>4. \A n \in DOMAIN runs' : n.phase = "screen" => acceptance' # None
  BY <1>1, <1>3 DEF QueueInv
<1>5. CASE launcher' = launcher
  <2>1. ~Idle' => Frozen'
    BY <1>5, MadeOnce DEF QueueInv, Idle, Frozen
  <2> QED
    BY <1>1, <1>4, <1>5, <2>1 DEF QueueInv
<1>6. CASE launcher' = <<>>
  <2>1. ToSet(<<>>) = {} /\ <<>> \in Seq({})
    BY DEF ToSet
  <2> QED
    BY <1>4, <1>6, <2>1 DEF QueueInv, Idle
<1>7. CASE ~Idle /\ launcher' = Tail(launcher)
  <2>1. launcher' \in Seq(ToSet(launcher')) /\ ToSet(launcher') \subseteq ToSet(launcher)
    BY <1>7, TailSet DEF QueueInv, Idle
  <2>2. Frozen'
    BY <1>7, MadeOnce DEF QueueInv, Frozen
  <2> QED
    BY <1>1, <1>4, <2>1, <2>2 DEF QueueInv
<1>8. ASSUME NEW queue, Launched(queue), queue \in Seq(ToSet(queue)),
             \A n \in ToSet(queue) : n.phase = "screen" => acceptance # None
      PROVE  QueueInv'
  <2>1. Frozen'
    BY <1>8, MadeOnce DEF Launched, Frozen
  <2> QED
    BY <1>1, <1>4, <1>8, <2>1 DEF QueueInv, Launched
<1> QED
  BY <1>5, <1>6, <1>7, <1>8, LauncherStep

LEMMA AcceptKept ==
    ASSUME CampaignInv, [CampaignNext]_campaignVars PROVE AcceptInv'
<1> USE DEF CampaignInv
<1>1. CASE acceptance' = acceptance
  <2>1. SUFFICES ASSUME acceptance # None PROVE AcceptInv'
    BY <1>1 DEF AcceptInv
  <2>2. batch' = batch
    BY <2>1, MadeOnce DEF AcceptInv
  <2> QED
    BY <1>1, <2>2 DEF AcceptInv, Earned, Frozen
<1>2. CASE /\ Frozen /\ acceptance' = runs /\ runs' = runs
           /\ \A arm \in ToSet(Arms) : Accepted(arm)
  <2>1. batch' = batch /\ Frozen'
    BY <1>2, MadeOnce DEF Frozen
  <2>2. ASSUME NEW arm \in ToSet(Arms)
        PROVE  \E n \in DOMAIN runs : /\ n.phase = "smoke" /\ n.arm = arm /\ Earned(runs, n)
                                      /\ runs[n].recorded = runs[n].measured
    <3>1. PICK n \in DOMAIN runs : n.phase = "smoke" /\ n.arm = arm /\ Valid(n)
      BY <1>2, <2>2 DEF Accepted, SmokesOf
    <3>2. Earned(runs, n) /\ runs[n].recorded = runs[n].measured
      BY <3>1 DEF Valid, Unchanged, RunsInv, Fair, Earned
    <3> QED
      BY <3>1, <3>2
  <2> QED
    BY <1>2, <2>1, <2>2 DEF AcceptInv, Earned
<1> QED
  BY <1>1, <1>2, MadeOnce

LEMMA ReportKept ==
    ASSUME CampaignInv, [CampaignNext]_campaignVars PROVE ReportInv'
<1> USE DEF CampaignInv
<1>1. CASE report' = report
  <2> SUFFICES ASSUME report # None PROVE ReportInv'
    BY <1>1 DEF ReportInv
  <2>1. ASSUME report.complete
        PROVE  /\ report.values = [n \in ToSet(Cells) |-> runs'[n].measured]
               /\ \A n \in ToSet(Cells) : n \in DOMAIN runs' /\ runs'[n].stage = "succeeded"
    <3>1. ASSUME NEW n \in ToSet(Cells)
          PROVE  n \in DOMAIN runs' /\ runs'[n].stage = "succeeded" /\ runs'[n].measured = runs[n].measured
      <4>1. n \in DOMAIN runs /\ runs[n].stage = "succeeded"
        BY <2>1, <3>1 DEF ReportInv
      <4> QED
        BY <4>1, RunsStep DEF NewRun, SameRun
    <3> QED
      BY <2>1, <3>1 DEF ReportInv
  <2> QED
    BY <1>1, <2>1 DEF ReportInv
<1>2. CASE report' # report
  <2>1. Analyze
    BY <1>2 DEF CampaignNext, Prepare, Begin, Smoke, Screen, Confirmation, Launch, Succeed, Fail, Accept, Edit,
       Change, Plan, campaignVars
  <2>2. /\ report' = [complete |-> Complete(Values), values |-> Values, positive |-> Decide(Values)]
        /\ runs' = runs
    BY <2>1 DEF Analyze
  <2>3. /\ report'.complete = Complete(Values) /\ report'.values = Values
        /\ report'.positive = Decide(Values)
    BY <2>2
  <2>4. ASSUME Complete(Values)
        PROVE  /\ Values = [n \in ToSet(Cells) |-> runs[n].measured]
               /\ \A n \in ToSet(Cells) : n \in DOMAIN runs /\ runs[n].stage = "succeeded"
    <3>1. {m \in ToSet(Cells) : Valid(m)} = ToSet(Cells)
      BY <2>4 DEF Complete, Values
    <3>2. \A n \in ToSet(Cells) : /\ n \in DOMAIN runs /\ runs[n].stage = "succeeded"
                                  /\ runs[n].recorded = runs[n].measured
      BY <3>1 DEF Valid, Unchanged
    <3> QED
      BY <3>1, <3>2 DEF Values
  <2> HIDE DEF Values
  <2> QED
    BY <2>2, <2>3, <2>4 DEF ReportInv
<1> QED
  BY <1>1, <1>2

-----------------------------------------------------------------------------
(* The inductive invariant of a batch *)
THEOREM CampaignInvariant == CampaignSpec => []CampaignInv
<1>1. CampaignInit => CampaignInv
  BY InitCampaign
<1>2. CampaignInv /\ [CampaignNext]_campaignVars => CampaignInv'
  BY RunsKept, QueueKept, AcceptKept, ReportKept DEF CampaignInv
<1> QED
  BY <1>1, <1>2, PTL DEF CampaignSpec

(* The values of a complete screen, arm by arm and seed by seed *)
LEMMA ValuesMeasured ==
    ASSUME NEW values, values = [n \in ToSet(Cells) |-> runs[n].measured],
           NEW arm \in ToSet(Arms), NEW other \in ToSet(Arms)
    PROVE  Difference(values, arm, other) = Ahead(arm, other)
<1>1. DOMAIN values = ToSet(Cells)
  OBVIOUS
<1>2. ASSUME NEW a \in ToSet(Arms), NEW s \in ToSet(Seeds)
      PROVE  values[CHOOSE n \in DOMAIN values : n.arm = a /\ n.seed = s] = Measured(a, s)
  <2> DEFINE cell == CHOOSE n \in ToSet(Cells) : n.arm = a /\ n.seed = s
  <2>1. cell \in ToSet(Cells)
    BY CellOf
  <2> QED
    BY <1>1, <2>1 DEF Measured
<1> DEFINE Value(a, s) == values[CHOOSE n \in DOMAIN values : n.arm = a /\ n.seed = s]
<1>3. Difference(values, arm, other) = [s \in ToSet(Seeds) |-> Value(arm, s) - Value(other, s)]
  BY DEF Difference
<1>4. \A s \in ToSet(Seeds) : Value(arm, s) = Measured(arm, s) /\ Value(other, s) = Measured(other, s)
  BY <1>2
<1> HIDE DEF Value
<1> QED
  BY <1>3, <1>4 DEF Ahead

LEMMA MeasuredInt ==
    ASSUME RunsInv, \A n \in ToSet(Cells) : n \in DOMAIN runs /\ runs[n].stage = "succeeded",
           NEW a \in ToSet(Arms), NEW s \in ToSet(Seeds)
    PROVE  Measured(a, s) \in Int
<1> DEFINE cell == CHOOSE n \in ToSet(Cells) : n.arm = a /\ n.seed = s
<1>1. cell \in ToSet(Cells)
  BY CellOf
<1>2. runs[cell].measured \in Accuracies
  BY <1>1 DEF RunsInv
<1> QED
  BY <1>2, CampaignAssumption DEF Measured

(* A complete report of the screen rests on one fair run of every cell and one fair
   smoke of every arm, and says what they measured.                            *)
THEOREM ReportEarned == CampaignSpec => []ReportIsEarned
<1>1. CampaignInv => ReportIsEarned
  <2> SUFFICES ASSUME CampaignInv, report # None, report.complete PROVE ReportIsEarned
    BY DEF ReportIsEarned
  <2>1. /\ report.values = [n \in ToSet(Cells) |-> runs[n].measured]
        /\ \A n \in ToSet(Cells) : n \in DOMAIN runs /\ runs[n].stage = "succeeded"
        /\ report.positive = Decide(report.values)
    BY DEF CampaignInv, ReportInv
  <2>2. ASSUME NEW n \in ToSet(Cells) PROVE Earned(runs, n) /\ report.values[n] = runs[n].measured
    BY <2>1 DEF Earned, CampaignInv, RunsInv, Fair
  <2>3. Oracle \in ToSet(Arms) /\ Reference \in ToSet(Arms) /\ ToSet(Seeds) # {}
    <3>1. 1 \in DOMAIN Arms /\ 2 \in DOMAIN Arms /\ 1 \in DOMAIN Seeds
      BY CampaignAssumption
    <3> QED
      BY <3>1, CampaignAssumption DEF ToSet
  <2>4. acceptance # None
    <3>1. PICK s \in ToSet(Seeds) : TRUE
      BY <2>3
    <3>2. PICK n \in ToSet(Cells) : n.arm = Oracle
      BY <2>3, CellOf
    <3>3. n.phase = "screen"
      BY <3>2 DEF Cells, Name, ToSet
    <3> QED
      BY <2>1, <3>2, <3>3 DEF CampaignInv, QueueInv
  <2>5. ASSUME NEW arm \in report.positive
        PROVE  /\ \A s \in ToSet(Seeds) : Measured(arm, s) > Measured(Reference, s)
               /\ Total(Ahead(arm, Reference)) >= 2 * Len(Seeds)
               /\ Total(Ahead(Reference, Oracle)) < 0
    <3> DEFINE values == report.values
    <3>1. /\ arm \in ToSet(Arms) /\ Positive(values, arm)
          /\ Total(Difference(values, Reference, Oracle)) < 0
      BY <2>1, <2>5 DEF Decide
    <3>2. /\ Difference(values, arm, Reference) = Ahead(arm, Reference)
          /\ Difference(values, Reference, Oracle) = Ahead(Reference, Oracle)
      BY <2>1, <2>3, <3>1, ValuesMeasured
    <3>3. /\ \A s \in ToSet(Seeds) : Ahead(arm, Reference)[s] > 0
          /\ Total(Ahead(arm, Reference)) >= 2 * Len(Seeds)
      BY <3>1, <3>2 DEF Positive
    <3>4. ASSUME NEW s \in ToSet(Seeds) PROVE Measured(arm, s) > Measured(Reference, s)
      <4>1. Measured(arm, s) \in Int /\ Measured(Reference, s) \in Int
        BY <2>1, <2>3, <3>1, MeasuredInt DEF CampaignInv
      <4>2. Measured(arm, s) - Measured(Reference, s) > 0
        BY <3>3 DEF Ahead
      <4> QED
        BY <4>1, <4>2
    <3> QED
      BY <3>1, <3>2, <3>3, <3>4
  <2> QED
    BY <2>1, <2>2, <2>4, <2>5 DEF ReportIsEarned, CampaignInv, AcceptInv
<1> QED
  BY <1>1, CampaignInvariant, PTL

(* Analyzing again what was complete gives the same report, or one that is not. *)
THEOREM CompleteReportsAgree == CampaignSpec => ReportsAgree
<1> DEFINE Step == report # None /\ report.complete /\ report'.complete => report' = report
<1>1. CampaignInv /\ CampaignInv' /\ [CampaignNext]_campaignVars => [Step]_report
  <2> SUFFICES ASSUME CampaignInv, CampaignInv', [CampaignNext]_campaignVars, report' # report,
                      report # None, report.complete, report'.complete
               PROVE  report' = report
    OBVIOUS
  <2>1. Analyze
    BY DEF CampaignNext, Prepare, Begin, Smoke, Screen, Confirmation, Launch, Succeed, Fail, Accept, Edit,
       Change, Plan, campaignVars
  <2>2. /\ report' = [complete |-> Complete(Values), values |-> Values, positive |-> Decide(Values)]
        /\ runs' = runs
    BY <2>1 DEF Analyze
  <2>3. Complete(Values)
    BY <2>2
  <2>4. Values = [n \in ToSet(Cells) |-> runs[n].measured]
    <3>1. {m \in ToSet(Cells) : Valid(m)} = ToSet(Cells)
      BY <2>3 DEF Complete, Values
    <3>2. \A n \in ToSet(Cells) : runs[n].recorded = runs[n].measured
      BY <3>1 DEF Valid, Unchanged
    <3> QED
      BY <3>1, <3>2 DEF Values
  <2>5. /\ report = [complete |-> report.complete, values |-> report.values, positive |-> report.positive]
        /\ report.values = Values /\ report.positive = Decide(Values)
        /\ report.complete = Complete(Values)
    BY <2>4 DEF CampaignInv, ReportInv
  <2> QED
    BY <2>2, <2>5
<1> QED
  BY <1>1, CampaignInvariant, PTL DEF CampaignSpec, ReportsAgree
=============================================================================
