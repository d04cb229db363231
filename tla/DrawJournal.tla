---------------------------- MODULE DrawJournal ----------------------------
(***************************************************************************)
(* The draw journal of scripts/ft/replay.py: a DrawLoader wraps the data   *)
(* loader of a run, publishes every batch as an immutable record before it *)
(* hands it on, and after a restart redelivers all recorded batches under  *)
(* their old identities before it draws a new one.                         *)
(*                                                                         *)
(* The items of the source are numbered in the order the base loader       *)
(* yields them (its seed, shuffle and source are pinned by the contract in *)
(* genesis.json), so a batch is an interval of items.  Every call runs     *)
(* under the loader's lock; __next__ is split at its crash seams (_cut),   *)
(* between which the process dies, a write raises, or the power fails.     *)
(* owner.lock lets one session use the directory at a time: the variables  *)
(* of a session are those of the one that holds it.                        *)
(***************************************************************************)
EXTENDS Integers, Sequences, SequencesExt

CONSTANTS Items,       \* items the base loader yields (epoch 0; with drop_last, of full batches)
          BatchSize,   \* base.batch_size; the last batch may be shorter
          MaxSessions, \* bound on the number of times the journal is opened
          PowerMayFail \* whether directory entries may be lost that were not synced

ASSUME JournalAssumption ==
    /\ Items \in Nat
    /\ BatchSize \in Nat \ {0}
    /\ MaxSessions \in Nat
    /\ PowerMayFail \in BOOLEAN

VARIABLES
    genesis,  \* genesis.json exists
    blobs,    \* blob pairs (batch, state after it) in the blob store
    draws,    \* draws/NNN.json in sequence
    durable,  \* how many of them survive a power failure
    sessions, \* how many times the journal was opened
    phase,    \* "none", "open" or "poisoned": the session holding owner.lock
    records,  \* _records
    pending,  \* _pending_count
    index,    \* _replay_index
    used,     \* _delivered or _thread is set
    cursor,   \* items the base iterator has yielded
    step,     \* the crash seam __next__ stands at
    got,      \* records this session delivered
    seen,     \* history: <<occurrence, item>> pairs any session delivered
    snaps     \* history: wal_sequence of the snapshots taken

disk    == <<genesis, blobs, draws, durable>>
session == <<phase, records, pending, index, used, cursor, step, got>>
vars    == <<disk, sessions, session, seen, snaps>>

-----------------------------------------------------------------------------
BatchAt(c) == [from |-> c, len |-> IF Items - c < BatchSize THEN Items - c ELSE BatchSize]

(* Number of slots in verified records, and the base state after them *)
Occurrences(rs) == IF rs = <<>> THEN 0 ELSE Last(rs).occurrence + Last(rs).batch.len
AfterState(rs)  == IF rs = <<>> THEN 0 ELSE Last(rs).after

(* The batch __next__ has taken from the base iterator, and its record *)
Fetched == [from |-> AfterState(records), len |-> cursor - AfterState(records)]
Stored  == [batch |-> Fetched, after |-> cursor]
NewRecord == [batch |-> Fetched, after |-> cursor, occurrence |-> Occurrences(records)]

(* _slots: what a delivery of record r tells the consumer *)
Slots(r) == {<<r.occurrence + k, r.batch.from + k>> : k \in 0 .. r.batch.len - 1}

(* _scan: a gapless chain of records whose blobs are all there *)
ScanOK ==
    /\ draws # <<>> => genesis
    /\ \A i \in 1 .. Len(draws) :
          /\ [batch |-> draws[i].batch, after |-> draws[i].after] \in blobs
          /\ draws[i].occurrence = Occurrences(SubSeq(draws, 1, i - 1))

-----------------------------------------------------------------------------
Open ==
    /\ phase = "none"
    /\ sessions < MaxSessions
    /\ ScanOK
    /\ genesis' = TRUE
    /\ sessions' = sessions + 1
    /\ phase' = "open"
    /\ records' = draws
    /\ pending' = Len(draws)
    /\ cursor' = AfterState(draws)
    /\ index' = 0 /\ used' = FALSE /\ step' = "idle" /\ got' = <<>>
    /\ UNCHANGED <<blobs, draws, durable, seen, snaps>>

Redeliver ==
    /\ phase = "open" /\ step = "idle"
    /\ index < pending
    /\ index' = index + 1
    /\ used' = TRUE
    /\ got' = Append(got, records[index + 1])
    /\ seen' = seen \cup Slots(records[index + 1])
    /\ UNCHANGED <<disk, sessions, phase, records, pending, cursor, step, snaps>>

BaseNext ==
    /\ phase = "open" /\ step = "idle"
    /\ index >= pending
    /\ cursor < Items
    /\ cursor' = cursor + BatchAt(cursor).len
    /\ used' = TRUE
    /\ step' = "drawn"
    /\ UNCHANGED <<disk, sessions, phase, records, pending, index, got, seen, snaps>>

PutBlobs ==
    /\ step = "drawn"
    /\ blobs' = blobs \cup {Stored}
    /\ step' = "stored"
    /\ UNCHANGED <<genesis, draws, durable, sessions, phase, records, pending, index, used,
                   cursor, got, seen, snaps>>

LinkRecord ==
    /\ step = "stored"
    /\ draws' = Append(draws, NewRecord)
    /\ step' = "linked"
    /\ UNCHANGED <<genesis, blobs, durable, sessions, phase, records, pending, index, used,
                   cursor, got, seen, snaps>>

SyncRecord ==
    /\ step = "linked"
    /\ durable' = Len(draws)
    /\ records' = Append(records, NewRecord)
    /\ step' = "synced"
    /\ UNCHANGED <<genesis, blobs, draws, sessions, phase, pending, index, used, cursor, got,
                   seen, snaps>>

Yield ==
    /\ step = "synced"
    /\ got' = Append(got, Last(records))
    /\ seen' = seen \cup Slots(Last(records))
    /\ step' = "idle"
    /\ UNCHANGED <<disk, sessions, phase, records, pending, index, used, cursor, snaps>>

(* fault: an exception leaves the iterator usable *)
RaiseUnpoisoned ==
    /\ step # "idle"
    /\ step' = "idle"
    /\ UNCHANGED <<disk, sessions, phase, records, pending, index, used, cursor, got, seen, snaps>>

(* Any write of __next__ raises *)
Raise ==
    /\ step # "idle"
    /\ phase' = "poisoned"
    /\ step' = "idle"
    /\ UNCHANGED <<disk, sessions, records, pending, index, used, cursor, got, seen, snaps>>

-----------------------------------------------------------------------------
(* fault: a snapshot counts what the base iterator has yielded *)
SnapshotOfBase ==
    /\ phase = "open"
    /\ snaps' = snaps \cup {IF step = "idle" THEN Len(records) ELSE Len(records) + 1}
    /\ UNCHANGED <<disk, sessions, session, seen>>

TakeSnapshot ==
    /\ phase = "open" /\ step = "idle"
    /\ snaps' = snaps \cup {Len(records)}
    /\ UNCHANGED <<disk, sessions, session, seen>>

(* fault: redelivery starts at the snapshot *)
LoadRewinding(n) ==
    /\ phase = "open" /\ ~used
    /\ n <= Len(records)
    /\ cursor' = AfterState(records)
    /\ index' = n
    /\ UNCHANGED <<disk, sessions, phase, records, pending, used, step, got, seen, snaps>>

LoadSnapshot(n) ==
    /\ phase = "open" /\ ~used
    /\ n <= Len(records)
    /\ cursor' = AfterState(records)
    /\ index' = 0
    /\ UNCHANGED <<disk, sessions, phase, records, pending, used, step, got, seen, snaps>>

(* close() waits for the lock; the process may die anywhere *)
Close ==
    /\ phase # "none" /\ step = "idle"
    /\ phase' = "none"
    /\ UNCHANGED <<disk, sessions, records, pending, index, used, cursor, step, got, seen, snaps>>

Crash ==
    /\ phase # "none"
    /\ phase' = "none"
    /\ step' = "idle"
    /\ UNCHANGED <<disk, sessions, records, pending, index, used, cursor, got, seen, snaps>>

PowerFailure ==
    /\ PowerMayFail
    /\ phase' = "none"
    /\ step' = "idle"
    /\ \E n \in durable .. Len(draws) : draws' = SubSeq(draws, 1, n) /\ durable' = n
    /\ UNCHANGED <<genesis, blobs, sessions, records, pending, index, used, cursor, got, seen, snaps>>

-----------------------------------------------------------------------------
Init ==
    /\ genesis = FALSE /\ blobs = {} /\ draws = <<>> /\ durable = 0
    /\ sessions = 0
    /\ phase = "none" /\ records = <<>> /\ pending = 0 /\ index = 0
    /\ used = FALSE /\ cursor = 0 /\ step = "idle" /\ got = <<>>
    /\ seen = {} /\ snaps = {}

Drawing == BaseNext \/ PutBlobs \/ LinkRecord \/ SyncRecord \/ Yield

Next ==
    \/ Open
    \/ Redeliver
    \/ Drawing
    \/ Raise
    \/ TakeSnapshot
    \/ \E n \in snaps : LoadSnapshot(n)
    \/ Close
    \/ Crash
    \/ PowerFailure

Spec == Init /\ [][Next]_vars

-----------------------------------------------------------------------------
(* Properties                                                              *)

Batch  == [from : Nat, len : Nat]
Record == [batch : Batch, after : Nat, occurrence : Nat]

(* The base iterator stays inside the source, the counters of a session inside
   what it has read from the journal.                                        *)
TypeOK ==
    /\ genesis \in BOOLEAN
    /\ blobs \subseteq [batch : Batch, after : Nat]
    /\ draws \in Seq(Record)
    /\ durable \in 0 .. Len(draws)
    /\ sessions \in 0 .. MaxSessions
    /\ phase \in {"none", "open", "poisoned"}
    /\ records \in Seq(Record)
    /\ pending \in 0 .. Len(records)
    /\ index \in 0 .. pending
    /\ used \in BOOLEAN
    /\ cursor \in 0 .. Items
    /\ step \in {"idle", "drawn", "stored", "linked", "synced"}
    /\ got \in Seq(Record)
    /\ seen \subseteq Nat \X Nat
    /\ snaps \subseteq Nat

(* The journal lists the source from its first item on, every item once and
   under its own number, whatever died or raised between advancing the base
   iterator and publishing the record.                                       *)
JournalFollowsSource ==
    \A i \in 1 .. Len(draws) :
        LET start == IF i = 1 THEN 0 ELSE draws[i - 1].after
        IN /\ draws[i].occurrence = start
           /\ draws[i].batch = BatchAt(start)
           /\ draws[i].after = start + BatchAt(start).len

(* Over all sessions an identity (run, source, occurrence) names one item and
   an item has one identity.                                                 *)
StableIdentity == \A x, y \in seen : x[1] = y[1] <=> x[2] = y[2]

(* A session delivers the journal from its first record on and nothing fresh
   before everything recorded, also after it was given an older snapshot.    *)
RedeliversAll ==
    /\ IsPrefix(got, records)
    /\ phase = "open" /\ step # "idle" => pending <= Len(got)

(* Whatever a session left behind, the next one accepts it. *)
ReopenAccepts == phase = "none" => ScanOK

(* A snapshot stays an anchor of the journal: only the power failing between
   the link and the sync of a record takes back what a snapshot counted.      *)
SnapshotsAnchor ==
    [][(\A n \in snaps : n <= Len(draws)) /\ ~PowerFailure => \A n \in snaps' : n <= Len(draws')]_vars

=============================================================================
