--------------------------- MODULE RetentionProofs ---------------------------
(***************************************************************************)
(* What is kept whatever fails.                                            *)
(*                                                                         *)
(* The checkpoints of a run that is restarted (Recovery): whatever the     *)
(* trainer, the pruner, the watcher and the injector do in between, for    *)
(* any number of steps, retries and kept checkpoints, the checkpoint the   *)
(* marker names is whole and so are those kept behind it, and no committed *)
(* step is trained again.                                                  *)
(*                                                                         *)
(* The rewards of a run that is exported (RewardService): for any groups,  *)
(* limits, calls and faults, an export that is reported as prepared has    *)
(* everything that was ever returned to the trainer.                       *)
(***************************************************************************)
EXTENDS Recovery, RewardService, FiniteSetTheorems, WellFoundedInduction, TLAPS

-----------------------------------------------------------------------------
(* The checkpoints *)

(* What is on the disk, and where the trainer, its loop and the pruner are *)
Shapes ==
    /\ dirs \in [Iter -> Nat \union {None, Torn}]
    /\ marker \in Iter \union {None, Torn} /\ high \in 0 .. Target
    /\ loop \in [at : {"launch", "wait", "plan", "done", "alert", "aborted"},
                 attempt : Nat, load : BOOLEAN]
    /\ trainer \in [at : {"off", "load", "train", "save", "saved", "mark", "finished"},
                    step : 0 .. Target]
    /\ pruner \in [at : {"idle", "list", "remove", "removing"}, latest : 0 .. Target,
                   victims : SUBSET Iter]

(* The marker is the last step that was committed, and it is empty only while the
   trainer writes it, or after a crash in there.  A trainer is started from it.       *)
MarkerInv ==
    /\ marker \in Iter => marker = high
    /\ marker = None => high = 0
    /\ marker = Torn => trainer.at \in {"mark", "off"}
    /\ loop.at = "launch" \/ trainer.at = "load" => marker # Torn /\ (loop.load <=> marker # None)

(* The trainer works on the step after the one that was committed. *)
TrainerInv ==
    /\ trainer.at \notin {"off", "finished"} => loop.at = "wait"
    /\ trainer.at = "train" => trainer.step = high
    /\ trainer.at \in {"save", "saved", "mark"} => trainer.step = high + 1
    /\ trainer.at \in {"saved", "mark"} => Whole(trainer.step)

(* The pruner goes by a marker that was read, and by then all that it removes had the
   number of checkpoints that are kept above it.                                      *)
PrunerInv ==
    /\ pruner.latest <= high
    /\ \A v \in pruner.victims : v + Keep <= high
    /\ pruner.at \in {"remove", "removing"} => pruner.victims # {}

RecoveryInv == Shapes /\ MarkerInv /\ TrainerInv /\ PrunerInv /\ FallbackKept

-----------------------------------------------------------------------------
LEMMA Numbers ==
    /\ Target \in Nat /\ Keep \in Nat /\ 1 <= Target /\ 1 <= Keep
    /\ Iter \subseteq Nat /\ \A i \in Iter : 1 <= i /\ i <= Target
    /\ None # Torn /\ None \notin Nat /\ Torn \notin Nat /\ None \notin Iter /\ Torn \notin Iter
BY RecoveryAssumption DEF Iter

(* The oldest of the victims is one of them. *)
LEMMA MinIn ==
    ASSUME NEW S \in SUBSET Nat, S # {} PROVE Min(S) \in S
<1>1. PICK i \in S : \A j \in S : ~ (<<j, i>> \in OpToRel(<, Nat))
  BY WFMin, NatLessThanWellFounded
<1>2. \A j \in S : ~ (j < i)
  BY <1>1 DEF OpToRel
<1>3. \A j \in S : i <= j
  BY <1>2
<1> QED
  BY <1>3 DEF Min

(* What is not among the newest has as many above it as are kept. *)
LEMMA NewestKept ==
    ASSUME NEW n \in Nat, NEW S \in SUBSET Iter, NEW latest \in Nat, \A i \in S : i <= latest,
           NEW v \in S \ Newest(n, S)
    PROVE  v + n <= latest
<1> DEFINE above == {j \in S : j > v}
<1>1. v \in Nat /\ v <= latest /\ S \subseteq Nat
  BY Numbers
<1>2. above \subseteq (v + 1) .. latest
  <2>1. ASSUME NEW j \in S, j > v PROVE j \in (v + 1) .. latest
    BY <1>1, <2>1
  <2> QED
    BY <2>1
<1>3. /\ IsFiniteSet((v + 1) .. latest)
      /\ Cardinality((v + 1) .. latest) = IF v + 1 > latest THEN 0 ELSE latest - (v + 1) + 1
  BY <1>1, FS_Interval
<1>4. IsFiniteSet(above) /\ Cardinality(above) <= Cardinality((v + 1) .. latest)
  BY <1>2, <1>3, FS_Subset
<1>5. Cardinality(above) \in Nat
  BY <1>4, FS_CardinalityType
<1>6. ~ (Cardinality(above) < n)
  BY DEF Newest
<1> QED
  BY <1>1, <1>3, <1>4, <1>5, <1>6

-----------------------------------------------------------------------------
LEMMA InitRecovery ==
    ASSUME Init PROVE RecoveryInv
<1> USE Numbers, RecoveryAssumption
<1>1. Shapes
  BY DEF Init, Shapes, Resting
<1>2. MarkerInv /\ TrainerInv
  BY DEF Init, MarkerInv, TrainerInv
<1>3. PrunerInv
  BY DEF Init, PrunerInv, Resting
<1>4. FallbackKept
  BY DEF Init, FallbackKept
<1> QED
  BY <1>1, <1>2, <1>3, <1>4 DEF RecoveryInv

(* The trainer and the loop write the disk alone; the pruner does what it does to the
   directories below those that are kept.                                             *)
LEMMA StepShapes ==
    ASSUME RecoveryInv, Next PROVE Shapes'
<1> USE Numbers DEF RecoveryInv
<1>1. ASSUME Training PROVE Shapes'
  <2>1. ASSUME Load PROVE Shapes'
    BY <2>1 DEF Load, Stop, disk, Shapes
  <2>2. ASSUME BeginSave PROVE Shapes'
    <3>1. trainer.step \in 0 .. Target /\ trainer.step < Target
      BY <2>2 DEF BeginSave, Shapes
    <3>2. trainer.step + 1 \in 0 .. Target
      BY <3>1
    <3> QED
      BY <2>2, <3>2 DEF BeginSave, Shapes
  <2>3. ASSUME EndSave PROVE Shapes'
    BY <2>3 DEF EndSave, Shapes
  <2>4. ASSUME OpenMarker PROVE Shapes'
    BY <2>4 DEF OpenMarker, Shapes
  <2>5. ASSUME WriteMarker PROVE Shapes'
    <3>1. trainer.step \in 0 .. Target /\ trainer.step = high + 1 /\ high \in Nat
      BY <2>5 DEF WriteMarker, Shapes, TrainerInv
    <3>2. trainer.step \in Iter
      BY <3>1 DEF Iter
    <3> QED
      BY <2>5, <3>1, <3>2 DEF WriteMarker, Shapes
  <2>6. ASSUME Finish PROVE Shapes'
    BY <2>6 DEF Finish, Stop, disk, Shapes
  <2> QED
    BY <1>1, <2>1, <2>2, <2>3, <2>4, <2>5, <2>6 DEF Training
<1>2. ASSUME Looping PROVE Shapes'
  <2>1. ASSUME Launch PROVE Shapes'
    <3>1. loop' \in [at : {"launch", "wait", "plan", "done", "alert", "aborted"},
                     attempt : Nat, load : BOOLEAN]
      <4>1. loop.attempt \in Nat /\ loop.attempt + 1 \in Nat
        BY DEF Shapes
      <4>2. loop' = [loop EXCEPT !.at = "wait", !.attempt = loop.attempt + 1]
        BY <2>1 DEF Launch
      <4> QED
        BY <4>1, <4>2 DEF Shapes
    <3>2. 0 \in 0 .. Target
      OBVIOUS
    <3> QED
      BY <2>1, <3>1, <3>2 DEF Launch, disk, Shapes
  <2>2. ASSUME Returned PROVE Shapes'
    BY <2>2 DEF Returned, disk, Resting, Shapes
  <2>3. ASSUME Plan PROVE Shapes'
    <3>1. CASE marker = Torn
      BY <2>3, <3>1 DEF Plan, disk, Shapes
    <3>2. CASE marker # Torn
      BY <2>3, <3>2 DEF Plan, disk, Shapes
    <3> QED
      BY <3>1, <3>2
  <2> QED
    BY <1>2, <2>1, <2>2, <2>3 DEF Looping
<1>3. ASSUME Pruning PROVE Shapes'
  <2>1. ASSUME PruneRead PROVE Shapes'
    <3>1. marker \in 0 .. Target
      BY <2>1 DEF PruneRead, Iter
    <3> QED
      BY <2>1, <3>1 DEF PruneRead, disk, Shapes
  <2>2. ASSUME PruneList PROVE Shapes'
    <3> DEFINE completed == {i \in Present : i <= pruner.latest}
               victims == completed \ Newest(Keep, completed)
    <3>1. victims \in SUBSET Iter
      BY DEF Present
    <3>2. pruner' = IF victims = {} THEN Resting
                    ELSE [pruner EXCEPT !.at = "remove", !.victims = victims]
      BY <2>2 DEF PruneList
    <3> HIDE DEF victims
    <3>3. pruner' \in [at : {"idle", "list", "remove", "removing"}, latest : 0 .. Target,
                       victims : SUBSET Iter]
      <4>1. CASE victims = {}
        BY <3>2, <4>1 DEF Resting
      <4>2. CASE victims # {}
        BY <3>1, <3>2, <4>2 DEF Shapes
      <4> QED
        BY <4>1, <4>2
    <3> QED
      BY <2>2, <3>3 DEF PruneList, disk, Shapes
  <2>3. ASSUME NEW gone, PruneNext(gone)
        PROVE  pruner' \in [at : {"idle", "list", "remove", "removing"}, latest : 0 .. Target,
                            victims : SUBSET Iter]
    <3>1. CASE pruner.victims = {gone}
      BY <2>3, <3>1 DEF PruneNext, Resting
    <3>2. CASE pruner.victims # {gone}
      <4>1. pruner' = [pruner EXCEPT !.at = "remove", !.victims = @ \ {gone}]
        BY <2>3, <3>2 DEF PruneNext
      <4> QED
        BY <4>1 DEF Shapes
    <3> QED
      BY <3>1, <3>2
  <2>4. ASSUME PruneSkip PROVE Shapes'
    BY <2>3, <2>4 DEF PruneSkip, disk, Shapes
  <2>5. ASSUME PruneFiles PROVE Shapes'
    BY <2>5 DEF PruneFiles, Shapes
  <2>6. ASSUME PruneDir PROVE Shapes'
    BY <2>3, <2>6 DEF PruneDir, Shapes
  <2> QED
    BY <1>3, <2>1, <2>2, <2>4, <2>5, <2>6 DEF Pruning
<1>4. ASSUME Crash \/ Inject PROVE Shapes'
  BY <1>4 DEF Crash, Inject, Stop, disk, Shapes
<1>5. ASSUME Watching \/ WatchStart \/ WatchDies PROVE Shapes'
  BY <1>5 DEF Watching, WatchPoll, WatchList, WatchNext, WatchHash, WatchRead, WatchOpen, WatchWrite,
              WatchStart, WatchDies, disk, Shapes
<1> QED
  BY <1>1, <1>2, <1>3, <1>4, <1>5 DEF Next

(* What the pruner removes is below what is kept. *)
LEMMA VictimFacts ==
    ASSUME RecoveryInv, pruner.at \in {"remove", "removing"}
    PROVE  Min(pruner.victims) \in Iter /\ Min(pruner.victims) + Keep <= high
<1>1. pruner.victims \in SUBSET Nat /\ pruner.victims # {} /\ pruner.victims \subseteq Iter
  BY Numbers DEF RecoveryInv, Shapes, PrunerInv
<1>2. Min(pruner.victims) \in pruner.victims
  BY <1>1, MinIn
<1> QED
  BY <1>1, <1>2 DEF RecoveryInv, PrunerInv

LEMMA StepMarker ==
    ASSUME RecoveryInv, Next PROVE MarkerInv' /\ TrainerInv'
<1> USE Numbers DEF RecoveryInv
<1> DEFINE Goal == MarkerInv' /\ TrainerInv'
<1>0. high \in Nat /\ trainer.step \in Nat
  BY DEF Shapes
<1>1. ASSUME Load PROVE Goal
  <2>1. UNCHANGED <<dirs, marker, high, loop>>
        /\ loop.at = "wait" /\ marker # Torn /\ (loop.load <=> marker # None)
    BY <1>1 DEF Load, disk, MarkerInv, TrainerInv
  <2>2. trainer'.at = "off" \/ (trainer'.at = "train" /\ trainer'.step = high)
    <3>1. CASE ~loop.load
      BY <1>1, <2>1, <3>1 DEF Load, MarkerInv
    <3>2. CASE loop.load
      BY <1>1, <2>1, <3>2 DEF Load, Stop, MarkerInv, Shapes
    <3> QED
      BY <3>1, <3>2
  <2> QED
    BY <2>1, <2>2 DEF MarkerInv, TrainerInv
<1>2. ASSUME BeginSave PROVE Goal
  <2>1. /\ UNCHANGED <<marker, high, loop>> /\ loop.at = "wait" /\ marker # Torn
        /\ trainer'.at = "save" /\ trainer'.step = high + 1
    BY <1>2 DEF BeginSave, MarkerInv, TrainerInv
  <2> QED
    BY <2>1 DEF MarkerInv, TrainerInv
<1>3. ASSUME EndSave PROVE Goal
  <2>1. /\ UNCHANGED <<marker, high, loop>> /\ loop.at = "wait" /\ marker # Torn
        /\ trainer'.at = "saved" /\ trainer'.step = high + 1 /\ trainer.step = high + 1
        /\ loop.attempt \in Nat
    BY <1>3 DEF EndSave, MarkerInv, TrainerInv, Shapes
  <2>2. high + 1 \in Iter
    <3>1. trainer.step \in 0 .. Target
      BY DEF Shapes
    <3> QED
      BY <1>0, <2>1, <3>1 DEF Iter
  <2>3. dirs'[high + 1] = loop.attempt
    BY <1>3, <2>1, <2>2 DEF EndSave, Shapes
  <2>4. Whole(trainer.step)'
    BY <2>1, <2>3 DEF Whole
  <2> QED
    BY <2>1, <2>4 DEF MarkerInv, TrainerInv
<1>4. ASSUME OpenMarker PROVE Goal
  <2>1. /\ UNCHANGED <<dirs, high, loop>> /\ loop.at = "wait" /\ marker' = Torn
        /\ trainer'.at = "mark" /\ trainer'.step = high + 1 /\ trainer.step = high + 1
        /\ Whole(trainer.step)
    BY <1>4 DEF OpenMarker, TrainerInv, Shapes
  <2> QED
    BY <2>1 DEF MarkerInv, TrainerInv, Whole
<1>5. ASSUME WriteMarker PROVE Goal
  <2>1. /\ UNCHANGED loop /\ loop.at = "wait" /\ marker' = trainer.step /\ high' = trainer.step
        /\ trainer'.at = "train" /\ trainer'.step = trainer.step /\ trainer.step = high + 1
    BY <1>5 DEF WriteMarker, TrainerInv, Shapes
  <2>2. trainer.step # None /\ trainer.step # Torn
    BY <1>0
  <2> QED
    BY <2>1, <2>2 DEF MarkerInv, TrainerInv
<1>6. ASSUME Finish PROVE Goal
  BY <1>6 DEF Finish, Stop, disk, MarkerInv, TrainerInv, Shapes
<1>7. ASSUME Launch PROVE Goal
  <2>1. /\ UNCHANGED <<dirs, marker, high>> /\ trainer'.at = "load" /\ loop'.at = "wait"
        /\ loop'.load = loop.load /\ loop.at = "launch"
    BY <1>7 DEF Launch, disk, Shapes
  <2> QED
    BY <2>1 DEF MarkerInv, TrainerInv
<1>8. ASSUME Returned PROVE Goal
  <2>1. /\ UNCHANGED <<dirs, marker, high, trainer>> /\ trainer.at \in {"off", "finished"}
        /\ loop'.at # "launch"
    BY <1>8 DEF Returned, disk, Shapes
  <2> QED
    BY <2>1 DEF MarkerInv, TrainerInv
<1>9. ASSUME Plan PROVE Goal
  <2>1. /\ UNCHANGED <<dirs, marker, high, trainer>> /\ loop.at = "plan"
        /\ \/ marker = Torn /\ loop'.at = "aborted"
           \/ marker # Torn /\ loop'.at = "launch" /\ loop'.load = (marker # None)
    BY <1>9 DEF Plan, disk, Shapes
  <2> QED
    BY <2>1 DEF MarkerInv, TrainerInv
<1>10. ASSUME UNCHANGED <<marker, high, loop>>, UNCHANGED <<trainer, dirs>> \/ trainer'.at = "off"
       PROVE  Goal
  BY <1>10 DEF MarkerInv, TrainerInv, Whole
<1>11. ASSUME Crash \/ Inject PROVE Goal
  BY <1>10, <1>11 DEF Crash, Inject, Stop, disk, Shapes
<1>12. ASSUME Watching \/ WatchStart \/ WatchDies \/ PruneRead \/ PruneList \/ PruneSkip PROVE Goal
  BY <1>10, <1>12 DEF Watching, WatchPoll, WatchList, WatchNext, WatchHash, WatchRead, WatchOpen,
     WatchWrite, WatchStart, WatchDies, PruneRead, PruneList, PruneSkip, disk
<1>13. ASSUME PruneFiles \/ PruneDir PROVE Goal
  <2> DEFINE v == Min(pruner.victims)
  <2>1. /\ UNCHANGED <<marker, high, loop, trainer>>
        /\ dirs' = [dirs EXCEPT ![v] = Torn] \/ dirs' = [dirs EXCEPT ![v] = None]
        /\ v \in Iter /\ v + Keep <= high
    BY <1>13, VictimFacts DEF PruneFiles, PruneDir
  <2> HIDE DEF v
  <2>2. v # high + 1
    BY <1>0, <2>1
  <2>3. ASSUME trainer.at \in {"saved", "mark"} PROVE dirs'[high + 1] = dirs[high + 1]
    <3>1. trainer.step = high + 1 /\ trainer.step \in 0 .. Target
      BY <2>3 DEF TrainerInv, Shapes
    <3>2. high + 1 \in Iter
      BY <1>0, <3>1 DEF Iter
    <3> QED
      BY <2>1, <2>2, <3>2 DEF Shapes
  <2> QED
    BY <2>1, <2>3 DEF MarkerInv, TrainerInv, Whole
<1> QED
  BY <1>1, <1>2, <1>3, <1>4, <1>5, <1>6, <1>7, <1>8, <1>9, <1>11, <1>12, <1>13
     DEF Next, Training, Looping, Pruning

LEMMA StepPruner ==
    ASSUME RecoveryInv, Next PROVE PrunerInv'
<1> USE Numbers DEF RecoveryInv
<1>0. high \in Nat /\ trainer.step \in Nat
  BY DEF Shapes
<1>1. high' \in Nat /\ high <= high'
  <2>1. high' = high \/ (WriteMarker /\ high' = trainer.step)
    BY DEF Next, Training, Looping, Pruning, Watching, Load, BeginSave, EndSave, OpenMarker,
       WriteMarker, Finish, Launch, Returned, Plan, PruneRead, PruneList, PruneSkip, PruneFiles,
       PruneDir, Crash, Inject, WatchStart, WatchDies, WatchPoll, WatchList, WatchNext, WatchHash,
       WatchRead, WatchOpen, WatchWrite, disk
  <2>2. WriteMarker => trainer.step = high + 1
    BY DEF WriteMarker, TrainerInv
  <2> QED
    BY <1>0, <2>1, <2>2
<1>2. ASSUME pruner' = Resting PROVE PrunerInv'
  BY <1>1, <1>2 DEF PrunerInv, Resting
<1>3. ASSUME UNCHANGED pruner PROVE PrunerInv'
  <2>1. pruner.latest \in Nat /\ \A v \in pruner.victims : v \in Nat
    BY DEF Shapes
  <2> QED
    BY <1>0, <1>1, <1>3, <2>1 DEF PrunerInv
<1>4. ASSUME PruneRead PROVE PrunerInv'
  <2>1. /\ pruner' = [pruner EXCEPT !.at = "list", !.latest = marker]
        /\ marker = high /\ UNCHANGED high
    BY <1>4 DEF PruneRead, disk, MarkerInv
  <2>2. pruner'.at = "list" /\ pruner'.latest = high /\ pruner'.victims = pruner.victims
    BY <2>1 DEF Shapes
  <2> QED
    BY <1>0, <2>1, <2>2 DEF PrunerInv
<1>5. ASSUME PruneList PROVE PrunerInv'
  <2> DEFINE completed == {i \in Present : i <= pruner.latest}
             victims == completed \ Newest(Keep, completed)
  <2>1. /\ pruner' = IF victims = {} THEN Resting
                     ELSE [pruner EXCEPT !.at = "remove", !.victims = victims]
        /\ UNCHANGED high /\ pruner.latest \in Nat /\ pruner.latest <= high
    BY <1>5 DEF PruneList, disk, PrunerInv, Shapes
  <2>2. \A v \in victims : v + Keep <= pruner.latest
    <3>1. completed \in SUBSET Iter /\ \A i \in completed : i <= pruner.latest
      BY DEF Present
    <3> HIDE DEF completed
    <3> QED
      BY <2>1, <3>1, NewestKept
  <2>3. \A v \in victims : v \in Nat
    BY DEF Present
  <2> HIDE DEF victims
  <2>4. CASE victims # {}
    <3>1. pruner'.latest = pruner.latest /\ pruner'.victims = victims
      BY <2>1, <2>4 DEF Shapes
    <3> QED
      BY <1>0, <2>1, <2>2, <2>3, <2>4, <3>1 DEF PrunerInv
  <2> QED
    BY <1>2, <2>1, <2>4
<1>6. ASSUME NEW gone, PruneNext(gone), pruner.at \in {"remove", "removing"} PROVE PrunerInv'
  <2>1. CASE pruner.victims = {gone}
    BY <1>2, <1>6, <2>1 DEF PruneNext
  <2>2. CASE pruner.victims # {gone}
    <3>1. pruner' = [pruner EXCEPT !.at = "remove", !.victims = @ \ {gone}]
      BY <1>6, <2>2 DEF PruneNext
    <3>2. pruner'.latest = pruner.latest /\ pruner'.victims = pruner.victims \ {gone}
      BY <3>1 DEF Shapes
    <3>3. pruner.latest \in Nat /\ \A v \in pruner.victims : v \in Nat
      BY DEF Shapes
    <3>4. pruner.victims # {} /\ pruner'.victims # {}
      BY <1>6, <2>2, <3>2 DEF PrunerInv
    <3>5. pruner'.latest <= high' /\ \A v \in pruner'.victims : v + Keep <= high'
      BY <1>0, <1>1, <3>2, <3>3 DEF PrunerInv
    <3> QED
      BY <3>4, <3>5 DEF PrunerInv
  <2> QED
    BY <2>1, <2>2
<1>7. ASSUME PruneFiles PROVE PrunerInv'
  <2>1. /\ pruner'.latest = pruner.latest /\ pruner'.victims = pruner.victims
        /\ UNCHANGED high /\ pruner.at = "remove"
    BY <1>7 DEF PruneFiles, Shapes
  <2> QED
    BY <2>1 DEF PrunerInv
<1>8. ASSUME Training \/ Launch \/ Plan \/ Watching \/ Crash \/ Inject \/ WatchStart \/ WatchDies
      PROVE  UNCHANGED pruner
  BY <1>8 DEF Training, Watching, Load, BeginSave, EndSave, OpenMarker,
       WriteMarker, Finish, Launch, Plan, Crash, Inject, WatchStart, WatchDies, WatchPoll, WatchList,
       WatchNext, WatchHash, WatchRead, WatchOpen, WatchWrite
<1> QED
  BY <1>2, <1>3, <1>4, <1>5, <1>6, <1>7, <1>8
     DEF Next, Looping, Pruning, Returned, PruneSkip, PruneDir

(* No directory of a committed step changes but by the pruner. *)
LEMMA CommittedStay ==
    ASSUME RecoveryInv, Next, pruner.at \notin {"remove", "removing"}
    PROVE  \A i \in Iter : i <= high => dirs'[i] = dirs[i]
<1> USE Numbers DEF RecoveryInv
<1>0. high \in Nat /\ trainer.step \in Nat
  BY DEF Shapes
<1>1. ASSUME NEW step, step = high + 1, NEW part, dirs' = [dirs EXCEPT ![step] = part]
      PROVE  \A i \in Iter : i <= high => dirs'[i] = dirs[i]
  <2>1. \A i \in Iter : i <= high => i # step
    BY <1>0, <1>1
  <2> QED
    BY <1>1, <2>1 DEF Shapes
<1>2. ASSUME BeginSave PROVE \A i \in Iter : i <= high => dirs'[i] = dirs[i]
  BY <1>1, <1>2 DEF BeginSave, TrainerInv
<1>3. ASSUME EndSave PROVE \A i \in Iter : i <= high => dirs'[i] = dirs[i]
  BY <1>1, <1>3 DEF EndSave, TrainerInv
<1>4. ASSUME ~BeginSave, ~EndSave PROVE UNCHANGED dirs
  BY <1>4 DEF Next, Training, Looping, Pruning, Watching, Load, OpenMarker,
       WriteMarker, Finish, Launch, Returned, Plan, PruneRead, PruneList, PruneSkip, PruneFiles,
       PruneDir, Crash, Inject, WatchStart, WatchDies, WatchPoll, WatchList, WatchNext, WatchHash,
       WatchRead, WatchOpen, WatchWrite, disk
<1> QED
  BY <1>2, <1>3, <1>4

LEMMA StepFallback ==
    ASSUME RecoveryInv, Next PROVE FallbackKept'
<1> USE Numbers DEF RecoveryInv
<1>0. high \in Nat /\ trainer.step \in Nat
  BY DEF Shapes
<1>1. marker' \in Iter => marker' = high'
  BY StepMarker DEF MarkerInv
<1>2. ASSUME NEW i \in Iter, i <= high, i + Keep > high PROVE dirs'[i] = dirs[i]
  <2>1. CASE pruner.at \notin {"remove", "removing"}
    BY <1>2, <2>1, CommittedStay
  <2>2. CASE pruner.at \in {"remove", "removing"}
    <3> DEFINE v == Min(pruner.victims)
    <3>1. v \in Iter /\ v + Keep <= high
      BY <2>2, VictimFacts
    <3>2. ASSUME NEW step, step = v \/ step = high + 1, NEW part, dirs' = [dirs EXCEPT ![step] = part]
          PROVE  dirs'[i] = dirs[i]
      <4> HIDE DEF v
      <4>1. i # v /\ i # high + 1
        BY <1>0, <1>2, <3>1
      <4> QED
        BY <3>2, <4>1 DEF Shapes
    <3>3. ASSUME BeginSave \/ EndSave PROVE dirs'[i] = dirs[i]
      BY <3>2, <3>3 DEF BeginSave, EndSave, TrainerInv
    <3>4. ASSUME PruneFiles \/ PruneDir PROVE dirs'[i] = dirs[i]
      BY <3>2, <3>4 DEF PruneFiles, PruneDir
    <3>5. ASSUME ~BeginSave, ~EndSave, ~PruneFiles, ~PruneDir PROVE UNCHANGED dirs
      BY <3>5 DEF Next, Training, Looping, Pruning, Watching, Load, OpenMarker,
           WriteMarker, Finish, Launch, Returned, Plan, PruneRead, PruneList, PruneSkip,
           Crash, Inject, WatchStart, WatchDies, WatchPoll, WatchList, WatchNext, WatchHash,
           WatchRead, WatchOpen, WatchWrite, disk
    <3> QED
      BY <3>3, <3>4, <3>5
  <2> QED
    BY <2>1, <2>2
<1>3. ASSUME UNCHANGED high, NEW i \in Iter, i <= high, i + Keep > high PROVE Whole(i)'
  BY <1>2, <1>3 DEF FallbackKept, Whole
<1>4. ASSUME WriteMarker, NEW i \in Iter, i <= high', i + Keep > high' PROVE Whole(i)'
  <2>1. /\ high' = high + 1 /\ UNCHANGED dirs /\ trainer.step = high + 1 /\ Whole(trainer.step)
    BY <1>4 DEF WriteMarker, TrainerInv
  <2>2. CASE i = high + 1
    BY <2>1, <2>2 DEF Whole
  <2>3. CASE i # high + 1
    <3>1. i <= high /\ i + Keep > high
      BY <1>0, <1>4, <2>1, <2>3
    <3> QED
      BY <2>1, <3>1 DEF FallbackKept, Whole
  <2> QED
    BY <2>2, <2>3
<1>5. UNCHANGED high \/ WriteMarker
  BY DEF Next, Training, Looping, Pruning, Watching, Load, BeginSave, EndSave, OpenMarker,
     Finish, Launch, Returned, Plan, PruneRead, PruneList, PruneSkip, PruneFiles,
     PruneDir, Crash, Inject, WatchStart, WatchDies, WatchPoll, WatchList, WatchNext, WatchHash,
     WatchRead, WatchOpen, WatchWrite, disk
<1> QED
  BY <1>1, <1>3, <1>4, <1>5 DEF FallbackKept

-----------------------------------------------------------------------------
(* The inductive invariant of the checkpoint directory *)
THEOREM CheckpointInvariant == Spec => []RecoveryInv
<1>1. Init => RecoveryInv
  BY InitRecovery
<1>2. RecoveryInv /\ [Next]_vars => RecoveryInv'
  <2>1. ASSUME RecoveryInv, Next PROVE RecoveryInv'
    BY <2>1, StepShapes, StepMarker, StepPruner, StepFallback DEF RecoveryInv
  <2>2. ASSUME RecoveryInv, UNCHANGED vars PROVE RecoveryInv'
    BY <2>2 DEF RecoveryInv, Shapes, MarkerInv, TrainerInv, PrunerInv, FallbackKept, Whole, vars
  <2> QED
    BY <2>1, <2>2
<1> QED
  BY <1>1, <1>2, PTL DEF Spec

(* Retention keeps the checkpoint that the marker names and the ones before it, however
   the removal of the older ones is interleaved with saves, crashes and restarts
   (checkpoint_retention.py, prune).                                                  *)
THEOREM KeepsFallback == Spec => []FallbackKept
<1>1. RecoveryInv => FallbackKept
  BY DEF RecoveryInv
<1> QED
  BY <1>1, CheckpointInvariant, PTL

(* After a crash the loop resumes behind the last committed step: the directory of a
   committed step is never written again, it is only removed by the pruner.           *)
THEOREM ResumesBehindCommitted == Spec => CommittedNotRetrained
<1> DEFINE Step == \A i \in Iter : i <= high /\ dirs'[i] /= dirs[i] => pruner.at \in {"remove", "removing"}
<1>1. RecoveryInv /\ [Next]_vars => [Step]_vars
  BY CommittedStay
<1>2. CommittedNotRetrained <=> [][Step]_vars
  BY DEF CommittedNotRetrained
<1> QED
  BY <1>1, <1>2, CheckpointInvariant, PTL DEF Spec

-----------------------------------------------------------------------------
(* The rewards *)

Steps == {"idle", "verdicts", "connect", "insert", "append", "commit", "rejects", "seal", "log",
          "return"}

(* What the adapter holds *)
ServiceShapes ==
    /\ failed \in BOOLEAN /\ closed \in BOOLEAN
    /\ seen \subseteq Sample /\ claims \subseteq Sample /\ returned \subseteq Group
    /\ streams \in [rewards : Seq(Sample), seals : Seq(Group), rejects : Seq(Sample)]
    /\ call \in [at : Steps, group : SUBSET Sample, new : SUBSET Sample]
    /\ call.new \subseteq call.group
    /\ export \in [at : {"none", "files", "manifest", "report", "done"}, rewards : Seq(Sample),
                   seals : Seq(Group), claims : SUBSET Sample, fatal : BOOLEAN,
                   manifest : BOOLEAN, prepared : BOOLEAN]

(* A call is about one group, of an adapter that is open and not cancelled. *)
CallInv ==
    /\ call.at # "idle" => ~closed /\ ~cancelling /\ \E g \in Group : call.group = Members(g)
    /\ Plain => call.at \in {"idle", "log", "return"}
    /\ ~Plain => call.at # "log"

(* The log and the claims are in step between the append and the commit of a call, and
   what was seen is claimed; a call that is past them has its records and its seal.   *)
LogInv ==
    /\ IsInjective(streams.rewards)
    /\ Range(streams.rewards) = claims \union (IF call.at = "commit" THEN call.new ELSE {})
    /\ seen \subseteq claims
    /\ call.at \in {"append", "commit"} => call.new \intersect claims = {}
    /\ call.at \in {"connect", "insert", "append", "commit"} => call.group \subseteq claims \union call.new
    /\ call.at \in {"rejects", "seal", "return"} => call.group \subseteq claims
    /\ call.at = "return" => CallGroup \in Range(streams.seals)

(* What was returned is in the streams, and so is what is about to be. *)
ReturnedInv ==
    /\ Plain /\ call.at = "return" => call.group \subseteq Range(streams.rewards)
    /\ \A g \in returned : /\ Members(g) \subseteq Range(streams.rewards)
                           /\ ~Plain => g \in Range(streams.seals)

(* An export is of the streams as they were when the adapter was closed. *)
ExportInv ==
    /\ export.at # "none" => closed
    /\ export.at \in {"manifest", "report"} \/ export.prepared =>
          /\ closed /\ export.rewards = streams.rewards /\ export.seals = streams.seals
          /\ export.claims = claims
          /\ export.fatal => failed

(* Nothing is promised of the streams after a failure. *)
ServiceInv ==
    /\ ServiceShapes /\ CallInv /\ ExportInv
    /\ ~failed => ReturnedInv /\ (~Plain => LogInv)

----
(* The lines of one write *)
LEMMA OneWrite ==
  ASSUME ServiceConstants, NEW T, T \subseteq Sample
  PROVE  /\ SetToSeq(T) \in Seq(T) /\ IsInjective(SetToSeq(T)) /\ Range(SetToSeq(T)) = T
         /\ SetToSeq(T) \in Seq(Sample)
<1>1. IsFiniteSet(T)
  BY FS_Subset DEF ServiceConstants
<1> DEFINE n == Cardinality(T)
<1>2. n \in Nat /\ ExistsBijection(1 .. n, T)
  BY <1>1, FS_CardinalityType
<1>3. PICK b \in [1 .. n -> T] : IsInjective(b)
  BY <1>2 DEF ExistsBijection, Bijection, Injection, IsInjective
<1> DEFINE f == SetToSeq(T)
<1>4. f \in [1 .. n -> T] /\ IsInjective(f)
  BY <1>3 DEF SetToSeq
<1>5. IsFiniteSet(1 .. n) /\ Cardinality(1 .. n) = n
  BY <1>2, FS_Interval
<1>6. f \in Injection(1 .. n, T)
  BY <1>4 DEF Injection
<1> HIDE DEF f, n
<1>7. f \in Surjection(1 .. n, T)
  BY <1>1, <1>5, <1>6, FS_Injection DEF n
<1>8. Range(f) = T
  BY <1>4, <1>7 DEF Surjection, Range
<1>9. f \in Seq(T) /\ f \in Seq(Sample)
  BY <1>2, <1>4
<1> QED
  BY <1>4, <1>8, <1>9 DEF f

(* Writing behind what was written *)
LEMMA Concatenated ==
  ASSUME NEW S, NEW a \in Seq(S), NEW b \in Seq(S)
  PROVE  /\ a \o b \in Seq(S)
         /\ Range(a \o b) = Range(a) \union Range(b)
         /\ IsInjective(a) /\ IsInjective(b) /\ Range(a) \intersect Range(b) = {} => IsInjective(a \o b)
<1>1. /\ a \o b \in Seq(S) /\ Len(a \o b) = Len(a) + Len(b) /\ Len(a) \in Nat /\ Len(b) \in Nat
      /\ \A i \in 1 .. Len(a) : (a \o b)[i] = a[i]
      /\ \A i \in 1 .. Len(b) : (a \o b)[Len(a) + i] = b[i]
  OBVIOUS
<1>2. \A i \in 1 .. Len(a \o b) :
        \/ i \in 1 .. Len(a) /\ (a \o b)[i] = a[i]
        \/ \E j \in 1 .. Len(b) : i = Len(a) + j /\ (a \o b)[i] = b[j]
  <2> SUFFICES ASSUME NEW i \in 1 .. Len(a \o b), i \notin 1 .. Len(a)
               PROVE  \E j \in 1 .. Len(b) : i = Len(a) + j /\ (a \o b)[i] = b[j]
    BY <1>1
  <2>1. i - Len(a) \in 1 .. Len(b) /\ i = Len(a) + (i - Len(a))
    BY <1>1
  <2> QED
    BY <1>1, <2>1
<1>3. DOMAIN a = 1 .. Len(a) /\ DOMAIN b = 1 .. Len(b) /\ DOMAIN (a \o b) = 1 .. Len(a \o b)
  BY <1>1
<1>4. Range(a \o b) \subseteq Range(a) \union Range(b)
  BY <1>2, <1>3 DEF Range
<1>5. Range(a) \subseteq Range(a \o b)
  BY <1>1, <1>3 DEF Range
<1>6. Range(b) \subseteq Range(a \o b)
  <2> SUFFICES ASSUME NEW j \in 1 .. Len(b) PROVE b[j] \in Range(a \o b)
    BY <1>3 DEF Range
  <2>1. Len(a) + j \in 1 .. Len(a \o b)
    BY <1>1
  <2> QED
    BY <1>1, <1>3, <2>1 DEF Range
<1>7. ASSUME IsInjective(a), IsInjective(b), Range(a) \intersect Range(b) = {}
      PROVE  IsInjective(a \o b)
  <2> SUFFICES ASSUME NEW i \in 1 .. Len(a \o b), NEW k \in 1 .. Len(a \o b), (a \o b)[i] = (a \o b)[k]
               PROVE  i = k
    BY <1>3 DEF IsInjective
  <2>1. \A x \in 1 .. Len(a), y \in 1 .. Len(b) : a[x] # b[y]
    BY <1>3, <1>7 DEF Range
  <2>2. \A x, y \in 1 .. Len(a) : a[x] = a[y] => x = y
    BY <1>3, <1>7 DEF IsInjective
  <2>3. \A x, y \in 1 .. Len(b) : b[x] = b[y] => x = y
    BY <1>3, <1>7 DEF IsInjective
  <2> QED
    BY <1>2, <2>1, <2>2, <2>3
<1> QED
  BY <1>1, <1>4, <1>5, <1>6, <1>7

(* A seal is one line. *)
LEMMA SealWrite ==
  ASSUME NEW g \in Group
  PROVE  SetToSeq({g}) \in Seq(Group) /\ Range(SetToSeq({g})) = {g}
<1>1. Cardinality({g}) = 1
  BY FS_Singleton
<1>2. [i \in 1 .. 1 |-> g] \in [1 .. 1 -> {g}] /\ IsInjective([i \in 1 .. 1 |-> g])
  BY DEF IsInjective
<1>3. SetToSeq({g}) \in [1 .. 1 -> {g}]
  BY <1>1, <1>2 DEF SetToSeq
<1>4. ASSUME NEW f \in [1 .. 1 -> {g}]
      PROVE  f \in Seq(Group) /\ Range(f) = {g}
  <2>1. f \in [1 .. 1 -> Group]
    OBVIOUS
  <2>2. f \in Seq(Group)
    <3>1. ASSUME NEW n \in Nat, f \in [1 .. n -> Group]
          PROVE  f \in Seq(Group)
      BY <3>1
    <3> QED
      BY <2>1, <3>1
  <2>3. DOMAIN f = 1 .. 1 /\ \A i \in 1 .. 1 : f[i] = g
    OBVIOUS
  <2>4. 1 \in 1 .. 1
    OBVIOUS
  <2> QED
    BY <2>2, <2>3, <2>4 DEF Range
<1> QED
  BY <1>3, <1>4

(* A call is about the group of any of its samples. *)
LEMMA GroupOfCall ==
  ASSUME ServiceConstants, NEW g \in Group, call.group = Members(g)
  PROVE  CallGroup = g
<1>1. PICK one \in Sample : one \in call.group
  BY DEF ServiceConstants, Members
<1>2. (CHOOSE x \in call.group : TRUE) \in call.group
  BY <1>1
<1> QED
  BY <1>2 DEF CallGroup, Members

(* A failure stays. *)
LEMMA FailureStays ==
  ASSUME ServiceInv, [AdapterNext]_adapterVars, failed
  PROVE  failed'
BY DEF ServiceInv, ServiceShapes, AdapterNext, Score, Verdicts, Connect, Insert, AppendRewards, Commit,
   AppendRejects, AppendSeal, OracleLog, Return, BeginCancellation, Observe, LoseControl, SealAdapter,
   ExportFiles, PublishManifest, ReportPrepared, Raise, Swallows, ExportFails, Passes, frame, adapterVars

(* What a step may do to the streams *)
Writes(stream, T) == streams' = [streams EXCEPT ![stream] = @ \o SetToSeq(T)]

(* Who writes which stream *)
LEMMA StreamsStep ==
  ASSUME ServiceInv, [AdapterNext]_adapterVars
  PROVE  \/ streams' = streams
         \/ \E T \in SUBSET call.group : Writes("rewards", T) \/ Writes("rejects", T)
         \/ call.at = "seal" /\ Writes("seals", {CallGroup})
<1> USE DEF Append1, Writes
<1>0. call.new \subseteq call.group
  BY DEF ServiceInv, ServiceShapes
<1>1. CASE AppendRewards
  BY <1>0, <1>1 DEF AppendRewards
<1>2. CASE AppendRejects
  <2>1. call.group \ call.new \in SUBSET call.group
    OBVIOUS
  <2> QED
    BY <1>2, <2>1 DEF AppendRejects
<1>3. CASE AppendSeal
  BY <1>3 DEF AppendSeal
<1>4. CASE OracleLog
  BY <1>4 DEF OracleLog
<1>5. ASSUME ~AppendRewards, ~AppendRejects, ~AppendSeal, ~OracleLog
      PROVE  streams' = streams
  BY <1>5 DEF AdapterNext, Score, Verdicts, Connect, Insert, Commit, Return, BeginCancellation, Observe,
     LoseControl, SealAdapter, ExportFiles, PublishManifest, ReportPrepared, data, framed, adapterVars
<1> QED
  BY <1>1, <1>2, <1>3, <1>4, <1>5

(* The streams keep their type. *)
LEMMA StreamsType ==
  ASSUME ServiceConstants, ServiceInv, [AdapterNext]_adapterVars
  PROVE  streams' \in [rewards : Seq(Sample), seals : Seq(Group), rejects : Seq(Sample)]
<1>0. /\ streams \in [rewards : Seq(Sample), seals : Seq(Group), rejects : Seq(Sample)]
      /\ call.group \subseteq Sample
  BY DEF ServiceInv, ServiceShapes
<1>1. ASSUME NEW T \in SUBSET call.group, Writes("rewards", T) \/ Writes("rejects", T)
      PROVE  streams' \in [rewards : Seq(Sample), seals : Seq(Group), rejects : Seq(Sample)]
  <2>1. SetToSeq(T) \in Seq(Sample)
    BY <1>0, OneWrite
  <2> HIDE DEF ServiceConstants
  <2>2. streams.rewards \o SetToSeq(T) \in Seq(Sample) /\ streams.rejects \o SetToSeq(T) \in Seq(Sample)
    BY <1>0, <2>1, Concatenated
  <2> QED
    BY <1>0, <1>1, <2>2 DEF Writes
<1>2. ASSUME call.at = "seal", Writes("seals", {CallGroup})
      PROVE  streams' \in [rewards : Seq(Sample), seals : Seq(Group), rejects : Seq(Sample)]
  <2>1. CallGroup \in Group
    BY <1>2, GroupOfCall DEF ServiceInv, CallInv
  <2>2. SetToSeq({CallGroup}) \in Seq(Group)
    BY <2>1, SealWrite
  <2>3. streams.seals \o SetToSeq({CallGroup}) \in Seq(Group)
    BY <1>0, <2>2, Concatenated
  <2> QED
    BY <1>0, <1>2, <2>3 DEF Writes
<1> QED
  BY <1>0, <1>1, <1>2, StreamsStep

(* The flags stay flags, the variant is the one of the start, and returned groups are
   groups of calls.                                                                  *)
LEMMA FlagsStep ==
  ASSUME ServiceInv, [AdapterNext]_adapterVars
  PROVE  failed' \in BOOLEAN /\ closed' \in BOOLEAN /\ variant' = variant
BY DEF ServiceInv, ServiceShapes, AdapterNext, Score, Verdicts, Connect, Insert, AppendRewards, Commit,
   AppendRejects, AppendSeal, OracleLog, Return, BeginCancellation, Observe, LoseControl, SealAdapter,
   ExportFiles, PublishManifest, ReportPrepared, Raise, Swallows, ExportFails, Passes, Full, frame,
   framed, adapterVars

(* Where a call starts, and where it goes *)
Begins == \E g \in Group :
    /\ call.at = "idle" /\ ~closed /\ ~cancelling
    /\ call' = [at |-> IF Plain THEN "log" ELSE "verdicts", group |-> Members(g), new |-> {}]

Advances == \E a \in Steps, n \in SUBSET call.group :
    /\ call.at # "idle" /\ a # "log" /\ (Plain => a = "return")
    /\ call' = [call EXCEPT !.at = a, !.new = n]

(* A call starts, goes on, or is over; while it runs the adapter is neither closed nor
   cancelled.                                                                         *)
LEMMA CallStep ==
  ASSUME ServiceInv, [AdapterNext]_adapterVars
  PROVE  /\ call' = call \/ call' = NoCall \/ Begins \/ Advances
         /\ call' # NoCall => \/ call.at = "idle" /\ call' = call
                            \/ UNCHANGED <<closed, cancelling>>
<1>0. /\ call \in [at : Steps, group : SUBSET Sample, new : SUBSET Sample]
      /\ call.new \subseteq call.group
      /\ Plain => call.at \in {"idle", "log", "return"}
  BY DEF ServiceInv, ServiceShapes, CallInv
<1>a. ASSUME NEW a \in Steps \ {"log"}, ~Plain \/ a = "return", call.at # "idle", Goto(a)
      PROVE  Advances
  <2>1. call' = [call EXCEPT !.at = a, !.new = call.new]
    BY <1>0, <1>a DEF Goto
  <2>2. call.new \in SUBSET call.group
    BY <1>0
  <2> QED
    BY <1>a, <2>1, <2>2 DEF Advances
<1>1. ASSUME NEW g \in Group, Score(g)
      PROVE  call' = call \/ call' = NoCall \/ (Begins /\ UNCHANGED <<closed, cancelling>>)
  BY <1>1 DEF Score, Begins, Passes
<1>2. CASE Verdicts
  <2>1. CASE Raise
    BY <2>1 DEF Raise
  <2>2. ASSUME call' = [call EXCEPT !.new = call.group \ seen,
                             !.at = IF call.group \ seen = {} THEN "rejects"
                                    ELSE IF conn THEN "insert" ELSE "connect"]
        PROVE  Advances
    <3>1. \E a \in {"rejects", "insert", "connect"}, n \in SUBSET call.group :
             call' = [call EXCEPT !.at = a, !.new = n]
      <4>1. call.group \ seen \in SUBSET call.group
        OBVIOUS
      <4>2. CASE call.group \ seen = {}
        BY <1>0, <2>2, <4>1, <4>2
      <4>3. CASE call.group \ seen # {} /\ conn
        BY <1>0, <2>2, <4>1, <4>3
      <4>4. CASE call.group \ seen # {} /\ ~conn
        BY <1>0, <2>2, <4>1, <4>4
      <4> QED
        BY <4>2, <4>3, <4>4
    <3>2. call.at = "verdicts" /\ ~Plain
      BY <1>0, <1>2 DEF Verdicts
    <3> QED
      BY <3>1, <3>2 DEF Advances, Steps
  <2> QED
    BY <1>2, <2>1, <2>2 DEF Verdicts, frame
<1>3. CASE Connect
  BY <1>0, <1>3, <1>a DEF Connect, Raise, Steps, frame
<1>4. CASE Insert
  <2>1. call.new \ claims \in SUBSET call.group
    BY <1>0
  <2>2. ASSUME call' = [call EXCEPT !.new = @ \ claims, !.at = "append"]
        PROVE  Advances
    <3>1. call' = [call EXCEPT !.at = "append", !.new = call.new \ claims]
      BY <1>0, <2>2
    <3> QED
      BY <1>0, <1>4, <2>1, <3>1 DEF Insert, Advances, Steps
  <2> QED
    BY <1>4, <2>2 DEF Insert, Raise, frame
<1>5. CASE AppendRewards
  BY <1>0, <1>5, <1>a DEF AppendRewards, Raise, Steps, frame
<1>6. CASE Commit
  BY <1>0, <1>6, <1>a DEF Commit, Raise, Steps, frame
<1>7. CASE AppendRejects
  BY <1>0, <1>7, <1>a DEF AppendRejects, Steps, frame
<1>8. CASE AppendSeal
  BY <1>0, <1>8, <1>a DEF AppendSeal, Steps, frame
<1>9. CASE OracleLog
  BY <1>0, <1>9, <1>a DEF OracleLog, Steps, frame
<1>10. CASE Return
  BY <1>10 DEF Return, Raise
<1>11. ASSUME ~(\E g \in Group : Score(g)), ~Verdicts, ~Connect, ~Insert, ~AppendRewards, ~Commit,
              ~AppendRejects, ~AppendSeal, ~OracleLog, ~Return
       PROVE  /\ call' = call
              /\ call.at = "idle" \/ UNCHANGED <<closed, cancelling>>
  BY <1>11 DEF AdapterNext, BeginCancellation, Observe, LoseControl, SealAdapter, ExportFiles,
     PublishManifest, ReportPrepared, framed, adapterVars
<1>12. ASSUME (\E g \in Group : Score(g)) \/ Verdicts \/ Connect \/ Insert \/ AppendRewards \/ Commit
              \/ AppendRejects \/ AppendSeal \/ OracleLog \/ Return
       PROVE  UNCHANGED <<closed, cancelling>>
  BY <1>12 DEF Score, Verdicts, Connect, Insert, AppendRewards, Commit, AppendRejects, AppendSeal,
     OracleLog, Return, frame
<1>13. call' = call \/ call' = NoCall \/ Begins \/ Advances
  BY <1>1, <1>2, <1>3, <1>4, <1>5, <1>6, <1>7, <1>8, <1>9, <1>10, <1>11
<1> QED
  BY <1>11, <1>12, <1>13

(* Lines are added to the streams and never removed. *)
LEMMA StreamsGrow ==
  ASSUME ServiceConstants, ServiceInv, [AdapterNext]_adapterVars
  PROVE  /\ Range(streams.rewards) \subseteq Range(streams'.rewards)
         /\ Range(streams.seals) \subseteq Range(streams'.seals)
<1>0. /\ streams \in [rewards : Seq(Sample), seals : Seq(Group), rejects : Seq(Sample)]
      /\ call.group \subseteq Sample
  BY DEF ServiceInv, ServiceShapes
<1>1. ASSUME NEW T \in SUBSET call.group, Writes("rewards", T) \/ Writes("rejects", T)
      PROVE  /\ Range(streams.rewards) \subseteq Range(streams'.rewards)
             /\ Range(streams.seals) \subseteq Range(streams'.seals)
  <2>1. SetToSeq(T) \in Seq(Sample)
    BY <1>0, OneWrite
  <2>2. Range(streams.rewards) \subseteq Range(streams.rewards \o SetToSeq(T))
    BY <1>0, <2>1, Concatenated
  <2>3. /\ streams'.rewards \in {streams.rewards, streams.rewards \o SetToSeq(T)}
        /\ streams'.seals = streams.seals
    BY <1>0, <1>1 DEF Writes
  <2> QED
    BY <2>2, <2>3
<1>2. ASSUME call.at = "seal", Writes("seals", {CallGroup})
      PROVE  /\ Range(streams.rewards) \subseteq Range(streams'.rewards)
             /\ Range(streams.seals) \subseteq Range(streams'.seals)
  <2>1. CallGroup \in Group
    BY <1>2, GroupOfCall DEF ServiceInv, CallInv
  <2>2. SetToSeq({CallGroup}) \in Seq(Group)
    BY <2>1, SealWrite
  <2>3. Range(streams.seals) \subseteq Range(streams.seals \o SetToSeq({CallGroup}))
    BY <1>0, <2>2, Concatenated
  <2>4. /\ streams'.seals = streams.seals \o SetToSeq({CallGroup})
        /\ streams'.rewards = streams.rewards
    BY <1>0, <1>2 DEF Writes
  <2> QED
    BY <2>3, <2>4
<1> QED
  BY <1>1, <1>2, StreamsStep

(* Everything the adapter holds keeps its type. *)
LEMMA ShapesStep ==
  ASSUME ServiceConstants, ServiceInv, [AdapterNext]_adapterVars
  PROVE  ServiceShapes'
<1>0. ServiceShapes
  BY DEF ServiceInv
<1>1. \A g \in Group : Members(g) \in SUBSET Sample
  BY DEF Members
<1>2. /\ call' \in [at : Steps, group : SUBSET Sample, new : SUBSET Sample]
      /\ call'.new \subseteq call'.group
  <2>1. ASSUME NEW a \in Steps, NEW n \in SUBSET call.group, call' = [call EXCEPT !.at = a, !.new = n]
        PROVE  /\ call' \in [at : Steps, group : SUBSET Sample, new : SUBSET Sample]
               /\ call'.new \subseteq call'.group
    BY <1>0, <2>1 DEF ServiceShapes
  <2>2. CASE Begins
    BY <1>1, <2>2 DEF Begins, Steps
  <2>3. CASE call' = NoCall
    BY <2>3 DEF NoCall, Steps
  <2> QED
    BY <1>0, <2>1, <2>2, <2>3, CallStep DEF Advances, ServiceShapes
<1>3. seen' \subseteq Sample /\ claims' \subseteq Sample
  BY <1>0 DEF ServiceShapes, AdapterNext, Score, Verdicts, Connect, Insert, AppendRewards, Commit,
     AppendRejects, AppendSeal, OracleLog, Return, BeginCancellation, Observe, LoseControl,
     SealAdapter, ExportFiles, PublishManifest, ReportPrepared, Reset, data, framed, adapterVars
<1>4. returned' \subseteq Group
  <2>1. returned' = returned \/ (Return /\ returned' = returned \union {CallGroup})
    BY DEF AdapterNext, Score, Verdicts, Connect, Insert, AppendRewards, Commit, AppendRejects,
       AppendSeal,
       OracleLog, Return, BeginCancellation, Observe, LoseControl, SealAdapter, ExportFiles,
       PublishManifest, ReportPrepared, frame, framed, adapterVars
  <2>2. Return => CallGroup \in Group
    BY GroupOfCall DEF Return, ServiceInv, CallInv
  <2> QED
    BY <1>0, <2>1, <2>2 DEF ServiceShapes
<1>5. export' \in [at : {"none", "files", "manifest", "report", "done"}, rewards : Seq(Sample),
                   seals : Seq(Group), claims : SUBSET Sample, fatal : BOOLEAN,
                   manifest : BOOLEAN, prepared : BOOLEAN]
  <2>1. ASSUME ExportFiles PROVE export' = export \/ (\E a \in {"done"} : ToExport(a)) \/
           export' = [export EXCEPT !.at = "manifest", !.rewards = streams.rewards,
                          !.seals = streams.seals, !.claims = claims, !.fatal = failed]
    BY <2>1 DEF ExportFiles, ExportFails
  <2>2. streams.rewards \in Seq(Sample) /\ streams.seals \in Seq(Group)
    BY <1>0 DEF ServiceShapes
  <2>3. CASE ExportFiles
    BY <1>0, <2>1, <2>2, <2>3 DEF ServiceShapes, ToExport
  <2>4. CASE SealAdapter \/ PublishManifest \/ ReportPrepared
    BY <1>0, <2>4 DEF ServiceShapes, SealAdapter, PublishManifest, ReportPrepared, ToExport,
       ExportFails
  <2>5. ASSUME ~ExportFiles, ~SealAdapter, ~PublishManifest, ~ReportPrepared
        PROVE  export' = export
    BY <2>5 DEF AdapterNext, Score, Verdicts, Connect, Insert, AppendRewards, Commit, AppendRejects,
       AppendSeal, OracleLog, Return, BeginCancellation, Observe, LoseControl, frame, adapterVars
  <2> QED
    BY <1>0, <2>3, <2>4, <2>5 DEF ServiceShapes
<1> QED
  BY <1>2, <1>3, <1>4, <1>5, FlagsStep, StreamsType DEF ServiceShapes

(* A call stays about one group, of an adapter that is open and not cancelled. *)
LEMMA CallInvStep ==
  ASSUME ServiceInv, [AdapterNext]_adapterVars
  PROVE  CallInv'
<1>0. CallInv /\ ServiceShapes
  BY DEF ServiceInv
<1>1. Plain' <=> Plain
  BY FlagsStep DEF Plain
<1>2. CASE call' = NoCall
  BY <1>2 DEF CallInv, NoCall
<1>3. CASE call' # NoCall /\ Begins
  <2>1. UNCHANGED <<closed, cancelling>>
    BY <1>0, <1>3, CallStep DEF Begins, CallInv
  <2> QED
    BY <1>1, <1>3, <2>1 DEF Begins, CallInv, Members
<1>4. CASE call' # NoCall /\ Advances
  <2>1. UNCHANGED <<closed, cancelling>> /\ call'.group = call.group /\ call.at # "idle"
        /\ call'.at # "log" /\ (Plain => call'.at = "return")
    BY <1>0, <1>4, CallStep DEF Advances, ServiceShapes
  <2> QED
    BY <1>0, <1>1, <2>1 DEF CallInv, Members
<1>5. CASE call' # NoCall /\ call' = call
  BY <1>0, <1>1, <1>5, CallStep DEF CallInv, Members
<1> QED
  BY <1>2, <1>3, <1>4, <1>5, CallStep

(* Between calls nothing is written and nothing returned. *)
LEMMA IdleStep ==
  ASSUME [AdapterNext]_adapterVars, call.at = "idle"
  PROVE  UNCHANGED <<claims, seen, streams, returned>>
BY DEF AdapterNext, Score, Verdicts, Connect, Insert, AppendRewards, Commit, AppendRejects, AppendSeal,
   OracleLog, Return, BeginCancellation, Observe, LoseControl, SealAdapter, ExportFiles,
   PublishManifest, ReportPrepared, data, framed, adapterVars

(* An export stays one of the streams: they are written no more. *)
LEMMA ExportStep ==
  ASSUME ServiceInv, [AdapterNext]_adapterVars
  PROVE  ExportInv'
<1>0. ExportInv /\ CallInv /\ ServiceShapes
  BY DEF ServiceInv
<1>1. closed => closed'
  BY DEF AdapterNext, Score, Verdicts, Connect, Insert, AppendRewards, Commit, AppendRejects, AppendSeal,
     OracleLog, Return, BeginCancellation, Observe, LoseControl, SealAdapter, ExportFiles,
     PublishManifest, ReportPrepared, Passes, framed, adapterVars
<1>2. closed => UNCHANGED <<claims, streams>>
  BY <1>0, IdleStep DEF CallInv
<1>3. failed => failed'
  BY FailureStays
<1>4. CASE ExportFiles
  <2>1. /\ export.at = "files" /\ closed
        /\ \/ export' = [export EXCEPT !.at = "manifest", !.rewards = streams.rewards,
                            !.seals = streams.seals, !.claims = claims, !.fatal = failed]
           \/ export' = [export EXCEPT !.at = "done"]
    BY <1>0, <1>4 DEF ExportFiles, ExportFails, ToExport, ExportInv
  <2>2. CASE export' = [export EXCEPT !.at = "manifest", !.rewards = streams.rewards,
                            !.seals = streams.seals, !.claims = claims, !.fatal = failed]
    <3>1. /\ export'.rewards = streams.rewards /\ export'.seals = streams.seals
          /\ export'.claims = claims /\ export'.fatal = failed
      BY <1>0, <2>2 DEF ServiceShapes
    <3> QED
      BY <1>1, <1>2, <1>3, <2>1, <3>1 DEF ExportInv
  <2>3. CASE export' = [export EXCEPT !.at = "done"]
    <3>1. /\ export'.rewards = export.rewards /\ export'.seals = export.seals /\ export'.at = "done"
          /\ export'.claims = export.claims /\ export'.fatal = export.fatal
          /\ export'.prepared = export.prepared
      BY <1>0, <2>3 DEF ServiceShapes
    <3> QED
      BY <1>0, <1>1, <1>2, <1>3, <2>1, <3>1 DEF ExportInv
  <2> QED
    BY <2>1, <2>2, <2>3
<1>5. CASE SealAdapter
  <2>1. /\ export.at = "none"
        /\ export' = export \/ (closed' /\ export' = [export EXCEPT !.at = "files"])
    BY <1>5 DEF SealAdapter, ToExport
  <2>2. CASE closed' /\ export' = [export EXCEPT !.at = "files"]
    <3>1. /\ export'.rewards = export.rewards /\ export'.seals = export.seals /\ export'.at = "files"
          /\ export'.claims = export.claims /\ export'.fatal = export.fatal
          /\ export'.prepared = export.prepared
      BY <1>0, <2>2 DEF ServiceShapes
    <3> QED
      BY <1>0, <1>1, <1>2, <1>3, <2>2, <3>1 DEF ExportInv
  <2> QED
    BY <1>0, <1>1, <1>2, <1>3, <2>1, <2>2 DEF ExportInv
<1>6. CASE PublishManifest \/ ReportPrepared
  <2>1. export.at \in {"manifest", "report"} /\ closed
    BY <1>0, <1>6 DEF PublishManifest, ReportPrepared, ExportInv
  <2>2. /\ export'.rewards = export.rewards /\ export'.seals = export.seals
        /\ export'.claims = export.claims /\ export'.fatal = export.fatal
    BY <1>0, <1>6 DEF ServiceShapes, PublishManifest, ReportPrepared, ExportFails, ToExport
  <2> QED
    BY <1>0, <1>1, <1>2, <1>3, <2>1, <2>2 DEF ExportInv
<1>7. ASSUME ~ExportFiles, ~SealAdapter, ~PublishManifest, ~ReportPrepared
      PROVE  export' = export
  BY <1>7 DEF AdapterNext, Score, Verdicts, Connect, Insert, AppendRewards, Commit, AppendRejects,
     AppendSeal, OracleLog, Return, BeginCancellation, Observe, LoseControl, frame, adapterVars
<1>8. CASE export' = export
  BY <1>0, <1>1, <1>2, <1>3, <1>8 DEF ExportInv
<1> QED
  BY <1>4, <1>5, <1>6, <1>7, <1>8

(* What a call adds, of an adapter that does not fail *)
LEMMA ReturnedStep ==
  ASSUME ServiceConstants, ServiceInv, [AdapterNext]_adapterVars, ~failed'
  PROVE  ReturnedInv'
<1>0. ~failed /\ ServiceShapes /\ CallInv /\ ReturnedInv /\ (~Plain => LogInv)
  BY FailureStays DEF ServiceInv
<1>1. Plain' <=> Plain
  BY FlagsStep DEF Plain
<1>2. /\ Range(streams.rewards) \subseteq Range(streams'.rewards)
      /\ Range(streams.seals) \subseteq Range(streams'.seals)
  BY <1>0, StreamsGrow
<1>3. CASE returned' = returned
  <2>1. \A g \in returned : /\ Members(g) \subseteq Range(streams'.rewards)
                            /\ ~Plain => g \in Range(streams'.seals)
    BY <1>0, <1>2 DEF ReturnedInv
  <2>2. ASSUME Plain, call'.at = "return"
        PROVE  call'.group \subseteq Range(streams'.rewards)
    <3>1. CASE call' = call
      BY <1>0, <1>2, <2>2, <3>1 DEF ReturnedInv
    <3>2. CASE call' # call
      <4>a. call.at \in {"idle", "log", "return"} /\ call' # NoCall
        BY <1>0, <2>2 DEF CallInv, NoCall
      <4>b. ASSUME NEW g \in Group, Score(g)
            PROVE  FALSE
        BY <2>2, <3>2, <4>a, <4>b DEF Score, NoCall
      <4>c. ~Verdicts /\ ~Connect /\ ~Insert /\ ~AppendRewards /\ ~Commit /\ ~AppendRejects
            /\ ~AppendSeal /\ ~Return
        BY <4>a DEF Verdicts, Connect, Insert, AppendRewards, Commit, AppendRejects, AppendSeal,
           Return, Raise
      <4>d. OracleLog
        BY <3>2, <4>b, <4>c DEF AdapterNext, BeginCancellation, Observe, LoseControl, SealAdapter,
           ExportFiles, PublishManifest, ReportPrepared, framed, adapterVars
      <4>1. OracleLog /\ Writes("rewards", call.group)
        BY <1>0, <4>d DEF OracleLog, Swallows, Append1, Writes
      <4>2. call'.group = call.group
        BY <1>0, <4>1 DEF OracleLog, Goto, ServiceShapes
      <4>3. streams'.rewards = streams.rewards \o SetToSeq(call.group)
        BY <1>0, <4>1 DEF Writes, ServiceShapes
      <4>4. SetToSeq(call.group) \in Seq(Sample) /\ Range(SetToSeq(call.group)) = call.group
        BY <1>0, OneWrite DEF ServiceShapes
      <4> QED
        BY <1>0, <4>2, <4>3, <4>4, Concatenated DEF ServiceShapes
    <3> QED
      BY <3>1, <3>2
  <2> QED
    BY <1>1, <1>3, <2>1, <2>2 DEF ReturnedInv, Members
<1>4. CASE returned' # returned
  <2>1. /\ call.at = "return" /\ returned' = returned \union {CallGroup} /\ streams' = streams
        /\ call' = NoCall
    BY <1>4 DEF AdapterNext, Score, Verdicts, Connect, Insert, AppendRewards, Commit, AppendRejects,
       AppendSeal, OracleLog, Return, BeginCancellation, Observe, LoseControl, SealAdapter,
       ExportFiles, PublishManifest, ReportPrepared, data, frame, framed, adapterVars
  <2>2. call.group \subseteq Range(streams.rewards) /\ (~Plain => CallGroup \in Range(streams.seals))
    BY <1>0, <2>1 DEF ReturnedInv, LogInv
  <2>3. call.group = Members(CallGroup)
    BY <1>0, <2>1, GroupOfCall DEF CallInv
  <2> QED
    BY <1>0, <1>1, <2>1, <2>2, <2>3 DEF ReturnedInv, Members, NoCall
<1> QED
  BY <1>3, <1>4

(* The log and the claims stay in step, of an adapter that does not fail. *)
LEMMA LogStep ==
  ASSUME ServiceConstants, ServiceInv, [AdapterNext]_adapterVars, ~failed', ~Plain
  PROVE  LogInv'
<1>0. ~failed /\ ServiceShapes /\ CallInv /\ LogInv
  BY FailureStays DEF ServiceInv
<1>1. call.at # "log" /\ call \in [at : Steps, group : SUBSET Sample, new : SUBSET Sample]
  BY <1>0 DEF CallInv, ServiceShapes
<1>2. ASSUME NEW g \in Group, Score(g)
      PROVE  LogInv'
  <2>1. /\ call.at = "idle" /\ UNCHANGED <<claims, seen, streams>>
        /\ call' = call \/ call'.at \in {"idle", "verdicts"}
    BY <1>2 DEF Score, data, NoCall
  <2> QED
    BY <1>0, <2>1 DEF LogInv
<1>3. CASE Verdicts
  <2>1. /\ call.at = "verdicts" /\ UNCHANGED <<claims, seen, streams>>
        /\ call' = [call EXCEPT !.new = call.group \ seen,
                             !.at = IF call.group \ seen = {} THEN "rejects"
                                    ELSE IF conn THEN "insert" ELSE "connect"]
    BY <1>3 DEF Verdicts, data, Raise
  <2>2. call'.group = call.group /\ call'.new = call.group \ seen
    BY <1>1, <2>1
  <2>3. call'.at \in {"rejects", "insert", "connect"} /\ (call'.at = "rejects" => call.group \ seen = {})
    BY <1>1, <2>1
  <2> QED
    BY <1>0, <2>1, <2>2, <2>3 DEF LogInv
<1>4. CASE Connect
  <2>1. call.at = "connect" /\ UNCHANGED <<claims, seen, streams>> /\ Goto("insert")
    BY <1>4 DEF Connect, Raise
  <2>2. call'.group = call.group /\ call'.new = call.new /\ call'.at = "insert"
    BY <1>1, <2>1 DEF Goto
  <2> QED
    BY <1>0, <2>1, <2>2 DEF LogInv
<1>5. CASE Insert
  <2>1. /\ call.at = "insert" /\ UNCHANGED <<claims, seen, streams>>
        /\ call' = [call EXCEPT !.new = @ \ claims, !.at = "append"]
    BY <1>5 DEF Insert, Raise
  <2>2. call'.group = call.group /\ call'.new = call.new \ claims /\ call'.at = "append"
    BY <1>1, <2>1
  <2> QED
    BY <1>0, <2>1, <2>2 DEF LogInv
<1>6. CASE AppendRewards
  <2>1. /\ call.at = "append" /\ UNCHANGED <<claims, seen>> /\ Goto("commit")
        /\ Writes("rewards", call.new)
    BY <1>6 DEF AppendRewards, Raise, Append1, Writes
  <2>2. call'.group = call.group /\ call'.new = call.new /\ call'.at = "commit"
    BY <1>1, <2>1 DEF Goto
  <2>3. streams'.rewards = streams.rewards \o SetToSeq(call.new)
    BY <1>0, <2>1 DEF Writes, ServiceShapes
  <2>4. /\ SetToSeq(call.new) \in Seq(Sample) /\ Range(SetToSeq(call.new)) = call.new
        /\ IsInjective(SetToSeq(call.new))
    BY <1>1, OneWrite
  <2>5. streams.rewards \in Seq(Sample) /\ Range(streams.rewards) = claims
        /\ Range(streams.rewards) \intersect call.new = {} /\ IsInjective(streams.rewards)
    BY <1>0, <2>1 DEF LogInv, ServiceShapes
  <2>6. Range(streams'.rewards) = claims \union call.new /\ IsInjective(streams'.rewards)
    BY <2>3, <2>4, <2>5, Concatenated
  <2> QED
    BY <1>0, <2>1, <2>2, <2>6 DEF LogInv
<1>7. CASE Commit
  <2>1. /\ call.at = "commit" /\ streams' = streams /\ Goto("rejects")
        /\ claims' = claims \union call.new /\ seen' = seen \union call.group
    BY <1>7 DEF Commit, Raise
  <2>2. call'.group = call.group /\ call'.new = call.new /\ call'.at = "rejects"
    BY <1>1, <2>1 DEF Goto
  <2> QED
    BY <1>0, <2>1, <2>2 DEF LogInv
<1>8. CASE AppendRejects
  <2>1. /\ call.at = "rejects" /\ UNCHANGED <<claims, seen>> /\ Goto("seal")
        /\ Writes("rejects", call.group \ call.new)
    BY <1>8 DEF AppendRejects, Swallows, Append1, Writes
  <2>2. call'.group = call.group /\ call'.new = call.new /\ call'.at = "seal"
    BY <1>1, <2>1 DEF Goto
  <2>3. streams'.rewards = streams.rewards /\ streams'.seals = streams.seals
    BY <1>0, <2>1 DEF Writes, ServiceShapes
  <2> QED
    BY <1>0, <2>1, <2>2, <2>3 DEF LogInv
<1>9. CASE AppendSeal
  <2>1. /\ call.at = "seal" /\ UNCHANGED <<claims, seen>> /\ Goto("return")
        /\ Writes("seals", {CallGroup})
    BY <1>9 DEF AppendSeal, Swallows, Append1, Writes
  <2>2. call'.group = call.group /\ call'.new = call.new /\ call'.at = "return"
    BY <1>1, <2>1 DEF Goto
  <2>3. streams'.rewards = streams.rewards /\ streams'.seals = streams.seals \o SetToSeq({CallGroup})
    BY <1>0, <2>1 DEF Writes, ServiceShapes
  <2>4. CallGroup \in Group
    BY <1>0, <2>1, GroupOfCall DEF CallInv
  <2>5. SetToSeq({CallGroup}) \in Seq(Group) /\ Range(SetToSeq({CallGroup})) = {CallGroup}
    BY <2>4, SealWrite
  <2>6. CallGroup \in Range(streams'.seals)
    <3>1. streams.seals \in Seq(Group)
      BY <1>0 DEF ServiceShapes
    <3>2. Range(streams.seals \o SetToSeq({CallGroup}))
             = Range(streams.seals) \union Range(SetToSeq({CallGroup}))
      BY <2>5, <3>1, Concatenated
    <3> QED
      BY <2>3, <2>5, <3>2
  <2>7. CallGroup' = CallGroup
    BY <2>2 DEF CallGroup
  <2> QED
    BY <1>0, <2>1, <2>2, <2>3, <2>6, <2>7 DEF LogInv
<1>10. CASE Return
  <2>1. call' = NoCall /\ call.at = "return" /\ UNCHANGED <<claims, seen, streams>>
    BY <1>10 DEF Return, data, Raise
  <2> QED
    BY <1>0, <2>1 DEF LogInv, NoCall
<1>11. ASSUME ~(\E g \in Group : Score(g)), ~Verdicts, ~Connect, ~Insert, ~AppendRewards, ~Commit,
              ~AppendRejects, ~AppendSeal, ~Return
       PROVE  UNCHANGED <<call, claims, seen, streams>>
  BY <1>1, <1>11 DEF AdapterNext, OracleLog, BeginCancellation, Observe, LoseControl, SealAdapter,
     ExportFiles, PublishManifest, ReportPrepared, data, framed, adapterVars
<1>12. CASE UNCHANGED <<call, claims, seen, streams>>
  <2>1. CallGroup' = CallGroup
    BY <1>12 DEF CallGroup
  <2> QED
    BY <1>0, <1>12, <2>1 DEF LogInv
<1> QED
  BY <1>2, <1>3, <1>4, <1>5, <1>6, <1>7, <1>8, <1>9, <1>10, <1>11, <1>12

(* The first state, and every step *)
LEMMA ServiceInit == ServiceConstants /\ AdapterInit => ServiceInv
<1> SUFFICES ASSUME ServiceConstants, AdapterInit PROVE ServiceInv
  OBVIOUS
<1>1. ServiceShapes
  <2>1. <<>> \in Seq(Sample) /\ <<>> \in Seq(Group)
    OBVIOUS
  <2> QED
    BY <2>1 DEF AdapterInit, ServiceShapes, NoCall, NoExport, Steps
<1>2. Range(streams.rewards) = {} /\ IsInjective(streams.rewards)
  BY DEF AdapterInit, Range, IsInjective
<1> QED
  BY <1>1, <1>2 DEF AdapterInit, ServiceInv, CallInv, ExportInv, ReturnedInv, LogInv, NoCall, NoExport

LEMMA ServiceStep ==
  ASSUME ServiceConstants, ServiceInv, [AdapterNext]_adapterVars
  PROVE  ServiceInv'
<1>1. ServiceShapes' /\ CallInv' /\ ExportInv'
  BY ShapesStep, CallInvStep, ExportStep
<1>2. ~failed' => ReturnedInv'
  BY ReturnedStep
<1>3. ~failed' /\ ~Plain' => LogInv'
  <2>1. Plain' <=> Plain
    BY FlagsStep DEF Plain
  <2> QED
    BY <2>1, LogStep
<1> QED
  BY <1>1, <1>2, <1>3 DEF ServiceInv

(* The inductive invariant of the adapter *)
THEOREM ServiceInvariant == AdapterSpec => []ServiceInv
<1>1. AdapterInit => ServiceInv
  BY ServiceAssumption, ServiceInit
<1>2. ServiceInv /\ [AdapterNext]_adapterVars => ServiceInv'
  BY ServiceAssumption, ServiceStep
<1> QED
  BY <1>1, <1>2, PTL DEF AdapterSpec

(* A sample that occurs among the lines, and occurs once if they are all different *)
LEMMA CountFacts ==
  ASSUME NEW S, NEW seq \in Seq(S), NEW x \in Range(seq)
  PROVE  /\ Count(seq, x) >= 1
         /\ IsInjective(seq) => Count(seq, x) = 1
<1> DEFINE here == {i \in DOMAIN seq : seq[i] = x}
<1>1. DOMAIN seq = 1 .. Len(seq) /\ Len(seq) \in Nat
  OBVIOUS
<1>2. IsFiniteSet(here)
  <2>1. IsFiniteSet(1 .. Len(seq))
    BY <1>1, FS_Interval
  <2>2. here \subseteq 1 .. Len(seq)
    BY <1>1
  <2> HIDE DEF here
  <2> QED
    BY <2>1, <2>2, FS_Subset
<1>3. PICK i \in DOMAIN seq : seq[i] = x
  BY DEF Range
<1>4. Cardinality(here) \in Nat /\ Cardinality(here) # 0
  BY <1>2, <1>3, FS_EmptySet, FS_CardinalityType
<1>5. IsInjective(seq) => here = {i}
  BY <1>3 DEF IsInjective
<1>6. IsInjective(seq) => Cardinality(here) = 1
  BY <1>5, FS_Singleton
<1> HIDE DEF here
<1>7. Count(seq, x) = Cardinality(here)
  BY DEF Count, here
<1> QED
  BY <1>4, <1>6, <1>7

(* A prepared export has everything that was ever returned to the trainer, although
   the reward model swallows the failure of some writes: each sample with its line
   (one, where claims are kept), its claim and the seal of its group.               *)
THEOREM ExportsAreWhole == AdapterSpec => []ExportIsWhole
<1>1. ServiceInv => ExportIsWhole
  <2> SUFFICES ASSUME ServiceInv, export.prepared, ~failed PROVE ExportIsWhole
    BY DEF ExportIsWhole
  <2>1. /\ export.rewards = streams.rewards /\ export.seals = streams.seals
        /\ export.claims = claims /\ ~export.fatal /\ call.at = "idle"
    BY DEF ServiceInv, ExportInv, CallInv
  <2>2. streams.rewards \in Seq(Sample) /\ streams.seals \in Seq(Group) /\ returned \subseteq Group
    BY DEF ServiceInv, ServiceShapes
  <2>3. ~Plain => Range(streams.rewards) = claims /\ IsInjective(streams.rewards)
    BY <2>1 DEF ServiceInv, LogInv
  <2>4. ASSUME NEW g \in returned, NEW s \in Sample, GroupOf[s] = g
        PROVE  /\ Count(export.rewards, s) >= 1
               /\ ~Plain => /\ Count(export.rewards, s) = 1
                            /\ s \in export.claims /\ Count(export.seals, g) >= 1
    <3>1. s \in Range(streams.rewards) /\ (~Plain => g \in Range(streams.seals))
      BY <2>4 DEF ServiceInv, ReturnedInv, Members
    <3>2. Count(streams.rewards, s) >= 1 /\ (IsInjective(streams.rewards) => Count(streams.rewards, s) = 1)
      BY <2>2, <3>1, CountFacts
    <3>3. ~Plain => Count(streams.seals, g) >= 1
      BY <2>2, <3>1, CountFacts
    <3> QED
      BY <2>1, <2>3, <3>1, <3>2, <3>3
  <2> QED
    BY <2>1, <2>3, <2>4 DEF ExportIsWhole
<1> QED
  BY <1>1, ServiceInvariant, PTL

(* Nothing is returned after a failure, swallowed or not, after the end, in a
   cancellation, or beyond a limit.                                                  *)
THEOREM ReturnsStayInOrder == AdapterSpec => ReturnsInOrder
<1> DEFINE Step == returned' # returned =>
          /\ ~failed /\ ~closed /\ ~cancelling
          /\ Cardinality(seen) <= Limits.seen_ids
          /\ MemLog => Lines <= Limits.log_bytes
<1>1. ServiceInv /\ [AdapterNext]_adapterVars => [Step]_adapterVars
  <2> SUFFICES ASSUME ServiceInv, AdapterNext, returned' # returned PROVE Step
    OBVIOUS
  <2>1. Return /\ Passes /\ ~Over
    BY DEF AdapterNext, Score, Verdicts, Connect, Insert, AppendRewards, Commit, AppendRejects,
       AppendSeal,
       OracleLog, Return, BeginCancellation, Observe, LoseControl, SealAdapter, ExportFiles,
       PublishManifest, ReportPrepared, frame, framed
  <2>2. ~cancelling
    BY <2>1 DEF ServiceInv, CallInv, Return
  <2>3. Cardinality(seen) \in Nat
    <3>1. IsFiniteSet(seen)
      BY ServiceAssumption, FS_Subset DEF ServiceInv, ServiceShapes, ServiceConstants
    <3> QED
      BY <3>1, FS_CardinalityType
  <2>4. Lines \in Nat
    BY DEF Lines, ServiceInv, ServiceShapes
  <2>5. Limits.log_bytes \in Nat /\ Limits.seen_ids \in Nat
    BY ServiceAssumption DEF ServiceConstants
  <2> QED
    BY <2>1, <2>2, <2>3, <2>4, <2>5 DEF Passes, Over
<1> QED
  BY <1>1, ServiceInvariant, PTL DEF AdapterSpec, ReturnsInOrder

=============================================================================
