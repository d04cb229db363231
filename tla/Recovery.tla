------------------------------ MODULE Recovery ------------------------------
(***************************************************************************)
(* The checkpoint directory and the four processes that share it with      *)
(* nothing but its names: the trainer, restarted by the automatic recovery *)
(* loop (scripts/phase3_auto_recover.sh); the pruner that keeps the newest *)
(* completed checkpoints (scripts/checkpoint_retention.py); the watcher    *)
(* that signs every checkpoint with a token (scripts/phase2_manifest.py);  *)
(* the injector that kills the trainer once.                               *)
(*                                                                         *)
(* A checkpoint is a directory; the marker file names the last complete    *)
(* one.  Neither is written in one step, nor removed in one.  What a       *)
(* checkpoint holds is the attempt that wrote it.                          *)
(***************************************************************************)
EXTENDS Naturals, FiniteSetsExt, SequencesExt

CONSTANTS Target,     \* the last step, RTX_NUM_ROLLOUT; every step is saved
          Keep,       \* RTX_CKPT_KEEP
          MaxRetries, \* RTX_MAX_RETRIES
          KillAfter,  \* RTX_KILL_AFTER_ITER, 0 for none
          MaxCrash,   \* bound on the crashes of the trainer
          MaxWatch,   \* bound on the starts of the watcher
          None, Torn

ASSUME RecoveryAssumption ==
    /\ Target \in Nat \ {0} /\ Keep \in Nat \ {0}
    /\ {MaxRetries, KillAfter, MaxCrash, MaxWatch} \subseteq Nat
    /\ None /= Torn /\ {None, Torn} \cap Nat = {}

Iter == 1..Target

VARIABLES
    dirs,     \* what is in the directory of each step: None, Torn (a part), or who wrote it
    marker,   \* latest_checkpointed_iteration.txt: None, Torn (empty), or a step
    high,     \* history: the last step the marker named
    tokens,   \* sidecar of each step: None, Torn, or what it hashed and the step it follows
    loop,     \* the recovery loop: where it is, the attempt, whether it passes --load
    trainer,  \* the trainer: where it is, the step it works on
    injector, \* "armed", or "gone"
    pruner,   \* one call of prune: the marker it read, what is left to remove
    watcher,  \* one turn of watch: where it is and what it read
    crashes, starts

vars == <<dirs, marker, high, tokens, loop, trainer, injector, pruner, watcher, crashes, starts>>

disk == <<dirs, marker, high, tokens>>
bounds == <<crashes, starts>>

Present == {i \in Iter : dirs[i] /= None}
Whole(i) == dirs[i] \notin {None, Torn}
(* One too few. *)
NewestButOne(n, S) == {i \in S : Cardinality({j \in S : j >= i}) < n}

Newest(n, S) == {i \in S : Cardinality({j \in S : j > i}) < n}

Resting == [at |-> "idle", latest |-> 0, victims |-> {}]
Asleep == [at |-> "off", last |-> 0, cur |-> 0, todo |-> <<>>, prev |-> None, hash |-> None]
Running == loop.at = "wait" /\ trainer.at /= "off"

----------------------------------------------------------------------------
(* The loop starts the training script, which starts the pruner with it. *)
Launch ==
    /\ loop.at = "launch"
    /\ loop' = [loop EXCEPT !.at = "wait", !.attempt = @ + 1]
    /\ trainer' = [at |-> "load", step |-> 0]
    /\ UNCHANGED <<disk, injector, pruner, watcher, bounds>>

Stop(at) == trainer' = [trainer EXCEPT !.at = at]

(* The trainer resumes from the step the marker names, or dies of it. *)
Load ==
    /\ trainer.at = "load"
    /\ \/ /\ ~loop.load
          /\ trainer' = [at |-> "train", step |-> 0]
       \/ /\ loop.load /\ marker \in Iter /\ Whole(marker)
          /\ trainer' = [at |-> "train", step |-> marker]
       \/ /\ loop.load /\ ~(marker \in Iter /\ Whole(marker))
          /\ Stop("off")
    /\ UNCHANGED <<disk, loop, injector, pruner, watcher, bounds>>

(* A step of training and its save: the directory, then the marker. *)
BeginSave ==
    /\ trainer.at = "train" /\ trainer.step < Target
    /\ trainer' = [at |-> "save", step |-> trainer.step + 1]
    /\ dirs' = [dirs EXCEPT ![trainer.step + 1] = Torn]
    /\ UNCHANGED <<marker, high, tokens, loop, injector, pruner, watcher, bounds>>

EndSave ==
    /\ trainer.at = "save"
    /\ trainer' = [trainer EXCEPT !.at = "saved"]
    /\ dirs' = [dirs EXCEPT ![trainer.step] = loop.attempt]
    /\ UNCHANGED <<marker, high, tokens, loop, injector, pruner, watcher, bounds>>

OpenMarker ==
    /\ trainer.at = "saved"
    /\ trainer' = [trainer EXCEPT !.at = "mark"]
    /\ marker' = Torn
    /\ UNCHANGED <<dirs, high, tokens, loop, injector, pruner, watcher, bounds>>

WriteMarker ==
    /\ trainer.at = "mark"
    /\ trainer' = [trainer EXCEPT !.at = "train"]
    /\ marker' = trainer.step /\ high' = trainer.step
    /\ UNCHANGED <<dirs, tokens, loop, injector, pruner, watcher, bounds>>

Finish ==
    /\ trainer.at = "train" /\ trainer.step = Target
    /\ Stop("finished")
    /\ UNCHANGED <<disk, loop, injector, pruner, watcher, bounds>>

Crash ==
    /\ Running /\ trainer.at /= "finished" /\ crashes < MaxCrash
    /\ crashes' = crashes + 1
    /\ Stop("off")
    /\ UNCHANGED <<disk, loop, injector, pruner, watcher, starts>>

(* The injector is a process of its own: it reads the marker every five   *)
(* seconds and kills whatever training it finds.                          *)
Inject ==
    /\ injector = "armed" /\ marker \in Iter /\ marker >= KillAfter
    /\ injector' = "gone"
    /\ IF Running /\ trainer.at /= "finished" THEN Stop("off") ELSE UNCHANGED trainer
    /\ UNCHANGED <<disk, loop, pruner, watcher, bounds>>

----------------------------------------------------------------------------
(* The last attempt is not made. *)
ReturnedEarly ==
    /\ loop.at = "wait" /\ trainer.at \in {"off", "finished"}
    /\ loop' = [loop EXCEPT !.at = IF trainer.at = "finished" THEN "done"
                                   ELSE IF loop.attempt >= MaxRetries THEN "alert" ELSE "plan"]
    /\ pruner' = Resting
    /\ UNCHANGED <<disk, trainer, injector, watcher, bounds>>

(* The training script returned; its trap stopped the pruner where it was. *)
Returned ==
    /\ loop.at = "wait" /\ trainer.at \in {"off", "finished"}
    /\ loop' = [loop EXCEPT !.at = IF trainer.at = "finished" THEN "done"
                                   ELSE IF loop.attempt > MaxRetries THEN "alert" ELSE "plan"]
    /\ pruner' = Resting
    /\ UNCHANGED <<disk, trainer, injector, watcher, bounds>>

(* A marker that is no number is none. *)
PlanLeniently ==
    /\ loop.at = "plan"
    /\ loop' = [loop EXCEPT !.at = "launch", !.load = marker \in Iter]
    /\ UNCHANGED <<disk, trainer, injector, pruner, watcher, bounds>>

(* The plan parses the marker.  What is no number ends the script, which  *)
(* runs under set -e.                                                     *)
Plan ==
    /\ loop.at = "plan"
    /\ loop' = IF marker = Torn THEN [loop EXCEPT !.at = "aborted"]
               ELSE [loop EXCEPT !.at = "launch", !.load = marker /= None]
    /\ UNCHANGED <<disk, trainer, injector, pruner, watcher, bounds>>

----------------------------------------------------------------------------
(* prune *)
PruneRead ==
    /\ loop.at = "wait" /\ pruner.at = "idle" /\ marker \in Iter
    /\ pruner' = [pruner EXCEPT !.at = "list", !.latest = marker]
    /\ UNCHANGED <<disk, loop, trainer, injector, watcher, bounds>>

PruneList ==
    /\ pruner.at = "list"
    /\ LET completed == {i \in Present : i <= pruner.latest}
           victims == completed \ Newest(Keep, completed)
       IN pruner' = IF victims = {} THEN Resting
                    ELSE [pruner EXCEPT !.at = "remove", !.victims = victims]
    /\ UNCHANGED <<disk, loop, trainer, injector, watcher, bounds>>

(* The oldest first: it is too young, or its files go one by one and then *)
(* the directory, if nothing fails on the way.                            *)
PruneNext(gone) ==
    pruner' = IF pruner.victims = {gone} THEN Resting
              ELSE [pruner EXCEPT !.at = "remove", !.victims = @ \ {gone}]

PruneSkip ==
    /\ pruner.at \in {"remove", "removing"}
    /\ PruneNext(Min(pruner.victims))
    /\ UNCHANGED <<disk, loop, trainer, injector, watcher, bounds>>

PruneFiles ==
    /\ pruner.at = "remove"
    /\ pruner' = [pruner EXCEPT !.at = "removing"]
    /\ dirs' = [dirs EXCEPT ![Min(pruner.victims)] = Torn]
    /\ UNCHANGED <<marker, high, tokens, loop, trainer, injector, watcher, bounds>>

PruneDir ==
    /\ pruner.at = "removing"
    /\ dirs' = [dirs EXCEPT ![Min(pruner.victims)] = None]
    /\ PruneNext(Min(pruner.victims))
    /\ UNCHANGED <<marker, high, tokens, loop, trainer, injector, watcher, bounds>>

----------------------------------------------------------------------------
(* audit: the steps with a directory and a sidecar; a torn one raises. *)
Signed == {i \in Present : tokens[i] /= None}
AuditRaises == \E i \in Present : tokens[i] = Torn
LastSigned == IF Signed = {} THEN None ELSE Max(Signed)

WatchStart ==
    /\ watcher.at = "off" /\ starts < MaxWatch
    /\ starts' = starts + 1
    /\ watcher' = [Asleep EXCEPT !.at = "poll"]
    /\ UNCHANGED <<disk, loop, trainer, injector, pruner, crashes>>

WatchDies ==
    /\ watcher.at /= "off" /\ watcher' = Asleep
    /\ UNCHANGED <<disk, loop, trainer, injector, pruner, bounds>>

WatchPoll ==
    /\ watcher.at = "poll" /\ marker \in Iter /\ marker /= watcher.last
    /\ watcher' = [watcher EXCEPT !.at = "list", !.cur = marker]
    /\ UNCHANGED <<disk, loop, trainer, injector, pruner, bounds>>

ToSign == {i \in Present : i > watcher.last /\ i <= watcher.cur}

WatchList ==
    /\ watcher.at = "list"
    /\ watcher' = [watcher EXCEPT !.at = "next", !.todo = SetToSortSeq(ToSign, <)]
    /\ UNCHANGED <<disk, loop, trainer, injector, pruner, bounds>>

WatchNext ==
    /\ watcher.at = "next"
    /\ watcher' =
         IF watcher.todo = <<>> THEN [Asleep EXCEPT !.at = "poll", !.last = watcher.cur]
         ELSE IF tokens[Head(watcher.todo)] /= None THEN [watcher EXCEPT !.todo = Tail(@)]
         ELSE IF AuditRaises THEN Asleep
         ELSE [watcher EXCEPT !.at = "hash", !.prev = LastSigned]
    /\ UNCHANGED <<disk, loop, trainer, injector, pruner, bounds>>

(* weights_hash lists the files, then reads them: those that went in      *)
(* between are missed, or end the watcher.                                *)
WatchHash ==
    /\ watcher.at = "hash"
    /\ watcher' = [watcher EXCEPT !.at = "read", !.hash = dirs[Head(watcher.todo)]]
    /\ UNCHANGED <<disk, loop, trainer, injector, pruner, bounds>>

WatchRead ==
    /\ watcher.at = "read"
    /\ watcher' = IF dirs[Head(watcher.todo)] = watcher.hash THEN [watcher EXCEPT !.at = "open"]
                  ELSE [watcher EXCEPT !.at = "open", !.hash = Torn]
    /\ UNCHANGED <<disk, loop, trainer, injector, pruner, bounds>>

(* write_text: the sidecar is opened, then written. *)
WatchOpen ==
    /\ watcher.at = "open"
    /\ watcher' = [watcher EXCEPT !.at = "write"]
    /\ tokens' = [tokens EXCEPT ![Head(watcher.todo)] = Torn]
    /\ UNCHANGED <<dirs, marker, high, loop, trainer, injector, pruner, bounds>>

WatchWrite ==
    /\ watcher.at = "write"
    /\ tokens' = [tokens EXCEPT ![Head(watcher.todo)] = <<watcher.hash, watcher.prev>>]
    /\ watcher' = [watcher EXCEPT !.at = "next", !.todo = Tail(@), !.prev = None, !.hash = None]
    /\ UNCHANGED <<dirs, marker, high, loop, trainer, injector, pruner, bounds>>

----------------------------------------------------------------------------
Init ==
    /\ dirs = [i \in Iter |-> None] /\ marker = None /\ high = 0
    /\ tokens = [i \in Iter |-> None]
    /\ loop = [at |-> "launch", attempt |-> 0, load |-> FALSE]
    /\ trainer = [at |-> "off", step |-> 0]
    /\ injector = IF KillAfter = 0 THEN "gone" ELSE "armed"
    /\ pruner = Resting /\ watcher = Asleep
    /\ crashes = 0 /\ starts = 0

Training == Load \/ BeginSave \/ EndSave \/ OpenMarker \/ WriteMarker \/ Finish
Looping == Launch \/ Returned \/ Plan
Pruning == PruneRead \/ PruneList \/ PruneSkip \/ PruneFiles \/ PruneDir
Watching == WatchPoll \/ WatchList \/ WatchNext \/ WatchHash \/ WatchRead \/ WatchOpen \/ WatchWrite

Next == \/ Training \/ Looping \/ Pruning \/ Watching
        \/ Crash \/ Inject \/ WatchStart \/ WatchDies

Spec == Init /\ [][Next]_vars

(* The trainer computes and the shell goes on; nothing is assumed of the *)
(* pruner, the watcher and the injector.                                 *)
FairSpec == Spec /\ WF_vars(Training) /\ WF_vars(Looping)

----------------------------------------------------------------------------
(* The checkpoint the marker names is whole, and so are the Keep - 1 before *)
(* it: whatever the pruner, the crashes and the restarts do, there is one   *)
(* to resume from and one to fall back to (checkpoint_retention.py:7-8).    *)
FallbackKept ==
    /\ marker \in Iter => marker = high
    /\ \A i \in Iter : i <= high /\ i + Keep > high => Whole(i)

(* Training resumes after the last step the marker named, never before it: *)
(* a committed step is not trained again (phase3_auto_recover.sh:5).       *)
CommittedNotRetrained ==
    [][\A i \in Iter : i <= high /\ dirs'[i] /= dirs[i] => pruner.at \in {"remove", "removing"}]_vars

(* The loop ends: with the last step committed, or out of retries, or at a *)
(* marker it cannot read, never in another state.                          *)
LoopSettles == <>(\/ loop.at = "done" /\ high = Target
                  \/ loop.at = "alert" /\ loop.attempt = MaxRetries + 1
                  \/ loop.at = "aborted" /\ marker = Torn)
=============================================================================
