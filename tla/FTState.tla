------------------------------ MODULE FTState ------------------------------
(***************************************************************************)
(* The reward-transaction state contract of scripts/ft/state.py: one run   *)
(* directory, the epochs of its owners, the attempts and results of its    *)
(* samples, and the generations (training updates) prepared, proven        *)
(* finalized, committed and recovered in it.                               *)
(*                                                                         *)
(* Everything in the directory is durable and survives a crash; what a     *)
(* process keeps in memory (the Owner object, a commit in flight, a        *)
(* recovery in flight) does not.  Every API call runs under mutation.lock, *)
(* so a call that writes one file is one action.  commit_generation writes *)
(* three files and select_recovery releases the lock before it promotes:   *)
(* these are the calls split into steps, between which the process may     *)
(* crash, a write may fail, or (after the lock gap) another thread may act.*)
(*                                                                         *)
(* Files are abstracted to the fields the contract compares.  A hash is    *)
(* the identity of what it hashes.  A version stands for the pair of       *)
(* policy and verifier version that an attempt binds, a body for the three *)
(* payload hashes, and the directory generation `g` is the model value g.  *)
(***************************************************************************)
EXTENDS Integers, Sequences, FiniteSets, SequencesExt

CONSTANTS Proc,      \* process incarnations (pid, start time, boot id) that may own the run
          Group,     \* logical groups
          K,         \* samples drawn per group
          AttemptId, \* caller-chosen attempt names
          Version,   \* policy/verifier versions a caller may authorize
          Body,      \* payload contents a rollout may return
          Update,    \* logical update ids
          Batches,   \* the sets of updates a caller may put in one generation
          Gen,       \* generation directories (fresh uuids)
          Rank,      \* expected ranks of the backend
          Draws,     \* the draw sequences a caller's data snapshot may hold
          Workers,   \* whether an owner registers a participant: subset of {"none", "alive"}
          None       \* absent record

Sample == Group \X (0 .. K - 1)

Attempts == [sample : Sample, id : AttemptId, epoch : Nat, version : Version]
Receipts == [attempt : Attempts, body : Body, version : Version]
Intents  == [parent : Gen \cup {None}, entries : SUBSET Receipts, updates : SUBSET Update,
             drawn : Draws, consumed : SUBSET Sample, epoch : Nat]

ASSUME ConstantsAssumption ==
    /\ K \in Nat \ {0}
    /\ Draws \subseteq Seq(Sample)
    /\ None \notin Proc \cup Gen \cup Attempts \cup Receipts \cup Intents
    /\ Batches \subseteq SUBSET Update
    /\ Workers \subseteq {"none", "alive"}
    /\ Rank # {}

(* commit_generation between two of its writes, select_recovery around its gap *)
Idle     == [step |-> "idle", gen |-> None, by |-> "none"]
Decision == [stage |-> "none", gen |-> None, floor |-> 0]

VARIABLES
    proc,       \* life of each process: "new", "owner", "closed" (owner.close()) or "exited"
    worker,     \* its registered participant: "none", "alive" or "exited"
    myEpoch,    \* Owner.epoch of the process' Owner object
    epoch,      \* control["epoch"]; -1 while control.json does not exist
    registered, \* control["processes"]: the incarnation whose processes are registered
    attempts,   \* control["attempts"]
    accepted,   \* control["accepted"]
    headHint,   \* control["head"]
    intent,     \* generations/<g>/intent.json
    evidence,   \* generations/<g>/receipts: "optimizer" and finalized ranks
    files,      \* generations/<g>/checkpoint: ranks whose component files are complete
    manifest,   \* generations with a manifest.json
    abandoned,  \* generations with an abandoned.json
    log,        \* generations with a token.json, in the order of publication (history)
    op,         \* the commit_generation that holds mutation.lock, if any
    recovery    \* the select_recovery in progress or last returned

control == <<epoch, registered, attempts, accepted, headHint>>
store   == <<intent, evidence, files, manifest, abandoned, log>>
people  == <<proc, worker, myEpoch>>
vars    == <<people, control, store, op, recovery>>

-----------------------------------------------------------------------------
(* The records on disk                                                     *)

Committed  == Range(log)
Prepared   == {g \in Gen : intent[g] # None}
Unresolved == {g \in Prepared : g \notin Committed /\ g \notin abandoned}

SamplesOf(entries) == {r.attempt.sample : r \in entries}

(* _head: the committed chain rebuilt from the tokens' parents; the hint is not read *)
ChainOK ==
    /\ \A g, h \in Committed : intent[g].parent = intent[h].parent => g = h
    /\ \A g \in Committed : intent[g].parent \in Committed \cup {None}
    /\ Committed # {} => \E g \in Committed : intent[g].parent = None
Leaf(g)   == g \in Committed /\ \A h \in Committed : intent[h].parent # g
(* fault: trust the hint in control.json *)
HintAsHead == headHint
ChainHead == IF Committed = {} THEN None ELSE CHOOSE g \in Gen : Leaf(g)

ConsumedBefore == IF ChainHead = None THEN {} ELSE intent[ChainHead].consumed
DrawnBefore    == IF ChainHead = None THEN <<>> ELSE intent[ChainHead].drawn
Pending(g)     == Range(intent[g].drawn) \ intent[g].consumed

(* _complete: every receipt and every component file of every expected rank *)
Complete(g) == /\ evidence[g] = {"optimizer"} \cup Rank
               /\ files[g] = Rank

AttemptsCurrent(g) == \A r \in intent[g].entries : attempts[r.attempt.sample] = r.attempt

-----------------------------------------------------------------------------
(* Owners and processes                                                    *)

Alive(p)  == proc[p] \in {"owner", "closed"} \/ worker[p] = "alive"
Locked(p) == /\ proc[p] = "owner"
             /\ op = Idle
             /\ myEpoch[p] = epoch

(* fault: the exit proof is not checked against live processes *)
AcquireUnproven(p, w) ==
    /\ proc[p] = "new"
    /\ \A q \in Proc : proc[q] # "owner"
    /\ proc' = [proc EXCEPT ![p] = "owner"]
    /\ worker' = [worker EXCEPT ![p] = w]
    /\ myEpoch' = [myEpoch EXCEPT ![p] = epoch + 1]
    /\ epoch' = epoch + 1
    /\ registered' = p
    /\ UNCHANGED <<attempts, accepted, headHint, store, op, recovery>>

AcquireOwner(p, w) ==
    /\ proc[p] = "new"
    /\ \A q \in Proc : proc[q] # "owner"
    /\ registered # None => ~Alive(registered)
    /\ proc' = [proc EXCEPT ![p] = "owner"]
    /\ worker' = [worker EXCEPT ![p] = w]
    /\ myEpoch' = [myEpoch EXCEPT ![p] = epoch + 1]
    /\ epoch' = epoch + 1
    /\ registered' = p
    /\ UNCHANGED <<attempts, accepted, headHint, store, op, recovery>>

(* close() drops owner.lock only: a commit in flight on another thread goes on *)
Close(p) ==
    /\ proc[p] = "owner"
    /\ proc' = [proc EXCEPT ![p] = "closed"]
    /\ UNCHANGED <<worker, myEpoch, control, store, op, recovery>>

Crash(p) ==
    /\ proc[p] \in {"owner", "closed"}
    /\ proc' = [proc EXCEPT ![p] = "exited"]
    /\ op' = Idle
    /\ recovery' = Decision
    /\ UNCHANGED <<worker, myEpoch, control, store>>

WorkerExit(p) ==
    /\ worker[p] = "alive"
    /\ worker' = [worker EXCEPT ![p] = "exited"]
    /\ UNCHANGED <<proc, myEpoch, control, store, op, recovery>>

-----------------------------------------------------------------------------
(* Attempts and results                                                    *)

AuthorizeAttempt(p, s, a, v) ==
    /\ Locked(p)
    /\ attempts[s] # None => attempts[s].id # a
    /\ attempts' = [attempts EXCEPT ![s] =
                      [sample |-> s, id |-> a, epoch |-> myEpoch[p], version |-> v]]
    /\ accepted' = [accepted EXCEPT ![s] = None]
    /\ UNCHANGED <<people, epoch, registered, headHint, store, op, recovery>>

(* fault: a conflicting result replaces the accepted one *)
AcceptLastResult(p, a, b, v) ==
    /\ Locked(p)
    /\ a.epoch = myEpoch[p]
    /\ attempts[a.sample] = a
    /\ v = a.version
    /\ accepted' = [accepted EXCEPT ![a.sample] = [attempt |-> a, body |-> b, version |-> v]]
    /\ UNCHANGED <<people, epoch, registered, attempts, headHint, store, op, recovery>>

AcceptResult(p, a, b, v) ==
    LET receipt == [attempt |-> a, body |-> b, version |-> v]
    IN /\ Locked(p)
       /\ a.epoch = myEpoch[p]
       /\ attempts[a.sample] = a
       /\ v = a.version
       /\ accepted[a.sample] \in {None, receipt}
       /\ accepted' = [accepted EXCEPT ![a.sample] = receipt]
       /\ UNCHANGED <<people, epoch, registered, attempts, headHint, store, op, recovery>>

-----------------------------------------------------------------------------
(* Generations                                                             *)

(* A caller's groups: the samples of a group are its indices 0 .. k - 1 *)
WholeGroups(S) == \A s \in S : \A i \in 0 .. s[2] : <<s[1], i>> \in S

(* _sets and the lineage checks of prepare_generation *)
DataOK(S, drawn) ==
    /\ IsInjective(drawn)
    /\ IsPrefix(DrawnBefore, drawn)
    /\ ConsumedBefore \cup S \subseteq Range(drawn)
    /\ ConsumedBefore \cap S = {}

(* fault: retained updates are not looked up *)
NoUpdates == {}
RetainedUpdates == UNION {intent[h].updates : h \in Committed}

NoCandidate == Unresolved = {}

PrepareGeneration(p, g, S, U, drawn) ==
    /\ Locked(p)
    /\ ChainOK
    /\ intent[g] = None
    /\ NoCandidate
    /\ WholeGroups(S)
    /\ \A s \in S : /\ accepted[s] # None
                    /\ accepted[s].attempt = attempts[s]
                    /\ accepted[s].attempt.epoch = myEpoch[p]
    /\ DataOK(S, drawn)
    /\ U # {}
    /\ U \cap RetainedUpdates = {}
    /\ intent' = [intent EXCEPT ![g] =
                    [parent |-> ChainHead, entries |-> {accepted[s] : s \in S}, updates |-> U,
                     drawn |-> drawn, consumed |-> ConsumedBefore \cup S, epoch |-> myEpoch[p]]]
    /\ UNCHANGED <<people, control, evidence, files, manifest, abandoned, log, op, recovery>>

(* The backend writes a rank's component files into the generation's own directory *)
WriteCheckpoint(p, g, r) ==
    /\ Alive(p)
    /\ g \in Prepared
    /\ intent[g].epoch = myEpoch[p]
    /\ r \notin evidence[g]
    /\ r \notin files[g]
    /\ files' = [files EXCEPT ![g] = @ \cup {r}]
    /\ UNCHANGED <<people, control, intent, evidence, manifest, abandoned, log, op, recovery>>

RecordEvidence(p, g, e) ==
    /\ Locked(p)
    /\ g \in Prepared
    /\ intent[g].epoch = myEpoch[p]
    /\ g \notin Committed
    /\ evidence' = [evidence EXCEPT ![g] = @ \cup {e}]
    /\ UNCHANGED <<people, control, intent, files, manifest, abandoned, log, op, recovery>>

(* faults: abandoned.json, or the authorized attempts, are not looked at *)
CommitAbandonedOK(g) ==
    /\ ChainOK
    /\ g \in Prepared \ Committed
    /\ Complete(g)
    /\ intent[g].parent = ChainHead
    /\ AttemptsCurrent(g)
CommitSupersededOK(g) ==
    /\ ChainOK
    /\ g \in Prepared \ Committed
    /\ g \notin abandoned
    /\ Complete(g)
    /\ intent[g].parent = ChainHead

(* The checks of commit_generation on a generation that has no token yet *)
CommitOK(g) ==
    /\ ChainOK
    /\ g \in Prepared \ Committed
    /\ g \notin abandoned
    /\ Complete(g)
    /\ intent[g].parent = ChainHead
    /\ AttemptsCurrent(g)

CommitManifest(p, g, by) ==
    /\ Locked(p)
    /\ by = "recovery" => recovery.stage = "promote" /\ recovery.gen = g
    /\ CommitOK(g)
    /\ manifest' = manifest \cup {g}
    /\ op' = [step |-> "token", gen |-> g, by |-> by]
    /\ UNCHANGED <<people, control, intent, evidence, files, abandoned, log, recovery>>

CommitToken ==
    /\ op.step = "token"
    /\ log' = Append(log, op.gen)
    /\ op' = [op EXCEPT !.step = "head"]
    /\ UNCHANGED <<people, control, intent, evidence, files, manifest, abandoned, recovery>>

Decided(g) == [recovery EXCEPT !.stage = "done", !.gen = g]

CommitHead ==
    /\ op.step = "head"
    /\ headHint' = op.gen
    /\ op' = Idle
    /\ recovery' = IF op.by = "recovery" THEN Decided(op.gen) ELSE recovery
    /\ UNCHANGED <<people, epoch, registered, attempts, accepted, store>>

(* A write raises OSError: the call fails and the lock is released *)
CommitFail ==
    /\ op # Idle
    /\ op' = Idle
    /\ recovery' = IF op.by = "recovery" THEN Decision ELSE recovery
    /\ UNCHANGED <<people, control, store>>

-----------------------------------------------------------------------------
(* select_recovery                                                         *)

Scan(stage, g) == [stage |-> stage, gen |-> g, floor |-> Len(log)]

RecoverScan(p) ==
    /\ Locked(p)
    /\ ChainOK
    /\ Cardinality(Unresolved) <= 1
    /\ LET good == {g \in Unresolved : Complete(g) /\ intent[g].parent = ChainHead}
       IN /\ abandoned' = abandoned \cup (Unresolved \ good)
          /\ IF good = {} THEN recovery' = Scan("done", ChainHead)
                          ELSE \E g \in good : recovery' = Scan("promote", g)
    /\ UNCHANGED <<people, control, intent, evidence, files, manifest, log, op>>

(* commit_generation after the lock gap: the candidate was committed meanwhile *)
RecoverCommitted(p) ==
    /\ Locked(p)
    /\ ChainOK
    /\ recovery.stage = "promote"
    /\ recovery.gen \in Committed
    /\ recovery' = Decided(recovery.gen)
    /\ UNCHANGED <<people, control, store, op>>

(* ... or commit_generation refuses the candidate and select_recovery raises *)
RecoverRefused(p) ==
    /\ Locked(p)
    /\ recovery.stage = "promote"
    /\ recovery.gen \notin Committed
    /\ ~CommitOK(recovery.gen)
    /\ recovery' = Decision
    /\ UNCHANGED <<people, control, store, op>>

-----------------------------------------------------------------------------
Init ==
    /\ proc = [p \in Proc |-> "new"]
    /\ worker = [p \in Proc |-> "none"]
    /\ myEpoch = [p \in Proc |-> -1]
    /\ epoch = -1
    /\ registered = None
    /\ attempts = [s \in Sample |-> None]
    /\ accepted = [s \in Sample |-> None]
    /\ headHint = None
    /\ intent = [g \in Gen |-> None]
    /\ evidence = [g \in Gen |-> {}]
    /\ files = [g \in Gen |-> {}]
    /\ manifest = {}
    /\ abandoned = {}
    /\ log = <<>>
    /\ op = Idle
    /\ recovery = Decision

(* attempts a rollout may present: authorized now, before, or never *)
Handed == [sample : Sample, id : AttemptId, epoch : 0 .. epoch, version : Version]

Results(p) ==
    \/ \E s \in Sample, a \in AttemptId, v \in Version : AuthorizeAttempt(p, s, a, v)
    \/ \E a \in Handed, b \in Body, v \in Version : AcceptResult(p, a, b, v)

Generations(p) ==
    \/ \E g \in Gen, S \in SUBSET Sample, U \in Batches, drawn \in Draws :
          PrepareGeneration(p, g, S, U, drawn)
    \/ \E g \in Gen, r \in Rank : WriteCheckpoint(p, g, r)
    \/ \E g \in Gen, e \in {"optimizer"} \cup Rank : RecordEvidence(p, g, e)
    \/ \E g \in Gen, by \in {"caller", "recovery"} : CommitManifest(p, g, by)

Recovering(p) == RecoverScan(p) \/ RecoverCommitted(p) \/ RecoverRefused(p)

Processes(p) ==
    \/ \E w \in Workers : AcquireOwner(p, w)
    \/ Close(p)
    \/ Crash(p)
    \/ WorkerExit(p)

Next ==
    \/ \E p \in Proc : Processes(p) \/ Results(p) \/ Generations(p) \/ Recovering(p)
    \/ CommitToken
    \/ CommitHead
    \/ CommitFail

Spec == Init /\ [][Next]_vars
-----------------------------------------------------------------------------
(* Properties                                                              *)

(* Every file of the run directory and every process is one the code can read:
   a token names a directory that exists, a receipt an attempt that was made.  *)
TypeOK ==
    /\ proc \in [Proc -> {"new", "owner", "closed", "exited"}]
    /\ worker \in [Proc -> {"none", "alive", "exited"}]
    /\ myEpoch \in [Proc -> Nat \cup {-1}]
    /\ epoch \in Nat \cup {-1}
    /\ registered \in Proc \cup {None}
    /\ attempts \in [Sample -> Attempts \cup {None}]
    /\ accepted \in [Sample -> Receipts \cup {None}]
    /\ headHint \in Gen \cup {None}
    /\ intent \in [Gen -> Intents \cup {None}]
    /\ evidence \in [Gen -> SUBSET ({"optimizer"} \cup Rank)]
    /\ files \in [Gen -> SUBSET Rank]
    /\ manifest \subseteq Gen
    /\ abandoned \subseteq Gen
    /\ log \in Seq(Gen)
    /\ op \in [step : {"idle", "token", "head"}, gen : Gen \cup {None},
              by : {"none", "caller", "recovery"}]
    /\ recovery \in [stage : {"none", "promote", "done"}, gen : Gen \cup {None}, floor : Nat]

(* The tokens form one chain in the order of their publication, whatever
   crashed between a manifest, a token and the head hint: no fork, no gap.   *)
LedgerIsChain ==
    \A i \in 1 .. Len(log) :
        intent[log[i]].parent = IF i = 1 THEN None ELSE log[i - 1]

(* Along the committed chain no sample is trained twice and no logical update
   is retained twice, over every epoch and every recovery.                   *)
ConsumedOnce ==
    \A i, j \in 1 .. Len(log) : i # j =>
        /\ SamplesOf(intent[log[i]].entries) \cap SamplesOf(intent[log[j]].entries) = {}
        /\ intent[log[i]].updates \cap intent[log[j]].updates = {}

(* A sample drawn in a committed generation stays accounted for in every later
   one: it is consumed there or still pending there, never skipped.          *)
DrawnNeverLost ==
    \A i, j \in 1 .. Len(log) : i <= j =>
        Range(intent[log[i]].drawn) \subseteq intent[log[j]].consumed \cup Pending(log[j])

(* A token stands for finished work: optimizer and every rank finalized, every
   rank's files in place, a manifest, and no earlier decision to abandon it. *)
TokenIsFinal ==
    \A g \in Committed : Complete(g) /\ g \in manifest /\ g \notin abandoned

(* The token is published while every attempt the generation was prepared from
   is still the authorized one: a superseded attempt never wins.             *)
TokenIsAuthorized ==
    [][\A g \in Range(log') \ Range(log) : AttemptsCurrent(g)]_vars

(* One owner at most; it holds the newest epoch; and while it runs no process
   registered by an earlier owner is alive.                                  *)
FencedOwner ==
    \A p \in Proc :
        /\ proc[p] = "owner" => myEpoch[p] = epoch
        /\ Alive(p) => p = registered

(* At most one generation is prepared and neither committed nor abandoned, so
   select_recovery never finds several candidates.                           *)
OneCandidate == \A g, h \in Unresolved : g = h

(* An accepted result belongs to the attempt authorized now and carries the
   versions that attempt was authorized for.                                 *)
AcceptedIsAuthorized ==
    \A s \in Sample : accepted[s] # None =>
        /\ accepted[s].attempt = attempts[s]
        /\ accepted[s].version = attempts[s].version

(* An accepted result is withdrawn only by authorizing another attempt; no
   second result takes its place.                                            *)
ResultIsStable ==
    [][\A s \in Sample : accepted[s] # None /\ accepted'[s] # accepted[s] =>
          accepted'[s] = None /\ attempts'[s] # attempts[s]]_vars

(* The generation select_recovery returns is at or after everything that was
   committed when it looked, even if the process that committed died before it
   wrote the head hint, and even if another thread commits in the lock gap.  *)
RecoveryKeepsCommitted ==
    recovery.stage = "done" =>
        \/ recovery.gen = None /\ recovery.floor = 0
        \/ \E i \in 1 .. Len(log) : i >= recovery.floor /\ log[i] = recovery.gen

-----------------------------------------------------------------------------
(* The run directory implements the ledger: each token appends its samples and
   updates, and no other step of any process changes what is retained.       *)
Ledger == INSTANCE UpdateLedger WITH
    ledger <- [i \in 1 .. Len(log) |-> [samples |-> SamplesOf(intent[log[i]].entries),
                                        updates |-> intent[log[i]].updates]],
    drawn  <- IF log = <<>> THEN {} ELSE Range(intent[Last(log)].drawn)

RefinesLedger == Ledger!LedgerSpec

=============================================================================
