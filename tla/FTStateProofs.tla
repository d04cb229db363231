--------------------------- MODULE FTStateProofs ---------------------------
(* Theorems about FTState, for every value of its constants. *)
EXTENDS FTState, TLAPS

(* Every owner object was made by acquire_owner, which counts epochs from 0. *)
EpochInv == \A p \in Proc : proc[p] # "new" => myEpoch[p] \in Nat

(* ChainHead is a prepared generation or absent *)
HeadTyped == ChainHead = None \/ (ChainHead \in Gen /\ intent[ChainHead] # None)

(* The empty run directory is typed, and no process is an owner in it. *)
LEMMA InitTyped == Init => TypeOK /\ EpochInv
  BY ConstantsAssumption DEF Init, TypeOK, EpochInv, Idle, Decision

(* Starting, closing, crashing and ending processes keeps the types and the epochs. *)
LEMMA ProcessesTyped ==
  ASSUME TypeOK, EpochInv, NEW p \in Proc, Processes(p)
  PROVE  TypeOK' /\ EpochInv'
<1>1. CASE \E w \in Workers : AcquireOwner(p, w)
  BY <1>1, ConstantsAssumption DEF TypeOK, EpochInv, AcquireOwner, store
<1>2. CASE Close(p)
  BY <1>2 DEF TypeOK, EpochInv, Close, store, control
<1>3. CASE Crash(p)
  BY <1>3 DEF TypeOK, EpochInv, Crash, store, control, Idle, Decision
<1>4. CASE WorkerExit(p)
  BY <1>4 DEF TypeOK, EpochInv, WorkerExit, store, control
<1> QED BY <1>1, <1>2, <1>3, <1>4 DEF Processes

(* Authorizing an attempt and accepting its result keeps the types and the epochs. *)
LEMMA ResultsTyped ==
  ASSUME TypeOK, EpochInv, NEW p \in Proc, Results(p)
  PROVE  TypeOK' /\ EpochInv'
<1>1. ASSUME NEW s \in Sample, NEW a \in AttemptId, NEW v \in Version, AuthorizeAttempt(p, s, a, v)
      PROVE  TypeOK' /\ EpochInv'
  <2>1. [sample |-> s, id |-> a, epoch |-> myEpoch[p], version |-> v] \in Attempts
    BY <1>1 DEF AuthorizeAttempt, Locked, EpochInv, Attempts
  <2> QED BY <1>1, <2>1 DEF TypeOK, EpochInv, AuthorizeAttempt, store, people
<1>2. ASSUME NEW a \in Handed, NEW b \in Body, NEW v \in Version, AcceptResult(p, a, b, v)
      PROVE  TypeOK' /\ EpochInv'
  <2>1. a \in Attempts /\ a.sample \in Sample
    BY <1>2 DEF Handed, Attempts, TypeOK
  <2>2. [attempt |-> a, body |-> b, version |-> v] \in Receipts
    BY <1>2, <2>1 DEF Receipts
  <2> QED BY <1>2, <2>1, <2>2 DEF TypeOK, EpochInv, AcceptResult, store, people
<1> QED BY <1>1, <1>2 DEF Results

(* Appending a token adds its generation to the committed ones. *)
LEMMA RangeOfAppend ==
  ASSUME NEW S, NEW s \in Seq(S), NEW e \in S
  PROVE  Range(Append(s, e)) = Range(s) \cup {e}
BY DEF Range

(* the intent.json a prepare_generation writes *)
NewIntent(p, S, U, drawn) ==
    [parent |-> ChainHead, entries |-> {accepted[s] : s \in S}, updates |-> U,
     drawn |-> drawn, consumed |-> ConsumedBefore \cup S, epoch |-> myEpoch[p]]

(* The intent prepare_generation writes is a well-typed intent. *)
LEMMA IntentTyped ==
  ASSUME TypeOK, EpochInv, HeadTyped, NEW p \in Proc, NEW g \in Gen, NEW S \in SUBSET Sample,
         NEW U \in Batches, NEW drawn \in Draws, PrepareGeneration(p, g, S, U, drawn)
  PROVE  NewIntent(p, S, U, drawn) \in Intents
<1>1. {accepted[s] : s \in S} \in SUBSET Receipts
  BY DEF PrepareGeneration, TypeOK
<1>2. ConsumedBefore \in SUBSET Sample
  <2>1. CASE ChainHead = None
    BY <2>1 DEF ConsumedBefore
  <2>2. CASE ChainHead # None
    BY <2>2 DEF ConsumedBefore, HeadTyped, TypeOK, Intents
  <2> QED BY <2>1, <2>2
<1>3. U \in SUBSET Update
  BY ConstantsAssumption
<1>4. myEpoch[p] \in Nat
  BY DEF PrepareGeneration, Locked, EpochInv
<1> QED BY <1>1, <1>2, <1>3, <1>4 DEF Intents, HeadTyped, NewIntent

(* Preparing, writing, recording and starting a commit keeps the types and the epochs. *)
LEMMA GenerationsTyped ==
  ASSUME TypeOK, EpochInv, HeadTyped, NEW p \in Proc, Generations(p)
  PROVE  TypeOK' /\ EpochInv'
<1>1. ASSUME NEW g \in Gen, NEW S \in SUBSET Sample, NEW U \in Batches, NEW drawn \in Draws,
             PrepareGeneration(p, g, S, U, drawn)
      PROVE  TypeOK' /\ EpochInv'
  <2> DEFINE new == NewIntent(p, S, U, drawn)
  <2>5. new \in Intents
    BY <1>1, IntentTyped
  <2>6. /\ intent' = [intent EXCEPT ![g] = new]
        /\ UNCHANGED <<people, control, evidence, files, manifest, abandoned, log, op, recovery>>
    BY <1>1 DEF PrepareGeneration, NewIntent
  <2> HIDE DEF new
  <2> QED BY <2>5, <2>6 DEF TypeOK, EpochInv, people, control
<1>2. ASSUME NEW g \in Gen, NEW r \in Rank, WriteCheckpoint(p, g, r)
      PROVE  TypeOK' /\ EpochInv'
  BY <1>2 DEF TypeOK, EpochInv, WriteCheckpoint, people, control
<1>3. ASSUME NEW g \in Gen, NEW e \in {"optimizer"} \cup Rank, RecordEvidence(p, g, e)
      PROVE  TypeOK' /\ EpochInv'
  BY <1>3 DEF TypeOK, EpochInv, RecordEvidence, people, control
<1>4. ASSUME NEW g \in Gen, NEW by \in {"caller", "recovery"}, CommitManifest(p, g, by)
      PROVE  TypeOK' /\ EpochInv'
  BY <1>4 DEF TypeOK, EpochInv, CommitManifest, people, control
<1> QED BY <1>1, <1>2, <1>3, <1>4 DEF Generations

(* The writes of commit_generation keep the types and the epochs. *)
LEMMA CommitTyped ==
  ASSUME TypeOK, EpochInv, CommitToken \/ CommitHead \/ CommitFail,
         op.step # "idle" => op.gen \in Gen
  PROVE  TypeOK' /\ EpochInv'
<1>1. CASE CommitToken
  <2>1. log' \in Seq(Gen)
    BY <1>1 DEF TypeOK, CommitToken
  <2>2. op' \in [step : {"idle", "token", "head"}, gen : Gen \cup {None},
                by : {"none", "caller", "recovery"}]
    BY <1>1 DEF TypeOK, CommitToken
  <2> QED BY <1>1, <2>1, <2>2 DEF TypeOK, EpochInv, CommitToken, people, control
<1>2. CASE CommitHead
  BY <1>2 DEF TypeOK, EpochInv, CommitHead, people, store, Idle, Decided
<1>3. CASE CommitFail
  BY <1>3 DEF TypeOK, EpochInv, CommitFail, people, control, store, Idle, Decision
<1> QED BY <1>1, <1>2, <1>3

(* The steps of select_recovery keep the types and the epochs. *)
LEMMA RecoveringTyped ==
  ASSUME TypeOK, EpochInv, HeadTyped, NEW p \in Proc, Recovering(p)
  PROVE  TypeOK' /\ EpochInv'
<1>1. CASE RecoverScan(p)
  <2>1. Unresolved \subseteq Gen
    BY DEF Unresolved, Prepared
  <2>2. abandoned' \subseteq Gen
    BY <1>1, <2>1 DEF RecoverScan, TypeOK
  <2>3. recovery' \in [stage : {"none", "promote", "done"}, gen : Gen \cup {None}, floor : Nat]
    BY <1>1, <2>1 DEF RecoverScan, TypeOK, Scan, HeadTyped
  <2> QED BY <1>1, <2>2, <2>3 DEF RecoverScan, TypeOK, EpochInv, people, control
<1>2. CASE RecoverCommitted(p)
  BY <1>2 DEF TypeOK, EpochInv, RecoverCommitted, people, control, store, Decided
<1>3. CASE RecoverRefused(p)
  BY <1>3 DEF TypeOK, EpochInv, RecoverRefused, people, control, store, Decision
<1> QED BY <1>1, <1>2, <1>3 DEF Recovering

-----------------------------------------------------------------------------
(* The inductive invariant.  `log` is what the tokens say in the order they
   were published; the code sees only the parents the tokens name.           *)

LastGen == IF log = <<>> THEN None ELSE log[Len(log)]

(* the tokens are distinct, prepared, chained and final *)
LogInv ==
    /\ \A i, j \in 1 .. Len(log) : log[i] = log[j] => i = j
    /\ \A i \in 1 .. Len(log) : intent[log[i]] # None
    /\ LedgerIsChain
    /\ TokenIsFinal

(* what generation g may add after generation h *)
Extends(g, h) ==
    /\ SamplesOf(intent[g].entries) \cap intent[h].consumed = {}
    /\ intent[h].consumed \subseteq intent[g].consumed
    /\ intent[h].updates \cap intent[g].updates = {}
    /\ Range(intent[h].drawn) \subseteq Range(intent[g].drawn)

SelfConsistent(g) ==
    /\ SamplesOf(intent[g].entries) \subseteq intent[g].consumed
    /\ intent[g].consumed \subseteq Range(intent[g].drawn)
    /\ intent[g].updates # {}

DataInv ==
    /\ \A i \in 1 .. Len(log) : SelfConsistent(log[i])
    /\ \A i, j \in 1 .. Len(log) : i < j => Extends(log[j], log[i])

(* the candidate, if any, was prepared on top of the last token *)
CandInv ==
    /\ OneCandidate
    /\ \A g \in Unresolved :
          /\ intent[g].parent = LastGen
          /\ SelfConsistent(g)
          /\ \A i \in 1 .. Len(log) : Extends(g, log[i])

(* a commit between its writes holds the lock, so what it checked still holds *)
OpInv ==
    /\ op.step = "token" => /\ op.gen \in Unresolved
                            /\ Complete(op.gen)
                            /\ op.gen \in manifest
                            /\ AttemptsCurrent(op.gen)
    /\ op.step = "head" => op.gen \in Committed

StoreInv == LogInv /\ DataInv /\ CandInv /\ OpInv

(* an attempt is filed under its sample, and only authorized results are kept *)
AttemptInv ==
    /\ \A s \in Sample : attempts[s] # None => attempts[s].sample = s
    /\ AcceptedIsAuthorized

(* The walk over the tokens that _head does ends at the last token published. *)
LEMMA HeadIsLast ==
  ASSUME TypeOK, LogInv
  PROVE  ChainHead = LastGen /\ HeadTyped
<1>1. CASE log = <<>>
  BY <1>1 DEF ChainHead, LastGen, HeadTyped, Committed, Range
<1>2. CASE log # <<>>
  <2>1. Len(log) \in 1 .. Len(log) /\ log[Len(log)] \in Gen /\ DOMAIN log = 1 .. Len(log)
    BY <1>2 DEF TypeOK
  <2>2. Leaf(log[Len(log)])
    <3>1. ASSUME NEW i \in 1 .. Len(log)
          PROVE  intent[log[i]].parent # log[Len(log)]
      <4>1. CASE i = 1
        BY <2>1, <4>1, ConstantsAssumption DEF LogInv, LedgerIsChain
      <4>2. CASE i # 1
        <5>1. i - 1 \in 1 .. Len(log) /\ i - 1 # Len(log)
          BY <2>1, <4>2
        <5>2. intent[log[i]].parent = log[i - 1]
          BY <4>2 DEF LogInv, LedgerIsChain
        <5> QED BY <2>1, <5>1, <5>2 DEF LogInv
      <4> QED BY <4>1, <4>2
    <3> QED BY <2>1, <3>1 DEF Leaf, Committed, Range
  <2>3. ASSUME NEW g \in Gen, Leaf(g)
        PROVE  g = log[Len(log)]
    <3>1. PICK i \in 1 .. Len(log) : log[i] = g
      BY <2>1, <2>3 DEF Leaf, Committed, Range
    <3>2. CASE i < Len(log)
      <4>1. i + 1 \in 1 .. Len(log) /\ i + 1 # 1 /\ (i + 1) - 1 = i
        BY <2>1, <3>2
      <4>2. intent[log[i + 1]].parent = g
        BY <3>1, <4>1 DEF LogInv, LedgerIsChain
      <4> QED BY <2>1, <2>3, <4>1, <4>2 DEF Leaf, Committed, Range
    <3> QED BY <2>1, <3>1, <3>2
  <2>4. ChainHead = CHOOSE g \in Gen : Leaf(g)
    BY <2>1 DEF ChainHead, Committed, Range
  <2>5. ChainHead = log[Len(log)]
    BY <2>1, <2>2, <2>3, <2>4
  <2> QED BY <1>2, <2>1, <2>5, ConstantsAssumption DEF LastGen, HeadTyped, LogInv
<1> QED BY <1>1, <1>2

(* A step that writes no generation file keeps what is known about them. *)
LEMMA QuietStep ==
  ASSUME StoreInv, UNCHANGED store, op' = op \/ op' = Idle,
         attempts' = attempts \/ op = Idle
  PROVE  StoreInv'
<1> USE DEF store, Committed, Prepared, Unresolved
<1>1. LogInv'
  BY DEF StoreInv, LogInv, LedgerIsChain, TokenIsFinal, Complete
<1>2. DataInv'
  BY DEF StoreInv, DataInv, Extends, SelfConsistent
<1>3. CandInv'
  BY DEF StoreInv, CandInv, OneCandidate, LastGen, Extends, SelfConsistent
<1>4. OpInv'
  BY DEF StoreInv, OpInv, Complete, AttemptsCurrent, Idle
<1> QED BY <1>1, <1>2, <1>3, <1>4 DEF StoreInv

(* A sequence that extends another holds its elements. *)
LEMMA PrefixRange ==
  ASSUME NEW T, NEW s \in Seq(T), NEW t \in Seq(T), IsPrefix(s, t)
  PROVE  Range(s) \subseteq Range(t)
<1>1. ASSUME NEW i \in 1 .. Len(s)
      PROVE  i \in 1 .. Len(t) /\ s[i] = t[i]
  <2>1. Len(s) <= Len(t) /\ SubSeq(s, 1, Len(s)) = SubSeq(t, 1, Len(s))
    BY DEF IsPrefix
  <2>2. SubSeq(s, 1, Len(s))[i] = s[i] /\ SubSeq(t, 1, Len(s))[i] = t[i]
    BY <2>1
  <2> QED BY <2>1, <2>2
<1> QED BY <1>1 DEF Range

(* A prepared intent names the last token as its parent and new samples and updates. *)
LEMMA PrepareStep ==
  ASSUME TypeOK, EpochInv, AttemptInv, StoreInv, NEW p \in Proc, NEW g \in Gen,
         NEW S \in SUBSET Sample, NEW U \in Batches, NEW drawn \in Draws,
         PrepareGeneration(p, g, S, U, drawn)
  PROVE  StoreInv'
<1> DEFINE new == NewIntent(p, S, U, drawn)
<1>1. /\ ChainHead = LastGen
      /\ HeadTyped
      /\ log \in Seq(Gen)
  BY HeadIsLast DEF StoreInv, TypeOK
<1>2. /\ new \in Intents
      /\ new # None
      /\ intent'[g] = new
      /\ \A h \in Gen : h # g => intent'[h] = intent[h]
  <2>1. new \in Intents
    BY <1>1, IntentTyped
  <2>2. intent' = [intent EXCEPT ![g] = new]
    BY DEF PrepareGeneration, NewIntent
  <2> HIDE DEF new
  <2> QED BY <2>1, <2>2, ConstantsAssumption DEF TypeOK
<1>3. /\ intent[g] = None
      /\ g \notin Committed
      /\ \A i \in 1 .. Len(log) : log[i] \in Gen /\ log[i] # g /\ intent'[log[i]] = intent[log[i]]
  BY <1>1, <1>2 DEF PrepareGeneration, StoreInv, LogInv, Committed, Range
<1>4. UNCHANGED <<evidence, files, manifest, abandoned, log, op, attempts>> /\ op = Idle
  BY DEF PrepareGeneration, Locked, control
<1>5. LogInv'
  <2>1. LedgerIsChain'
    BY <1>3, <1>4 DEF StoreInv, LogInv, LedgerIsChain
  <2>2. TokenIsFinal'
    BY <1>4 DEF StoreInv, LogInv, TokenIsFinal, Committed, Complete
  <2> QED BY <1>3, <1>4, <2>1, <2>2 DEF StoreInv, LogInv
<1>6. DataInv'
  <2>1. ASSUME NEW i \in 1 .. Len(log)
        PROVE  SelfConsistent(log[i])'
    BY <1>3, <1>4 DEF StoreInv, DataInv, SelfConsistent
  <2>2. ASSUME NEW i \in 1 .. Len(log), NEW j \in 1 .. Len(log), i < j
        PROVE  Extends(log[j], log[i])'
    <3>1. Extends(log[j], log[i])
      BY <2>2 DEF StoreInv, DataInv
    <3> QED BY <1>3, <1>4, <3>1 DEF Extends
  <2> QED BY <1>4, <2>1, <2>2 DEF DataInv
<1>7. Unresolved' \subseteq {g}
  BY <1>2, <1>4 DEF PrepareGeneration, NoCandidate, Unresolved, Prepared, Committed
<1>8. SamplesOf({accepted[s] : s \in S}) = S
  <2>1. ASSUME NEW s \in S
        PROVE  accepted[s].attempt.sample = s
    <3>1. accepted[s] \in Receipts /\ accepted[s].attempt = attempts[s]
      BY DEF PrepareGeneration, TypeOK
    <3>2. attempts[s] # None
      BY <3>1, ConstantsAssumption DEF Receipts
    <3> QED BY <3>1, <3>2 DEF AttemptInv
  <2> QED BY <2>1 DEF SamplesOf
<1>9. SelfConsistent(g)'
  <2>1. U # {} /\ ConsumedBefore \cup S \subseteq Range(drawn)
    BY DEF PrepareGeneration, DataOK
  <2> QED BY <1>2, <1>8, <2>1 DEF SelfConsistent, NewIntent
<1>10. ASSUME NEW i \in 1 .. Len(log)
       PROVE  Extends(g, log[i])'
  <2> DEFINE last == log[Len(log)]
  <2>1. /\ Len(log) \in 1 .. Len(log) /\ log # <<>> /\ i <= Len(log)
        /\ last \in Committed /\ log[i] \in Committed
    BY <1>1 DEF Committed, Range
  <2>2. ChainHead = last /\ ChainHead # None
    BY <1>1, <2>1, ConstantsAssumption DEF LastGen
  <2>3. /\ intent[log[i]].consumed \subseteq ConsumedBefore
        /\ Range(intent[log[i]].drawn) \subseteq Range(DrawnBefore)
    <3>1. CASE i = Len(log)
      BY <2>2, <3>1 DEF ConsumedBefore, DrawnBefore
    <3>2. CASE i # Len(log)
      <4>1. Extends(last, log[i])
        BY <2>1, <3>2 DEF StoreInv, DataInv
      <4> QED BY <2>2, <4>1 DEF ConsumedBefore, DrawnBefore, Extends
    <3> QED BY <3>1, <3>2
  <2>4. Range(DrawnBefore) \subseteq Range(drawn)
    <3>1. DrawnBefore \in Seq(Sample) /\ drawn \in Seq(Sample)
      BY <1>1, <2>2, ConstantsAssumption DEF DrawnBefore, HeadTyped, TypeOK, Intents
    <3>2. IsPrefix(DrawnBefore, drawn)
      BY DEF PrepareGeneration, DataOK
    <3> QED BY <3>1, <3>2, PrefixRange
  <2>5. ConsumedBefore \cap S = {} /\ U \cap intent[log[i]].updates = {}
    BY <2>1 DEF PrepareGeneration, DataOK, RetainedUpdates
  <2>6. intent'[log'[i]] = intent[log[i]]
    BY <1>3, <1>4
  <2>7. /\ intent'[g].consumed = ConsumedBefore \cup S
        /\ intent'[g].updates = U
        /\ intent'[g].drawn = drawn
        /\ SamplesOf(intent'[g].entries) = S
    BY <1>2, <1>8 DEF NewIntent
  <2>8. S \cap intent[log[i]].consumed = {}
    BY <2>3, <2>5
  <2> QED BY <2>3, <2>4, <2>5, <2>6, <2>7, <2>8 DEF Extends, SamplesOf
<1>11. CandInv'
  <2>1. OneCandidate'
    BY <1>7 DEF OneCandidate
  <2>2. intent'[g].parent = LastGen'
    BY <1>1, <1>2, <1>4 DEF LastGen, NewIntent
  <2> QED BY <1>7, <1>9, <1>10, <1>4, <2>1, <2>2 DEF CandInv
<1>12. OpInv'
  BY <1>4 DEF OpInv, Idle
<1> QED BY <1>5, <1>6, <1>11, <1>12 DEF StoreInv

(* Steps that touch a generation's receipts, files or manifest but no intent,
   token or verdict keep the chain, provided complete work stays complete.   *)
LEMMA WorkStep ==
  ASSUME StoreInv, UNCHANGED <<intent, abandoned, log, attempts>>, manifest \subseteq manifest',
         \A g \in Committed \cup {op.gen} : Complete(g) => Complete(g)',
         op' = op
  PROVE  StoreInv'
<1> USE DEF Committed, Prepared, Unresolved
<1>1. LogInv'
  BY DEF StoreInv, LogInv, LedgerIsChain, TokenIsFinal
<1>2. DataInv'
  BY DEF StoreInv, DataInv, Extends, SelfConsistent
<1>3. CandInv'
  BY DEF StoreInv, CandInv, OneCandidate, LastGen, Extends, SelfConsistent
<1>4. OpInv'
  BY DEF StoreInv, OpInv, AttemptsCurrent
<1> QED BY <1>1, <1>2, <1>3, <1>4 DEF StoreInv

(* A checkpoint file adds to what is complete. *)
LEMMA WriteCheckpointStep ==
  ASSUME TypeOK, StoreInv, NEW p \in Proc, NEW g \in Gen, NEW r \in Rank, WriteCheckpoint(p, g, r)
  PROVE  StoreInv'
<1>1. ASSUME NEW h \in Committed \cup {op.gen}, Complete(h)
      PROVE  Complete(h)'
  <2>1. h # g
    BY <1>1 DEF WriteCheckpoint, Complete
  <2> QED BY <1>1, <2>1 DEF WriteCheckpoint, Complete, TypeOK
<1> QED BY <1>1, WorkStep DEF WriteCheckpoint, control

(* A receipt adds to what is complete. *)
LEMMA RecordEvidenceStep ==
  ASSUME TypeOK, StoreInv, NEW p \in Proc, NEW g \in Gen, NEW e \in {"optimizer"} \cup Rank,
         RecordEvidence(p, g, e)
  PROVE  StoreInv'
<1>1. ASSUME NEW h \in Committed \cup {op.gen}, Complete(h)
      PROVE  Complete(h)'
  <2>1. CASE h = g
    BY <1>1, <2>1 DEF RecordEvidence, Complete, TypeOK
  <2>2. CASE h # g
    BY <1>1, <2>2 DEF RecordEvidence, Complete, TypeOK
  <2> QED BY <2>1, <2>2
<1> QED BY <1>1, WorkStep DEF RecordEvidence, control

(* A commit starts on a generation that is complete, authorized and not abandoned. *)
LEMMA CommitManifestStep ==
  ASSUME TypeOK, StoreInv, NEW p \in Proc, NEW g \in Gen, NEW by \in {"caller", "recovery"},
         CommitManifest(p, g, by)
  PROVE  StoreInv'
<1> USE DEF Committed, Prepared, Unresolved
<1>1. UNCHANGED <<intent, evidence, files, abandoned, log, attempts>> /\ manifest' = manifest \cup {g}
      /\ op' = [step |-> "token", gen |-> g, by |-> by]
  BY DEF CommitManifest, control
<1>2. LogInv'
  BY <1>1 DEF StoreInv, LogInv, LedgerIsChain, TokenIsFinal, Complete
<1>3. DataInv'
  BY <1>1 DEF StoreInv, DataInv, Extends, SelfConsistent
<1>4. CandInv'
  BY <1>1 DEF StoreInv, CandInv, OneCandidate, LastGen, Extends, SelfConsistent
<1>5. OpInv'
  <2>1. g \in Unresolved /\ Complete(g) /\ AttemptsCurrent(g)
    BY DEF CommitManifest, CommitOK
  <2> QED BY <1>1, <2>1 DEF OpInv, Complete, AttemptsCurrent
<1> QED BY <1>2, <1>3, <1>4, <1>5 DEF StoreInv

(* The token published extends the chain by the candidate whose parent is its last token. *)
LEMMA CommitTokenStep ==
  ASSUME TypeOK, StoreInv, CommitToken
  PROVE  /\ StoreInv'
         /\ \A h \in Range(log') \ Range(log) : AttemptsCurrent(h)
<1> DEFINE g == op.gen
           n == Len(log) + 1
<1>1. /\ UNCHANGED <<intent, evidence, files, manifest, abandoned, attempts>>
      /\ log' = Append(log, g)
      /\ op'.step = "head" /\ op'.gen = g
  BY DEF CommitToken, control, TypeOK
<1>2. /\ g \in Gen /\ g \in Unresolved /\ Complete(g) /\ g \in manifest /\ AttemptsCurrent(g)
      /\ g \notin Committed /\ g \notin abandoned /\ intent[g] # None
  BY DEF CommitToken, StoreInv, OpInv, Unresolved, Prepared
<1>3. /\ log \in Seq(Gen) /\ Len(log') = n /\ log'[n] = g /\ n \in 1 .. n
      /\ \A i \in 1 .. Len(log) : log'[i] = log[i] /\ log[i] \in Committed /\ log[i] # g /\ i # n
      /\ \A i \in 1 .. n : i = n \/ i \in 1 .. Len(log)
      /\ Committed' = Committed \cup {g}
  <2>1. log \in Seq(Gen)
    BY DEF TypeOK
  <2>2. Committed' = Committed \cup {g}
    BY <1>1, <1>2, <2>1, RangeOfAppend DEF Committed
  <2>3. \A i \in 1 .. Len(log) : log[i] \in Committed
    BY <2>1 DEF Committed, Range
  <2> QED BY <1>1, <1>2, <2>1, <2>2, <2>3
<1>4. /\ intent[g].parent = LastGen
      /\ SelfConsistent(g)
      /\ \A i \in 1 .. Len(log) : Extends(g, log[i])
  BY <1>2 DEF StoreInv, CandInv
<1>5. LogInv'
  <2>1. \A i, j \in 1 .. n : log'[i] = log'[j] => i = j
    BY <1>3 DEF StoreInv, LogInv
  <2>2. \A i \in 1 .. n : intent'[log'[i]] # None
    BY <1>1, <1>2, <1>3 DEF StoreInv, LogInv
  <2>3. ASSUME NEW i \in 1 .. n
        PROVE  intent'[log'[i]].parent = IF i = 1 THEN None ELSE log'[i - 1]
    <3>1. CASE i \in 1 .. Len(log)
      <4>1. i # 1 => i - 1 \in 1 .. Len(log)
        BY <3>1
      <4> QED BY <1>1, <1>3, <3>1, <4>1 DEF StoreInv, LogInv, LedgerIsChain
    <3>2. CASE i = n /\ log = <<>>
      BY <1>1, <1>3, <1>4, <3>2 DEF LastGen
    <3>3. CASE i = n /\ log # <<>>
      <4>1. i # 1 /\ i - 1 = Len(log) /\ i - 1 \in 1 .. Len(log)
        BY <1>3, <3>3
      <4> QED BY <1>1, <1>3, <1>4, <3>3, <4>1 DEF LastGen
    <3> QED BY <1>3, <3>1, <3>2, <3>3
  <2>4. TokenIsFinal'
    BY <1>1, <1>2, <1>3 DEF StoreInv, LogInv, TokenIsFinal, Complete
  <2> QED BY <1>3, <2>1, <2>2, <2>3, <2>4 DEF LogInv, LedgerIsChain
<1>6. DataInv'
  <2>1. ASSUME NEW i \in 1 .. n
        PROVE  SelfConsistent(log'[i])
    BY <1>3, <1>4 DEF StoreInv, DataInv
  <2>2. ASSUME NEW i \in 1 .. n, NEW j \in 1 .. n, i < j
        PROVE  Extends(log'[j], log'[i])
    <3>1. i \in 1 .. Len(log)
      BY <1>3, <2>2
    <3>2. CASE j = n
      BY <1>3, <1>4, <3>1, <3>2
    <3>3. CASE j \in 1 .. Len(log)
      BY <1>3, <2>2, <3>1, <3>3 DEF StoreInv, DataInv
    <3> QED BY <1>3, <3>2, <3>3
  <2>3. ASSUME NEW i \in 1 .. n
        PROVE  SelfConsistent(log[i])'
    BY <1>1, <2>1 DEF SelfConsistent
  <2>4. ASSUME NEW i \in 1 .. n, NEW j \in 1 .. n, i < j
        PROVE  Extends(log[j], log[i])'
    <3>1. Extends(log'[j], log'[i])
      BY <2>2, <2>4
    <3> QED BY <1>1, <3>1 DEF Extends
  <2> HIDE DEF n
  <2> QED BY <1>3, <2>3, <2>4 DEF DataInv
<1>7. Unresolved' = {}
  <2>1. \A h \in Unresolved : h = g
    BY <1>2 DEF StoreInv, CandInv, OneCandidate
  <2> QED BY <1>1, <1>3, <2>1 DEF Unresolved, Prepared
<1>8. CandInv' /\ OpInv'
  BY <1>1, <1>3, <1>7 DEF CandInv, OneCandidate, OpInv
<1>9. \A h \in Range(log') \ Range(log) : AttemptsCurrent(h)
  BY <1>2, <1>3 DEF Committed
<1> QED BY <1>5, <1>6, <1>8, <1>9 DEF StoreInv

(* Only a candidate without a token is abandoned, and never one being committed. *)
LEMMA RecoverScanStep ==
  ASSUME TypeOK, StoreInv, NEW p \in Proc, RecoverScan(p)
  PROVE  StoreInv'
<1> USE DEF Committed, Prepared
<1>1. /\ UNCHANGED <<intent, evidence, files, manifest, log, op, attempts>> /\ op = Idle
      /\ abandoned \subseteq abandoned' /\ abandoned' \subseteq abandoned \cup Unresolved
  BY DEF RecoverScan, Locked, control
<1>2. Unresolved' \subseteq Unresolved /\ Unresolved \cap Committed = {}
  BY <1>1 DEF Unresolved
<1>3. LogInv'
  BY <1>1, <1>2 DEF StoreInv, LogInv, LedgerIsChain, TokenIsFinal, Complete
<1>4. DataInv'
  BY <1>1 DEF StoreInv, DataInv, Extends, SelfConsistent
<1>5. CandInv'
  BY <1>1, <1>2 DEF StoreInv, CandInv, OneCandidate, LastGen, Extends, SelfConsistent
<1>6. OpInv'
  BY <1>1 DEF OpInv, Idle
<1> QED BY <1>3, <1>4, <1>5, <1>6 DEF StoreInv

-----------------------------------------------------------------------------
(* Owners: one process is alive at most, the one registered last.            *)

OwnerInv ==
    /\ FencedOwner
    /\ \A p \in Proc : proc[p] = "new" => worker[p] = "none"

(* A new owner takes over only once nothing an earlier one registered is alive. *)
LEMMA OwnerStep ==
  ASSUME TypeOK, OwnerInv, [Next]_vars
  PROVE  OwnerInv'
<1> USE DEF OwnerInv, FencedOwner, Alive
<1>1. ASSUME NEW p \in Proc, NEW w \in Workers, AcquireOwner(p, w)
      PROVE  OwnerInv'
  <2>1. \A q \in Proc : ~Alive(q)
    BY <1>1, ConstantsAssumption DEF AcquireOwner
  <2> QED BY <1>1, <2>1 DEF AcquireOwner, TypeOK
<1>2. ASSUME NEW p \in Proc, Close(p) \/ Crash(p) \/ WorkerExit(p)
      PROVE  OwnerInv'
  BY <1>2 DEF Close, Crash, WorkerExit, TypeOK, control
<1>3. ASSUME UNCHANGED <<people, epoch, registered>>
      PROVE  OwnerInv'
  BY <1>3 DEF people
<1>4. ASSUME NEW p \in Proc, Results(p) \/ Generations(p) \/ Recovering(p)
      PROVE  UNCHANGED <<people, epoch, registered>>
  BY <1>4 DEF Results, Generations, Recovering, AuthorizeAttempt, AcceptResult, PrepareGeneration,
     WriteCheckpoint, RecordEvidence, CommitManifest, RecoverScan, RecoverCommitted,
     RecoverRefused, control
<1>5. CommitToken \/ CommitHead \/ CommitFail => UNCHANGED <<people, epoch, registered>>
  BY DEF CommitToken, CommitHead, CommitFail, control
<1>6. UNCHANGED vars => UNCHANGED <<people, epoch, registered>>
  BY DEF vars, control
<1> QED BY <1>1, <1>2, <1>3, <1>4, <1>5, <1>6 DEF Next, Processes

(* A result stays bound to the attempt that is authorized. *)
LEMMA AttemptStep ==
  ASSUME TypeOK, AttemptInv, [Next]_vars
  PROVE  AttemptInv'
<1> USE DEF AttemptInv, AcceptedIsAuthorized
<1>1. ASSUME NEW p \in Proc, NEW s \in Sample, NEW a \in AttemptId, NEW v \in Version,
             AuthorizeAttempt(p, s, a, v)
      PROVE  AttemptInv'
  BY <1>1 DEF AuthorizeAttempt, TypeOK
<1>2. ASSUME NEW p \in Proc, NEW a \in Handed, NEW b \in Body, NEW v \in Version,
             AcceptResult(p, a, b, v)
      PROVE  AttemptInv'
  BY <1>2 DEF AcceptResult, TypeOK, Handed
<1>3. ASSUME UNCHANGED <<attempts, accepted>>
      PROVE  AttemptInv'
  BY <1>3
<1>4. ASSUME NEW p \in Proc, Processes(p) \/ Generations(p) \/ Recovering(p)
      PROVE  UNCHANGED <<attempts, accepted>>
  BY <1>4 DEF Processes, Generations, Recovering, AcquireOwner, Close, Crash, WorkerExit,
     PrepareGeneration, WriteCheckpoint, RecordEvidence, CommitManifest, RecoverScan,
     RecoverCommitted, RecoverRefused, control
<1>5. CommitToken \/ CommitHead \/ CommitFail => UNCHANGED <<attempts, accepted>>
  BY DEF CommitToken, CommitHead, CommitFail, control
<1>6. UNCHANGED vars => UNCHANGED <<attempts, accepted>>
  BY DEF vars, control
<1> QED BY <1>1, <1>2, <1>3, <1>4, <1>5, <1>6 DEF Next, Results

-----------------------------------------------------------------------------
(* The inductive invariant as a whole                                        *)

IInv == TypeOK /\ EpochInv /\ OwnerInv /\ AttemptInv /\ StoreInv

(* The inductive invariant holds of the empty run directory. *)
LEMMA InitInv == Init => IInv
<1> SUFFICES ASSUME Init PROVE IInv
  OBVIOUS
<1>1. TypeOK /\ EpochInv
  BY InitTyped
<1>2. OwnerInv /\ AttemptInv
  BY DEF Init, OwnerInv, FencedOwner, Alive, AttemptInv, AcceptedIsAuthorized
<1>3. log = <<>> /\ Len(log) = 0 /\ Committed = {} /\ Unresolved = {}
  BY DEF Init, Committed, Range, Unresolved, Prepared
<1>4. StoreInv
  BY <1>3 DEF Init, StoreInv, LogInv, LedgerIsChain, TokenIsFinal, DataInv, CandInv, OneCandidate,
     OpInv, Idle
<1> QED BY <1>1, <1>2, <1>4 DEF IInv

(* Every step keeps the types and the epochs. *)
LEMMA NextTyped ==
  ASSUME IInv, [Next]_vars
  PROVE  TypeOK' /\ EpochInv'
<1>1. HeadTyped /\ (op.step # "idle" => op.gen \in Gen)
  BY HeadIsLast DEF IInv, StoreInv, OpInv, TypeOK, Unresolved, Prepared, Committed, Range
<1>2. CASE UNCHANGED vars
  BY <1>2 DEF vars, people, control, store, IInv, TypeOK, EpochInv
<1> QED BY <1>1, <1>2, ProcessesTyped, ResultsTyped, GenerationsTyped, CommitTyped, RecoveringTyped
        DEF Next, IInv

(* Every step keeps what is known of the generations on disk. *)
LEMMA NextStore ==
  ASSUME IInv, [Next]_vars
  PROVE  StoreInv'
<1> USE DEF IInv
<1>1. ASSUME NEW p \in Proc, Processes(p)
      PROVE  StoreInv'
  BY <1>1, QuietStep DEF Processes, AcquireOwner, Close, Crash, WorkerExit, control
<1>2. ASSUME NEW p \in Proc, Results(p)
      PROVE  StoreInv'
  BY <1>2, QuietStep DEF Results, AuthorizeAttempt, AcceptResult, Locked
<1>3. ASSUME NEW p \in Proc, Generations(p)
      PROVE  StoreInv'
  BY <1>3, PrepareStep, WriteCheckpointStep, RecordEvidenceStep, CommitManifestStep DEF Generations
<1>4. ASSUME NEW p \in Proc, Recovering(p)
      PROVE  StoreInv'
  BY <1>4, RecoverScanStep, QuietStep DEF Recovering, RecoverCommitted, RecoverRefused, control
<1>5. CASE CommitToken
  BY <1>5, CommitTokenStep
<1>6. CASE CommitHead \/ CommitFail
  BY <1>6, QuietStep DEF CommitHead, CommitFail, control
<1>7. CASE UNCHANGED vars
  BY <1>7, QuietStep DEF vars, control
<1> QED BY <1>1, <1>2, <1>3, <1>4, <1>5, <1>6, <1>7 DEF Next

(* The inductive invariant is preserved by every step. *)
LEMMA NextInv == IInv /\ [Next]_vars => IInv'
BY NextTyped, NextStore, OwnerStep, AttemptStep DEF IInv

(* Every reachable state satisfies the inductive invariant. *)
THEOREM InductiveInvariant == Spec => []IInv
BY InitInv, NextInv, PTL DEF Spec

(* Type correctness of the run directory and of the processes that use it. *)
THEOREM TypeCorrect == Spec => []TypeOK
<1>1. IInv => TypeOK
  BY DEF IInv
<1> QED BY <1>1, InductiveInvariant, PTL

(* The tokens form one chain, whatever crashed, failed or was abandoned. *)
THEOREM LedgerIsAChain == Spec => []LedgerIsChain
<1>1. IInv => LedgerIsChain
  BY DEF IInv, StoreInv, LogInv
<1> QED BY <1>1, InductiveInvariant, PTL

(* No sample and no logical update is retained twice. *)
THEOREM NothingConsumedTwice == Spec => []ConsumedOnce
<1>1. ASSUME DataInv
      PROVE  ConsumedOnce
  <2>1. ASSUME NEW i \in 1 .. Len(log), NEW j \in 1 .. Len(log), i < j
        PROVE  /\ SamplesOf(intent[log[i]].entries) \cap SamplesOf(intent[log[j]].entries) = {}
               /\ intent[log[i]].updates \cap intent[log[j]].updates = {}
    BY <1>1, <2>1 DEF DataInv, Extends, SelfConsistent
  <2>2. ASSUME NEW i \in 1 .. Len(log), NEW j \in 1 .. Len(log), i # j
        PROVE  /\ SamplesOf(intent[log[i]].entries) \cap SamplesOf(intent[log[j]].entries) = {}
               /\ intent[log[i]].updates \cap intent[log[j]].updates = {}
    <3>1. CASE i < j
      BY <2>1, <3>1
    <3>2. CASE j < i
      BY <2>1, <3>2
    <3> QED BY <2>2, <3>1, <3>2
  <2> QED BY <2>2 DEF ConsumedOnce
<1>2. IInv => ConsumedOnce
  BY <1>1 DEF IInv, StoreInv
<1> QED BY <1>2, InductiveInvariant, PTL

(* A drawn sample stays consumed or pending in every later generation. *)
THEOREM NoDrawSkipped == Spec => []DrawnNeverLost
<1>1. ASSUME DataInv
      PROVE  DrawnNeverLost
  <2>1. ASSUME NEW i \in 1 .. Len(log), NEW j \in 1 .. Len(log), i <= j
        PROVE  Range(intent[log[i]].drawn) \subseteq Range(intent[log[j]].drawn)
    <3>1. CASE i = j
      BY <3>1
    <3>2. CASE i < j
      BY <1>1, <3>2 DEF DataInv, Extends
    <3> QED BY <2>1, <3>1, <3>2
  <2> QED BY <2>1 DEF DrawnNeverLost, Pending
<1>2. IInv => DrawnNeverLost
  BY <1>1 DEF IInv, StoreInv
<1> QED BY <1>2, InductiveInvariant, PTL

(* A token stands for complete, published and never abandoned work. *)
THEOREM TokensAreFinal == Spec => []TokenIsFinal
<1>1. IInv => TokenIsFinal
  BY DEF IInv, StoreInv, LogInv
<1> QED BY <1>1, InductiveInvariant, PTL

(* There is never more than one candidate to recover. *)
THEOREM AtMostOneCandidate == Spec => []OneCandidate
<1>1. IInv => OneCandidate
  BY DEF IInv, StoreInv, CandInv
<1> QED BY <1>1, InductiveInvariant, PTL

(* One owner, of the newest epoch, with no older process alive. *)
THEOREM OwnersAreFenced == Spec => []FencedOwner
<1>1. IInv => FencedOwner
  BY DEF IInv, OwnerInv
<1> QED BY <1>1, InductiveInvariant, PTL

(* Accepted results belong to the current attempt and its versions. *)
THEOREM OnlyAuthorizedResults == Spec => []AcceptedIsAuthorized
<1>1. IInv => AcceptedIsAuthorized
  BY DEF IInv, AttemptInv
<1> QED BY <1>1, InductiveInvariant, PTL

(* A token is published only while its attempts are the authorized ones. *)
THEOREM TokensAreAuthorized == Spec => TokenIsAuthorized
<1>1. IInv /\ [Next]_vars => [\A g \in Range(log') \ Range(log) : AttemptsCurrent(g)]_vars
  <2> SUFFICES ASSUME IInv, Next
               PROVE  \A g \in Range(log') \ Range(log) : AttemptsCurrent(g)
    OBVIOUS
  <2>1. CASE CommitToken
    BY <2>1, CommitTokenStep DEF IInv
  <2>2. CASE CommitHead \/ CommitFail
    BY <2>2 DEF CommitHead, CommitFail, store
  <2>3. ASSUME NEW p \in Proc, Processes(p) \/ Results(p) \/ Generations(p) \/ Recovering(p)
        PROVE  log' = log
    BY <2>3 DEF Processes, Results, Generations, Recovering, AcquireOwner, Close, Crash, WorkerExit,
       AuthorizeAttempt, AcceptResult, PrepareGeneration, WriteCheckpoint, RecordEvidence,
       CommitManifest, RecoverScan, RecoverCommitted, RecoverRefused, store
  <2> QED BY <2>1, <2>2, <2>3 DEF Next
<1> QED BY <1>1, InductiveInvariant, PTL DEF Spec, TokenIsAuthorized

-----------------------------------------------------------------------------
(* The run directory implements the ledger of retained updates.              *)

Entries == [i \in 1 .. Len(log) |-> [samples |-> SamplesOf(intent[log[i]].entries),
                                     updates |-> intent[log[i]].updates]]
DrawnSet == IF log = <<>> THEN {} ELSE Range(intent[Last(log)].drawn)

(* A step that publishes no token and changes no committed intent leaves the ledger alone. *)
LEMMA LedgerFrame ==
  ASSUME IInv, [Next]_vars, ~CommitToken
  PROVE  Entries' = Entries /\ DrawnSet' = DrawnSet
<1>1. log \in Seq(Gen) /\ log' = log
  <2>1. ASSUME NEW p \in Proc, Processes(p) \/ Results(p) \/ Generations(p) \/ Recovering(p)
        PROVE  log' = log
    BY <2>1 DEF Processes, Results, Generations, Recovering, AcquireOwner, Close, Crash, WorkerExit,
       AuthorizeAttempt, AcceptResult, PrepareGeneration, WriteCheckpoint, RecordEvidence,
       CommitManifest, RecoverScan, RecoverCommitted, RecoverRefused, store
  <2> QED BY <2>1 DEF Next, CommitHead, CommitFail, store, vars, IInv, TypeOK
<1>2. \A i \in 1 .. Len(log) : intent'[log[i]] = intent[log[i]]
  <2>1. ASSUME NEW p \in Proc, NEW g \in Gen, NEW S \in SUBSET Sample, NEW U \in Batches,
               NEW drawn \in Draws, PrepareGeneration(p, g, S, U, drawn)
        PROVE  \A i \in 1 .. Len(log) : intent'[log[i]] = intent[log[i]]
    <3>1. \A i \in 1 .. Len(log) : log[i] # g /\ log[i] \in Gen
      BY <1>1, <2>1 DEF PrepareGeneration, IInv, StoreInv, LogInv
    <3> QED BY <2>1, <3>1 DEF PrepareGeneration, IInv, TypeOK
  <2>2. ASSUME NEW p \in Proc, Processes(p) \/ Results(p) \/ Recovering(p)
        PROVE  intent' = intent
    BY <2>2 DEF Processes, Results, Recovering, AcquireOwner, Close, Crash, WorkerExit,
       AuthorizeAttempt, AcceptResult, RecoverScan, RecoverCommitted, RecoverRefused, store
  <2>3. ASSUME NEW p \in Proc, Generations(p)
        PROVE  \A i \in 1 .. Len(log) : intent'[log[i]] = intent[log[i]]
    BY <2>1, <2>3 DEF Generations, WriteCheckpoint, RecordEvidence, CommitManifest
  <2> QED BY <2>2, <2>3 DEF Next, CommitHead, CommitFail, store, vars
<1>3. Entries' = Entries
  BY <1>1, <1>2 DEF Entries
<1>4. DrawnSet' = DrawnSet
  <2>1. log # <<>> => Last(log) = log[Len(log)] /\ Len(log) \in 1 .. Len(log)
    BY <1>1 DEF Last
  <2> QED BY <1>1, <1>2, <2>1 DEF DrawnSet
<1> QED BY <1>3, <1>4

(* Publishing a token is the Commit step of the ledger. *)
LEMMA LedgerCommit ==
  ASSUME IInv, CommitToken
  PROVE  Ledger!LedgerNext
<1> DEFINE g == op.gen
           S == SamplesOf(intent[g].entries)
           U == intent[g].updates
           D == Range(intent[g].drawn)
           rec == [samples |-> S, updates |-> U]
<1>1. /\ log \in Seq(Gen) /\ log' = Append(log, g) /\ intent' = intent
      /\ g \in Gen /\ g \in Unresolved /\ intent[g] \in Intents
  BY DEF CommitToken, IInv, StoreInv, OpInv, Unresolved, Prepared, TypeOK
<1>2. /\ SelfConsistent(g)
      /\ \A i \in 1 .. Len(log) : Extends(g, log[i]) /\ SelfConsistent(log[i])
  BY <1>1 DEF IInv, StoreInv, CandInv, DataInv
<1>3. /\ S \in SUBSET Sample
      /\ U \in SUBSET Update
      /\ D \in SUBSET Sample
  <2>1. intent[g].drawn \in Seq(Sample)
    BY <1>1, ConstantsAssumption DEF Intents
  <2> QED BY <1>1, <2>1 DEF Intents, SamplesOf, Receipts, Attempts, Range
<1>4. /\ S \cap UNION {e.samples : e \in Range(Entries)} = {}
      /\ U \cap UNION {e.updates : e \in Range(Entries)} = {}
      /\ (UNION {e.samples : e \in Range(Entries)}) \cup S \subseteq D
  <2>1. \A i \in 1 .. Len(log) :
           /\ Entries[i].samples = SamplesOf(intent[log[i]].entries)
           /\ Entries[i].updates = intent[log[i]].updates
    BY DEF Entries
  <2>2. \A e \in Range(Entries) : \E i \in 1 .. Len(log) : e = Entries[i]
    BY DEF Range, Entries
  <2>3. ASSUME NEW i \in 1 .. Len(log)
        PROVE  /\ S \cap Entries[i].samples = {}
               /\ U \cap Entries[i].updates = {}
               /\ Entries[i].samples \subseteq D
    BY <1>2, <2>1 DEF Extends, SelfConsistent
  <2>4. S \subseteq D
    BY <1>2 DEF SelfConsistent
  <2> HIDE DEF S, U, D
  <2>5. \A e \in Range(Entries) : S \cap e.samples = {} /\ U \cap e.updates = {} /\ e.samples \subseteq D
    BY <2>2, <2>3
  <2>6. S \cap UNION {e.samples : e \in Range(Entries)} = {}
    BY <2>5
  <2>7. U \cap UNION {e.updates : e \in Range(Entries)} = {}
    BY <2>5
  <2>8. UNION {e.samples : e \in Range(Entries)} \subseteq D
    BY <2>5
  <2> QED BY <2>4, <2>6, <2>7, <2>8
<1>5. Entries' = Append(Entries, rec)
  <2>1. Len(log') = Len(log) + 1 /\ \A i \in 1 .. Len(log) : log'[i] = log[i]
    BY <1>1
  <2>2. log'[Len(log) + 1] = g
    BY <1>1
  <2> QED BY <1>1, <2>1, <2>2 DEF Entries
<1>6. DrawnSet' = D /\ DrawnSet \subseteq D
  <2>1. log' # <<>> /\ Last(log') = g
    BY <1>1 DEF Last
  <2>2. ASSUME log # <<>>
        PROVE  Range(intent[Last(log)].drawn) \subseteq D
    <3>1. Len(log) \in 1 .. Len(log) /\ Last(log) = log[Len(log)]
      BY <1>1, <2>2 DEF Last
    <3> QED BY <1>2, <3>1 DEF Extends
  <2> QED BY <1>1, <2>1, <2>2 DEF DrawnSet
<1>7. Ledger!Commit(S, U, D)
  <2>1. Ledger!Trained = UNION {e.samples : e \in Range(Entries)}
    BY DEF Ledger!Trained, Entries, Ledger!Range, Range
  <2>2. Ledger!Retained = UNION {e.updates : e \in Range(Entries)}
    BY DEF Ledger!Retained, Entries, Ledger!Range, Range
  <2>3. U # {}
    BY <1>2 DEF SelfConsistent
  <2>4. /\ S \cap Ledger!Trained = {}
        /\ U \cap Ledger!Retained = {}
        /\ Ledger!Trained \cup S \subseteq D
    BY <1>4, <2>1, <2>2
  <2> HIDE DEF S, U, D
  <2> QED BY <1>5, <1>6, <2>3, <2>4 DEF Ledger!Commit, Entries, DrawnSet
<1> HIDE DEF S, U, D, g
<1> QED BY <1>3, <1>7 DEF Ledger!LedgerNext, Ledger!Commit

(* Each token appends to the ledger; every other step leaves it alone. *)
THEOREM ImplementsLedger == Spec => RefinesLedger
<1>1. Init => Ledger!LedgerInit
  BY DEF Init, Ledger!LedgerInit
<1>2. IInv /\ [Next]_vars => [Ledger!LedgerNext]_(Ledger!lvars)
  <2> SUFFICES ASSUME IInv, [Next]_vars
               PROVE  Ledger!LedgerNext \/ UNCHANGED Ledger!lvars
    OBVIOUS
  <2>1. CASE CommitToken
    BY <2>1, LedgerCommit
  <2>2. CASE ~CommitToken
    BY <2>2, LedgerFrame DEF Ledger!lvars, Entries, DrawnSet
  <2> QED BY <2>1, <2>2
<1> QED BY <1>1, <1>2, InductiveInvariant, PTL DEF Spec, RefinesLedger, Ledger!LedgerSpec

-----------------------------------------------------------------------------
(* What select_recovery returns, and the receipts                            *)

(* A candidate is in front of the tokens that were there when it was found; the commit in
   flight that wrote a token wrote the last one.                                         *)
Behind(g) == \E i \in 1 .. Len(log) : i > recovery.floor /\ log[i] = g

ReturnInv ==
    /\ recovery.floor <= Len(log)
    /\ recovery.stage = "promote" => recovery.gen \in Gen
    /\ recovery.stage = "promote" /\ recovery.gen \in Committed => Behind(recovery.gen)
    /\ op.step = "head" => log # <<>> /\ log[Len(log)] = op.gen
    /\ RecoveryKeepsCommitted

(* A step that writes no token and leaves the recovery alone, or ends it *)
LEMMA ReturnStays ==
  ASSUME TypeOK, ReturnInv, log' = log, op' = op \/ op'.step # "head",
         recovery' = recovery \/ recovery' = Decision
  PROVE  ReturnInv'
BY DEF TypeOK, ReturnInv, RecoveryKeepsCommitted, Behind, Committed, Decision

(* The token goes behind the ones that were there. *)
LEMMA ReturnToken ==
  ASSUME TypeOK, ReturnInv, CommitToken, op.gen \in Gen
  PROVE  ReturnInv'
<1>1. /\ log \in Seq(Gen) /\ Len(log) \in Nat /\ log' = Append(log, op.gen) /\ recovery' = recovery
      /\ op' = [op EXCEPT !.step = "head"]
  BY DEF CommitToken, TypeOK
<1>2. /\ Len(log') = Len(log) + 1 /\ log'[Len(log) + 1] = op.gen /\ log' # <<>>
      /\ \A i \in 1 .. Len(log) : log'[i] = log[i]
  BY <1>1
<1>3. recovery.floor \in Nat /\ op'.gen = op.gen
  BY <1>1 DEF TypeOK
<1>4. ASSUME recovery.stage = "promote", recovery.gen \in Committed'
      PROVE  Behind(recovery.gen)'
  <2>1. CASE recovery.gen \in Committed
    <3>1. PICK i \in 1 .. Len(log) : i > recovery.floor /\ log[i] = recovery.gen
      BY <1>4, <2>1 DEF ReturnInv, Behind
    <3>2. i \in 1 .. Len(log') /\ log'[i] = recovery.gen
      BY <1>1, <1>2, <3>1
    <3> QED
      BY <1>1, <3>1, <3>2 DEF Behind
  <2>2. CASE recovery.gen \notin Committed
    <3>1. recovery.gen = op.gen
      <4>1. Committed' = Committed \cup {op.gen}
        BY <1>1, RangeOfAppend DEF Committed
      <4> QED
        BY <1>4, <2>2, <4>1
    <3>2. Len(log) + 1 \in 1 .. Len(log') /\ Len(log) + 1 > recovery.floor
      BY <1>1, <1>2, <1>3 DEF ReturnInv
    <3> QED
      BY <1>1, <1>2, <3>1, <3>2 DEF Behind
  <2> QED
    BY <2>1, <2>2
<1>5. RecoveryKeepsCommitted'
  <2>1. ASSUME NEW i \in 1 .. Len(log), i >= recovery.floor, log[i] = recovery.gen
        PROVE  i \in 1 .. Len(log') /\ log'[i] = recovery.gen
    BY <1>1, <1>2, <2>1
  <2> QED
    BY <1>1, <2>1 DEF ReturnInv, RecoveryKeepsCommitted
<1>6. recovery'.floor <= Len(log')
  BY <1>1, <1>2, <1>3 DEF ReturnInv
<1>7. log'[Len(log')] = op'.gen
  BY <1>1, <1>2, <1>3
<1> QED
  BY <1>1, <1>2, <1>4, <1>5, <1>6, <1>7 DEF ReturnInv

(* select_recovery looks: it returns the last token, or has a candidate without one. *)
LEMMA ReturnScan ==
  ASSUME TypeOK, StoreInv, ReturnInv, NEW p \in Proc, RecoverScan(p)
  PROVE  ReturnInv'
<1>1. log' = log /\ op' = op /\ log \in Seq(Gen) /\ Len(log) \in Nat
  BY DEF RecoverScan, TypeOK
<1>2. ChainHead = LastGen
  BY HeadIsLast DEF StoreInv
<1>3. ASSUME recovery' = Scan("done", ChainHead)
      PROVE  ReturnInv'
  <2>1. recovery'.stage = "done" /\ recovery'.gen = ChainHead /\ recovery'.floor = Len(log)
    BY <1>3 DEF Scan
  <2>2. CASE log = <<>>
    <3>1. ChainHead = None /\ Len(log) = 0
      BY <1>2, <2>2 DEF LastGen
    <3> QED
      BY <1>1, <2>1, <3>1 DEF ReturnInv, RecoveryKeepsCommitted
  <2>3. CASE log # <<>>
    <3>1. ChainHead = log[Len(log)] /\ Len(log) \in 1 .. Len(log)
      BY <1>1, <1>2, <2>3 DEF LastGen
    <3> QED
      BY <1>1, <2>1, <3>1 DEF ReturnInv, RecoveryKeepsCommitted
  <2> QED
    BY <2>2, <2>3
<1>4. ASSUME NEW g \in Unresolved, recovery' = Scan("promote", g)
      PROVE  ReturnInv'
  <2>1. g \in Gen /\ g \notin Committed
    BY DEF Unresolved, Prepared
  <2>2. recovery'.stage = "promote" /\ recovery'.gen = g /\ recovery'.floor = Len(log)
    BY <1>4 DEF Scan
  <2> QED
    BY <1>1, <2>1, <2>2 DEF ReturnInv, RecoveryKeepsCommitted, Committed
<1> QED
  BY <1>3, <1>4 DEF RecoverScan

(* The candidate that was committed meanwhile, by whom ever, is returned. *)
LEMMA ReturnDecided ==
  ASSUME TypeOK, ReturnInv, NEW i \in 1 .. Len(log), i >= recovery.floor,
         log' = log, op' = op \/ op'.step # "head", recovery' = Decided(log[i])
  PROVE  ReturnInv'
<1>1. recovery'.stage = "done" /\ recovery'.gen = log[i] /\ recovery'.floor = recovery.floor
  BY DEF Decided, TypeOK
<1> QED
  BY <1>1 DEF ReturnInv, RecoveryKeepsCommitted, TypeOK

LEMMA ReturnNext ==
  ASSUME IInv, ReturnInv, [Next]_vars
  PROVE  ReturnInv'
<1>1. TypeOK /\ StoreInv /\ (op.step # "idle" => op.gen \in Gen)
  BY DEF IInv, StoreInv, OpInv, TypeOK, Unresolved, Prepared, Committed, Range
<1>2. ASSUME NEW p \in Proc, Processes(p) \/ Results(p)
      PROVE  ReturnInv'
  <2>1. CASE Crash(p)
    <3>1. log' = log /\ op'.step # "head" /\ recovery' = Decision
      BY <2>1 DEF Crash, store, Idle
    <3> QED
      BY <1>1, <3>1, ReturnStays
  <2>2. ASSUME ~Crash(p)
        PROVE  log' = log /\ op' = op /\ recovery' = recovery
    BY <1>2, <2>2 DEF Processes, Results, AcquireOwner, Close, WorkerExit, AuthorizeAttempt,
       AcceptResult, store
  <2> QED
    BY <1>1, <2>1, <2>2, ReturnStays
<1>3. ASSUME NEW p \in Proc, Generations(p)
      PROVE  ReturnInv'
  BY <1>1, <1>3, ReturnStays DEF Generations, PrepareGeneration, WriteCheckpoint, RecordEvidence,
     CommitManifest
<1>4. ASSUME NEW p \in Proc, RecoverCommitted(p)
      PROVE  ReturnInv'
  <2>1. PICK i \in 1 .. Len(log) : i > recovery.floor /\ log[i] = recovery.gen
    BY <1>4 DEF RecoverCommitted, ReturnInv, Behind
  <2>2. i >= recovery.floor /\ log' = log /\ op' = op /\ recovery' = Decided(log[i])
    BY <1>1, <1>4, <2>1 DEF RecoverCommitted, TypeOK, store
  <2> QED
    BY <1>1, <2>2, ReturnDecided
<1>5. ASSUME NEW p \in Proc, RecoverRefused(p)
      PROVE  ReturnInv'
  BY <1>1, <1>5, ReturnStays DEF RecoverRefused, store
<1>6. CASE CommitHead
  <2>1. log' = log /\ op'.step # "head" /\ log # <<>> /\ log[Len(log)] = op.gen
    BY <1>6 DEF CommitHead, ReturnInv, store, Idle
  <2>2. Len(log) \in 1 .. Len(log) /\ Len(log) >= recovery.floor
    BY <1>1, <2>1 DEF ReturnInv, TypeOK
  <2>3. recovery' = recovery \/ recovery' = Decided(log[Len(log)])
    BY <1>6, <2>1 DEF CommitHead
  <2> QED
    BY <1>1, <2>1, <2>2, <2>3, ReturnStays, ReturnDecided
<1>7. CASE CommitFail
  BY <1>1, <1>7, ReturnStays DEF CommitFail, store, Idle
<1>8. CASE UNCHANGED vars
  BY <1>1, <1>8, ReturnStays DEF vars, store
<1>9. CASE CommitToken
  BY <1>1, <1>9, ReturnToken DEF CommitToken
<1> QED
  BY <1>1, <1>2, <1>3, <1>4, <1>5, <1>6, <1>7, <1>8, <1>9, ReturnScan DEF Next, Recovering

(* What select_recovery returns is not behind anything that was committed when it looked,
   whatever thread commits in its lock gap and wherever a commit dies.                   *)
THEOREM RecoveryReturnsTheLast == Spec => []RecoveryKeepsCommitted
<1>1. Init => ReturnInv
  BY DEF Init, ReturnInv, RecoveryKeepsCommitted, Decision, Idle
<1>2. IInv /\ ReturnInv /\ [Next]_vars => ReturnInv'
  BY ReturnNext
<1>3. ReturnInv => RecoveryKeepsCommitted
  BY DEF ReturnInv
<1> QED BY <1>1, <1>2, <1>3, InductiveInvariant, PTL DEF Spec

(* An accepted result gives way to another attempt only, never to another result. *)
THEOREM ResultsAreStable == Spec => ResultIsStable
<1> DEFINE Step == \A s \in Sample : accepted[s] # None /\ accepted'[s] # accepted[s] =>
                      accepted'[s] = None /\ attempts'[s] # attempts[s]
<1>1. IInv /\ [Next]_vars => [Step]_vars
  <2> SUFFICES ASSUME IInv, Next
               PROVE  Step
    OBVIOUS
  <2>1. \A s \in Sample : accepted[s] # None => attempts[s] \in Attempts /\ attempts[s] # None
    BY ConstantsAssumption DEF IInv, TypeOK, AttemptInv, AcceptedIsAuthorized, Receipts
  <2>2. ASSUME NEW p \in Proc, NEW s \in Sample, NEW a \in AttemptId, NEW v \in Version,
               AuthorizeAttempt(p, s, a, v)
        PROVE  Step
    <3>1. attempts'[s].id = a /\ accepted'[s] = None
      BY <2>2 DEF AuthorizeAttempt, IInv, TypeOK
    <3>2. \A t \in Sample : t # s => accepted'[t] = accepted[t]
      BY <2>2 DEF AuthorizeAttempt, IInv, TypeOK
    <3> QED
      BY <2>1, <2>2, <3>1, <3>2 DEF AuthorizeAttempt
  <2>3. ASSUME NEW p \in Proc, NEW a \in Handed, NEW b \in Body, NEW v \in Version,
               AcceptResult(p, a, b, v)
        PROVE  Step
    BY <2>3 DEF AcceptResult, IInv, TypeOK
  <2>4. ASSUME NEW p \in Proc, Processes(p) \/ Generations(p) \/ Recovering(p)
        PROVE  accepted' = accepted
    BY <2>4 DEF Processes, Generations, Recovering, AcquireOwner, Close, Crash, WorkerExit,
       PrepareGeneration, WriteCheckpoint, RecordEvidence, CommitManifest, RecoverScan,
       RecoverCommitted, RecoverRefused, control
  <2>5. CASE CommitToken \/ CommitHead \/ CommitFail
    BY <2>5 DEF CommitToken, CommitHead, CommitFail, control
  <2> QED BY <2>2, <2>3, <2>4, <2>5 DEF Next, Results
<1> QED BY <1>1, InductiveInvariant, PTL DEF Spec, ResultIsStable

=============================================================================
