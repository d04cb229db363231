----------------------------- MODULE SealStore -----------------------------
(***************************************************************************)
(* The sealing reward model of scripts/phase2_seal_rm.py and what          *)
(* scripts/phase2_reconciler.py makes of its files after a crash.          *)
(*                                                                         *)
(* A call scores samples, claims their logical ids in SQLite (cas_claims), *)
(* appends the accepted records to rewards.jsonl inside that transaction,  *)
(* and seals a group in seals.jsonl when all its samples were scored.  A   *)
(* call runs without suspension in its process; the steps below are those  *)
(* between which another process can run, the process can die, or an       *)
(* operation on a file can raise.  A logical id is its sample, responses   *)
(* and labels are what the verifiers V1 and V2 say of them, and a write to *)
(* rewards.jsonl is the set of its lines.  RTX_SEAL is on.                 *)
(***************************************************************************)
EXTENDS Integers, FiniteSets, Sequences

CONSTANTS Proc,        \* incarnations of the reward process, each started once
          Group,       \* group indexes
          Sample,      \* samples; index and rollout_id are part of the name
          GroupOf,     \* the group of a sample
          Late,        \* samples at the positions K \div 2 and later
          V1, V2,      \* the rewards the two verifiers give a sample
          Fault,       \* the window a group is in: RTX_FAULT_WINDOWS
          Modes,       \* values of RTX_GROUP_RM the processes are started with
          AutoFix,     \* RTX_SEAL_AUTO_FIX
          Exclusive,   \* one reward process at a time serves the run
          MaxCount     \* bound on the registrations of a group in one process

Members(g) == {s \in Sample : GroupOf[s] = g}

(* One sample too few. *)
ShortOfOne == CHOOSE n \in 0..Cardinality(Sample) : \A g \in Group : Cardinality(Members(g)) = n + 1

\* Every group has the size RTX_GROUP_SIZE.
K == CHOOSE n \in 0..Cardinality(Sample) : \A g \in Group : Cardinality(Members(g)) = n

ASSUME StoreAssumption ==
    /\ IsFiniteSet(Sample)
    /\ GroupOf \in [Sample -> Group]
    /\ \A g, h \in Group : Cardinality(Members(g)) = Cardinality(Members(h))
    /\ Late \subseteq Sample
    /\ V1 \in [Sample -> 0..1] /\ V2 \in [Sample -> 0..1]
    /\ Fault \in [Group -> {"none", "skew", "dup", "crm_crash"}]
    /\ Modes \subseteq {"single", "group"}
    /\ AutoFix \in BOOLEAN /\ Exclusive \in BOOLEAN
    /\ MaxCount \in Nat

None == -1  \* no reward, no recorded size
NoLock == "unlocked"

VARIABLES
    log,     \* rewards.jsonl: the lines of each write, in order
    claims,  \* the committed rows of cas_claims
    size,    \* rewards_size of cas_meta
    dblock,  \* the process in a write transaction
    seals,   \* seals.jsonl
    proc,    \* "new", "up" or "dead"
    mode,    \* GROUP_RM
    faults,  \* whether its environment still has the fault windows
    conn,    \* _cas_conn is open
    seen,    \* _seen_logical
    regs,    \* _seal_state: verdicts and samples registered, and their count
    done,    \* samples whose call has returned
    call     \* the call in progress

disk == <<log, claims, size, seals>>
memory == <<mode, faults, seen, regs, done>>
vars == <<disk, dblock, proc, conn, memory, call>>

Line == [s : Sample, kind : {"score", "crash", "fixed"}, ver : {"v1", "v2", "retry-stale"},
         reward : {None, 0, 1}]

Call == [at : {"idle", "open", "import", "begin", "append", "commit", "written", "fix", "seal"},
         lines : SUBSET Line, new : SUBSET Line, seenSize : Nat, raises : BOOLEAN]

Verdicts == {"v1", "v2", "retry-stale"}
Registered == [vers : SUBSET Verdicts, ids : SUBSET Sample, count : Nat]

Lines == UNION {log[i] : i \in DOMAIN log}
Plain(l) == l.kind # "fixed"
IdsOf(lines) == {l.s : l \in lines}

(* _fault_for; a restarted run has no windows any more. *)
FaultFor(p, g) == IF faults[p] THEN Fault[g] ELSE "none"

(* _compute_verdict: the second half of a group in a window gets another verifier. *)
Verdict(p, s) ==
    CASE s \in Late /\ FaultFor(p, GroupOf[s]) = "skew" -> "v2"
      [] s \in Late /\ FaultFor(p, GroupOf[s]) = "dup" -> "retry-stale"
      [] OTHER -> "v1"

Scored(s, v, fixed) ==
    IF v = "v1" \/ fixed THEN [s |-> s, kind |-> "score", ver |-> "v1", reward |-> V1[s]]
                         ELSE [s |-> s, kind |-> "score", ver |-> v, reward |-> V2[s]]

(* _log_crash: the rollout is kept, the reward is missing. *)
CrashLine(s) == [s |-> s, kind |-> "crash", ver |-> "v1", reward |-> None]

FixedLine(s) == [s |-> s, kind |-> "fixed", ver |-> "v1", reward |-> V1[s]]

Status(vs) == IF Cardinality(vs) = 1 THEN "SEALED" ELSE "ABORTED"

NoCall == [at |-> "idle", lines |-> {}, new |-> {}, seenSize |-> 0, raises |-> FALSE]
NoRegs == [g \in Group |-> [vers |-> {}, ids |-> {}, count |-> 0]]

Goto(p, step) == call' = [call EXCEPT ![p].at = step]

(* The call raises: nothing is returned, and the connection is dropped. *)
Abort(p) ==
    /\ call' = [call EXCEPT ![p] = NoCall]
    /\ conn' = [conn EXCEPT ![p] = FALSE]
    /\ dblock' = IF dblock = p THEN NoLock ELSE dblock
    /\ UNCHANGED <<claims, size, seals, proc, memory>>

Start(p, m, f) ==
    /\ proc[p] = "new"
    /\ Exclusive => \A q \in Proc : proc[q] # "up"
    /\ f => \A q \in Proc : proc[q] # "new" => faults[q]
    /\ proc' = [proc EXCEPT ![p] = "up"]
    /\ mode' = [mode EXCEPT ![p] = m]
    /\ faults' = [faults EXCEPT ![p] = f]
    /\ UNCHANGED <<disk, dblock, conn, seen, regs, done, call>>

(* The process dies with everything it holds in memory; SQLite rolls its open
   transaction back. *)
Die(p) ==
    /\ proc[p] = "up"
    /\ proc' = [proc EXCEPT ![p] = "dead"]
    /\ conn' = [conn EXCEPT ![p] = FALSE]
    /\ call' = [call EXCEPT ![p] = NoCall]
    /\ seen' = [seen EXCEPT ![p] = {}]
    /\ regs' = [regs EXCEPT ![p] = NoRegs]
    /\ done' = [done EXCEPT ![p] = {}]
    /\ dblock' = IF dblock = p THEN NoLock ELSE dblock
    /\ UNCHANGED <<disk, mode, faults>>

(* _cas_write_many up to its transaction: what this process has seen is a
   duplicate and is not written again. *)
Submit(p, lines, raises) ==
    LET fresh == {l \in lines : l.s \notin seen[p]}
        next  == IF fresh = {} THEN "written" ELSE IF conn[p] THEN "begin" ELSE "open"
    IN  /\ call' = [call EXCEPT ![p] = [at |-> next, lines |-> lines, new |-> fresh,
                                        seenSize |-> 0, raises |-> raises]]
        /\ UNCHANGED <<disk, dblock, proc, conn, memory>>

Idle(p) == proc[p] = "up" /\ call[p].at = "idle"

(* rm_function for one sample, or one of a list without RTX_GROUP_RM. *)
RmOne(p, s) ==
    LET g == GroupOf[s]
    IN  /\ Idle(p) /\ mode[p] = "single" /\ s \notin done[p]
        /\ regs[p][g].count < MaxCount
        /\ IF FaultFor(p, g) = "crm_crash"
           THEN Submit(p, {CrashLine(s)}, TRUE)
           ELSE Submit(p, {Scored(s, Verdict(p, s), FALSE)}, FALSE)

(* rm_function with RTX_GROUP_RM: a whole group, with version 1 rewards for all of
   it when the verdicts are mixed and RTX_SEAL_AUTO_FIX is on.  In a crash window
   the first sample raises. *)
RmGroup(p, g) ==
    LET vs == {Verdict(p, s) : s \in Members(g)}
    IN  /\ Idle(p) /\ mode[p] = "group" /\ ~(Members(g) \subseteq done[p])
        /\ \/ /\ FaultFor(p, g) = "crm_crash"
              /\ \E s \in Members(g) \ Late : Submit(p, {CrashLine(s)}, TRUE)
           \/ /\ FaultFor(p, g) # "crm_crash"
              /\ Submit(p, {Scored(s, Verdict(p, s), AutoFix /\ Cardinality(vs) > 1) :
                               s \in Members(g)}, FALSE)

(* _get_cas_connection, _initialize_cas_index: the size of the log is read before
   the transaction that compares it. *)
ReadSize(p) ==
    /\ call[p].at = "open"
    /\ call' = [call EXCEPT ![p].seenSize = Len(log), ![p].at = "import"]
    /\ UNCHANGED <<disk, dblock, proc, conn, memory>>

(* The ids of the log are not imported. *)
ImportSize(p) ==
    /\ call[p].at = "import" /\ dblock = NoLock
    /\ size' = call[p].seenSize
    /\ conn' = [conn EXCEPT ![p] = TRUE]
    /\ Goto(p, "begin")
    /\ UNCHANGED <<log, claims, seals, dblock, proc, memory>>

Import(p) ==
    LET kept == IF size # None /\ call[p].seenSize < size THEN {} ELSE claims
    IN  /\ call[p].at = "import"
        /\ dblock = NoLock
        /\ IF size = call[p].seenSize
           THEN UNCHANGED <<claims, size>>
           ELSE /\ claims' = kept \union IdsOf(Lines)
                /\ size' = call[p].seenSize
        /\ conn' = [conn EXCEPT ![p] = TRUE]
        /\ Goto(p, "begin")
        /\ UNCHANGED <<log, seals, dblock, proc, memory>>

(* BEGIN IMMEDIATE and the INSERT OR IGNORE of every candidate. *)
Begin(p) ==
    LET new == {l \in call[p].new : l.s \notin claims}
    IN  /\ call[p].at = "begin"
        /\ dblock = NoLock
        /\ dblock' = p
        /\ call' = [call EXCEPT ![p].new = new, ![p].at = IF new = {} THEN "commit" ELSE "append"]
        /\ UNCHANGED <<disk, proc, conn, memory>>

(* The append, and the new size of the file for cas_meta. *)
AppendLines(p) ==
    /\ call[p].at = "append"
    /\ log' = Append(log, call[p].new)
    /\ call' = [call EXCEPT ![p].seenSize = Len(log) + 1, ![p].at = "commit"]
    /\ UNCHANGED <<claims, size, seals, dblock, proc, conn, memory>>

Commit(p) ==
    /\ call[p].at = "commit"
    /\ claims' = claims \union IdsOf(call[p].new)
    /\ size' = IF call[p].new = {} THEN size ELSE call[p].seenSize
    /\ seen' = [seen EXCEPT ![p] = @ \union IdsOf(call[p].lines)]
    /\ dblock' = NoLock
    /\ Goto(p, "written")
    /\ UNCHANGED <<log, seals, proc, conn, mode, faults, regs, done>>

(* SQLite is busy for too long, or the transaction raises: before the append, after
   some of its lines were written, or at the commit. *)
WriteFails(p) ==
    /\ \/ /\ call[p].at \in {"open", "import", "begin", "append", "commit"}
          /\ UNCHANGED log
       \/ /\ call[p].at = "append"
          /\ \E some \in SUBSET call[p].new \ {{}, call[p].new} : log' = Append(log, some)
    /\ Abort(p)

(* The injected crash of the reward model is raised after its record is written. *)
RaiseCrash(p) ==
    /\ call[p].at = "written" /\ call[p].raises
    /\ call' = [call EXCEPT ![p] = NoCall]
    /\ UNCHANGED <<disk, dblock, proc, conn, memory>>

(* _seal_register: the sample is counted, and a full group is judged. *)
Register(p) ==
    /\ call[p].at = "written" /\ ~call[p].raises /\ mode[p] = "single"
    /\ \E l \in call[p].lines :
          LET g == GroupOf[l.s]
              r == [vers |-> regs[p][g].vers \union {Verdict(p, l.s)},
                    ids |-> regs[p][g].ids \union {l.s}, count |-> regs[p][g].count + 1]
          IN  /\ regs' = [regs EXCEPT ![p][g] = r]
              /\ IF r.count < K
                 THEN /\ done' = [done EXCEPT ![p] = @ \union {l.s}]
                      /\ call' = [call EXCEPT ![p] = NoCall]
                 ELSE /\ Goto(p, IF Status(r.vers) = "ABORTED" /\ AutoFix THEN "fix" ELSE "seal")
                      /\ UNCHANGED done
    /\ UNCHANGED <<disk, dblock, proc, conn, mode, faults, seen>>

CallGroup(p) == GroupOf[(CHOOSE l \in call[p].lines : TRUE).s]

(* _autofix_rewrite: version 1 rewards are appended for what this process
   registered of the group; a failing append fails the call. *)
AutofixRewrite(p) ==
    /\ call[p].at = "fix"
    /\ log' = Append(log, {FixedLine(s) : s \in regs[p][CallGroup(p)].ids})
    /\ Goto(p, "seal")
    /\ UNCHANGED <<claims, size, seals, dblock, proc, conn, memory>>

AutofixFails(p) ==
    /\ call[p].at = "fix"
    /\ call' = [call EXCEPT ![p] = NoCall]
    /\ UNCHANGED <<disk, dblock, proc, conn, memory>>

(* The seal record and the return of the call; an error of the append is ignored. *)
Seal(p) ==
    LET g  == CallGroup(p)
        vs == IF mode[p] = "single" THEN regs[p][g].vers ELSE {Verdict(p, s) : s \in Members(g)}
        n  == IF mode[p] = "single" THEN regs[p][g].ids ELSE Members(g)
    IN  /\ \/ call[p].at = "seal"
           \/ call[p].at = "written" /\ ~call[p].raises /\ mode[p] = "group"
        /\ \/ seals' = Append(seals, [group |-> g, status |-> Status(vs), ids |-> n])
           \/ UNCHANGED seals
        /\ done' = [done EXCEPT ![p] = @ \union IdsOf(call[p].lines)]
        /\ call' = [call EXCEPT ![p] = NoCall]
        /\ UNCHANGED <<log, claims, size, dblock, proc, conn, mode, faults, seen, regs>>

Init ==
    /\ log = <<>> /\ claims = {} /\ size = None /\ dblock = NoLock /\ seals = <<>>
    /\ proc = [p \in Proc |-> "new"]
    /\ mode = [p \in Proc |-> "single"]
    /\ faults = [p \in Proc |-> FALSE]
    /\ conn = [p \in Proc |-> FALSE]
    /\ seen = [p \in Proc |-> {}]
    /\ regs = [p \in Proc |-> NoRegs]
    /\ done = [p \in Proc |-> {}]
    /\ call = [p \in Proc |-> NoCall]

Next == \E p \in Proc :
    \/ \E m \in Modes, f \in BOOLEAN : Start(p, m, f)
    \/ Die(p)
    \/ \E s \in Sample : RmOne(p, s)
    \/ \E g \in Group : RmGroup(p, g)
    \/ ReadSize(p) \/ Import(p) \/ Begin(p) \/ AppendLines(p) \/ Commit(p) \/ WriteFails(p)
    \/ RaiseCrash(p) \/ Register(p) \/ AutofixRewrite(p) \/ AutofixFails(p) \/ Seal(p)

Spec == Init /\ [][Next]_vars

----------------------------------------------------------------------------
(* The reconciler, over the files a dead run left.  A corrected record has neither
   a "reward" nor a response of its own. *)

RewardOf(l) == IF l.kind = "fixed" THEN None ELSE l.reward

LastSeal(g) ==
    LET at == {i \in DOMAIN seals : seals[i].group = g}
    IN  IF at = {} THEN "none" ELSE seals[CHOOSE i \in at : \A j \in at : j <= i].status

(* build_plan *)
AbortedGroups == {g \in Group : LastSeal(g) = "ABORTED"}
CrashGroups == {GroupOf[l.s] : l \in {m \in Lines : RewardOf(m) = None}}
IncompleteGroups == CrashGroups \ AbortedGroups
ReplayGroups == AbortedGroups \union IncompleteGroups

(* Only mixed groups are scored again. *)
RecordsOfMixed(s) == {i \in DOMAIN log : \E l \in log[i] : l.s = s /\ GroupOf[s] \in AbortedGroups}

(* selective_replay: the last record of a sample that is in a mixed group or has
   no reward is scored again; the score of an absent response is 0. *)
ReplayRecords(s) ==
    {i \in DOMAIN log : \E l \in log[i] :
        l.s = s /\ (GroupOf[s] \in AbortedGroups \/ RewardOf(l) = None)}
Replayed == {s \in Sample : ReplayRecords(s) # {}}
LastRecord(s) ==
    LET i == CHOOSE i \in ReplayRecords(s) : \A j \in ReplayRecords(s) : j <= i
    IN  CHOOSE l \in log[i] : l.s = s
NewReward(s) == IF LastRecord(s).kind = "fixed" THEN 0 ELSE V1[s]

----------------------------------------------------------------------------
(* Everything has the shape its code gives it. *)
TypeOK ==
    /\ log \in Seq(SUBSET Line)
    /\ claims \subseteq Sample
    /\ size \in Nat \union {None}
    /\ dblock \in Proc \union {NoLock}
    /\ seals \in Seq([group : Group, status : {"SEALED", "ABORTED"}, ids : SUBSET Sample])
    /\ proc \in [Proc -> {"new", "up", "dead"}]
    /\ mode \in [Proc -> {"single", "group"}]
    /\ faults \in [Proc -> BOOLEAN] /\ conn \in [Proc -> BOOLEAN]
    /\ seen \in [Proc -> SUBSET Sample] /\ done \in [Proc -> SUBSET Sample]
    /\ regs \in [Proc -> [Group -> Registered]]
    /\ call \in [Proc -> Call]

(* rewards.jsonl is idempotent: whatever fails or dies between the append and the
   commit, a retry never adds a second record of a sample (_cas_write_many and the
   import of _initialize_cas_index). *)
OneLine ==
    \A i, j \in DOMAIN log : \A l \in log[i], m \in log[j] :
        Plain(l) /\ Plain(m) /\ l.s = m.s => i = j /\ l = m

(* A group is judged on all its samples, once each of them has its record, however
   many of its calls failed and were sent again (_seal_register, _rm_batch_group). *)
SealIsWhole ==
    \A i \in DOMAIN seals :
        /\ seals[i].ids = Members(seals[i].group)
        /\ Members(seals[i].group) \subseteq IdsOf(Lines)

(* A sample whose reward was lost in a crash of the reward model, and for which the
   CAS refuses every later record, is in a group of the reconciler's plan (build_plan)
   and is scored again with its version 1 reward (selective_replay). *)
CrashIsReplayed ==
    \A l \in Lines : l.kind = "crash" =>
        l.s \in Replayed /\ GroupOf[l.s] \in ReplayGroups /\ NewReward(l.s) = V1[l.s]

=============================================================================
