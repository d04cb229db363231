--------------------------- MODULE TraceCampaign ---------------------------
(***************************************************************************)
(* The trace runner of scripts/paper_trace_runner.py: the fixtures of the  *)
(* twelve cut points and the campaign that runs them, judges each trial    *)
(* with the oracle and leaves its files in one output directory.  Several  *)
(* runners may be started on the same directory, each can die between two  *)
(* of its writes, and the working tree may change meanwhile.               *)
(*                                                                         *)
(* Tokens, checkpoint hashes and payload digests are members of small sets *)
(* (a token is the one of its trial), a logical id is the number of its    *)
(* sample, and the digest of a trial's events is the run of them itself.   *)
(* The directory keeps of each trial what its events are computed from.    *)
(***************************************************************************)
EXTENDS TraceOracle, SequencesExt

CONSTANTS Runner,      \* processes running the script, each once
          Cuts,        \* CUT_POINTS, a sequence
          Levels,      \* SCHEDULE_LEVELS: a sequence of values for each dimension
          Stride,      \* how a seed rotates the levels of a dimension
          SeedOf,      \* the seeds a runner can be given
          FormalPerCut,\* FORMAL_PER_CUT
          SmokePerCut, \* --per-cut of a smoke run
          MaxEdits     \* bound on the changes of the working tree

ASSUME CampaignAssumption ==
    /\ Cuts \in Seq(STRING) /\ IsInjective(Cuts) /\ Len(Cuts) > 1
    /\ FormalPerCut \in Nat \ {0} /\ SmokePerCut \in Nat \ {0} /\ MaxEdits \in Nat
    /\ \A r \in Runner : SeedOf[r] \subseteq Int
    /\ DOMAIN Stride = DOMAIN Levels
    /\ \A d \in DOMAIN Levels :
          /\ Levels[d] \in Seq(Range(Levels[d])) /\ IsInjective(Levels[d])
          /\ Len(Levels[d]) \in 1..FormalPerCut /\ Stride[d] \in Nat \ {0}

(* What the fixtures are written for *)
ASSUME FixtureAssumption ==
    /\ Range(Cuts) \subseteq {"R1", "R2", "R3", "R4", "R5", "Q0", "Q1", "L0", "L2", "L3", "C1", "C2"}
    /\ {"kill_time", "ack_loss", "attempt_order", "revision", "group_size"} \subseteq DOMAIN Levels
    /\ Range(Levels["kill_time"]) \subseteq 0..100
    /\ Range(Levels["ack_loss"]) \subseteq BOOLEAN /\ Range(Levels["group_size"]) \subseteq Nat \ {0}

----------------------------------------------------------------------------
(* build_schedule: trial after trial the levels of a dimension follow each other, in
   an order and from a start the seed determines. *)
LevelOf(seed, d, trial) == Levels[d][((seed \div Stride[d] + trial) % Len(Levels[d])) + 1]
Dims(seed, trial) == [d \in DOMAIN Levels |-> LevelOf(seed, d, trial)]
PerCut(mode) == IF mode = "formal" THEN FormalPerCut ELSE SmokePerCut
Trials(mode) == Len(Cuts) * PerCut(mode)
CutAt(mode, n) == Cuts[((n - 1) \div PerCut(mode)) + 1]
TrialAt(mode, n) == (n - 1) % PerCut(mode)

----------------------------------------------------------------------------
(* The fixtures.  n \in 0..K-1 of a group of K have passed when a fault at the
   percentage kill_time strikes. *)

Passed(dims, k) == (dims.kill_time * k) \div 100
Struck(cut) == [Event("fault", None) EXCEPT !.cut = cut]
Lid(i) == i

(* _ordered, over positions *)
Ordered(k, order) ==
    CASE order = "reverse" -> [i \in 1..k |-> k + 1 - i]
      [] order = "interleaved" ->
            [i \in 1..k |-> IF i <= (k + 1) \div 2 THEN 2 * i - 1 ELSE 2 * (i - (k + 1) \div 2)]
      [] OTHER -> [i \in 1..k |-> i]

Write(i, reward, committed) ==
    [Event("reward", "cas_write") EXCEPT !.lid = Lid(i), !.reward = reward, !.committed = committed]
Writes(k, reward(_), committed) == [i \in 1..k |-> Write(i, reward(i), committed)]
Rewards(k, reward(_)) == {[lid |-> Lid(i), reward |-> reward(i)] : i \in 1..k}
One(i) == 1
NoAuthority == [steps |-> {}, rewards |-> {}]

(* R1: some samples of a group are scored, then the reward model crashes and its
   record has no reward. *)
FixtureR1(dims) ==
    LET n == IF Passed(dims, dims.group_size) < dims.group_size - 1
             THEN Passed(dims, dims.group_size) ELSE dims.group_size - 1
    IN  <<Writes(n, One, FALSE) \o <<Write(n + 1, NoReward, FALSE), Struck("R1")>>, NoAuthority>>

(* R2, R3 (_fixture_mixed): the group is repaired with version 1 rewards, which the
   second half of it loses, and sealed as mixed. *)
FixtureMixed(cut, dims) ==
    LET k == dims.group_size
        v1(i) == IF i <= k \div 2 THEN 1 ELSE 0
        seal == [Event("group", None) EXCEPT !.groups = {1}, !.status = "ABORTED",
                     !.vers = {"v1", IF cut = "R2" THEN "retry-stale" ELSE "v2"}]
    IN  <<Writes(k, v1, TRUE) \o <<seal, Struck(cut)>>,
          [steps |-> {}, rewards |-> Rewards(k, v1)]>>

(* R4: two attempts write the same sample; the first to arrive is kept. *)
FixtureR4 ==
    <<<<Write(1, 1, TRUE), [Event("reward", "cas_reject") EXCEPT !.lid = Lid(1), !.reward = 1],
        Struck("R4")>>,
      [steps |-> {}, rewards |-> Rewards(1, One)]>>

(* R5: two processes write the same sample; out says which of them finished. *)
FixtureR5(out) ==
    LET worker(w) == [Event("learner", "recovery_worker_exit") EXCEPT !.flag = w \in out.finished]
    IN  <<Writes(IF out.wrote THEN 1 ELSE 0, One, TRUE) \o <<worker(1), worker(2), Struck("R5")>>,
          [steps |-> {}, rewards |-> Rewards(1, One)]>>

Taken(dims) == LET n == Passed(dims, dims.group_size)
               IN  SubSeq(Ordered(dims.group_size, dims.attempt_order), 1, IF n > 1 THEN n ELSE 1)
QueueEvents(op, taken) ==
    [i \in DOMAIN taken |-> [Event("queue", op) EXCEPT !.groups = {taken[i]}]]
Reissue(groups) == [Event("recovery", None) EXCEPT !.groups = groups, !.decision = "reissue"]

(* Q0: the groups consumed and not committed before the fault are issued again. *)
FixtureQ0(dims) ==
    LET taken == Taken(dims)
        committed == Range(SubSeq(taken, 1, Len(taken) \div 2))
        need == Range(taken) \ committed
        group == [Event("group", None) EXCEPT !.groups = committed, !.status = "COMMITTED",
                      !.vers = {dims.revision}]
    IN  <<QueueEvents("mark_consumed", taken) \o (IF committed = {} THEN <<>> ELSE <<group>>)
          \o <<Struck("Q0")>> \o (IF need = {} THEN <<>> ELSE <<Reissue(need)>>), NoAuthority>>

FixtureQ1(dims) ==
    <<QueueEvents("get_data", Taken(dims)) \o <<Struck("Q1"), Reissue(Range(Taken(dims)))>>,
      NoAuthority>>

Decides(decision) == [Event("recovery", None) EXCEPT !.decision = decision]
Ckpt(trial) == [Event("checkpoint", "commit") EXCEPT !.tok = "token", !.step = trial, !.hash = "hash"]
StepAuthority(trial) ==
    [steps |-> {[step |-> trial, tok |-> "token", hash |-> "hash"]}, rewards |-> {}]

(* L0, L3: the updates were in memory only. *)
FixtureMemory(cut) ==
    <<<<Event("learner", IF cut = "L0" THEN "pre_manifest" ELSE "optimizer_done"), Struck(cut),
        Decides(IF cut = "L0" THEN "cold_start" ELSE "rollback")>>, NoAuthority>>

(* L2: some ranks have applied the update; the checkpoint before it is the commit. *)
FixtureL2(dims, trial) ==
    LET n == IF Passed(dims, dims.group_size) < dims.group_size - 1
             THEN Passed(dims, dims.group_size) ELSE dims.group_size - 1
    IN  <<<<Event("learner", "optimizer_start")>> \o [i \in 1..n |-> Event("learner", "rank_apply")]
          \o <<Struck("L2"), Decides("rollback"), Ckpt(trial)>>, StepAuthority(trial)>>

FixtureC1(trial) == <<<<Ckpt(trial), Struck("C1"), Decides("commit_ack")>>, StepAuthority(trial)>>

(* C2: the acknowledgement may be lost; the update is applied once all the same. *)
FixtureC2(dims, trial) ==
    LET ack == [Event("ack", None) EXCEPT !.tok = "token", !.flag = dims.ack_loss]
        seen == [i \in 1..3 |-> Event("learner", "attempt_observed")]
        apply == [Event("learner", "apply") EXCEPT !.tok = "token", !.step = trial]
    IN  <<<<Ckpt(trial), ack, Struck("C2")>> \o seen \o <<Decides("commit_ack"), apply>>,
          StepAuthority(trial)>>

Fixture(cut, dims, trial, out) ==
    CASE cut = "R1" -> FixtureR1(dims)
      [] cut \in {"R2", "R3"} -> FixtureMixed(cut, dims)
      [] cut = "R4" -> FixtureR4
      [] cut = "R5" -> FixtureR5(out)
      [] cut = "Q0" -> FixtureQ0(dims)
      [] cut = "Q1" -> FixtureQ1(dims)
      [] cut \in {"L0", "L3"} -> FixtureMemory(cut)
      [] cut = "L2" -> FixtureL2(dims, trial)
      [] cut = "C1" -> FixtureC1(trial)
      [] cut = "C2" -> FixtureC2(dims, trial)

(* What two processes can do in the time they have: both finish and one of them has
   written, or some are terminated, before or after the write. *)
Outcomes(cut) ==
    LET all == [finished : SUBSET {1, 2}, wrote : BOOLEAN]
    IN  IF cut = "R5" THEN {o \in all : o.finished # {} => o.wrote}
                      ELSE {[finished |-> {1, 2}, wrote |-> TRUE]}

(* The record of a trial, its events and what the oracle says of them. *)
TrialOf(seed, mode, n, out) == [cut |-> CutAt(mode, n), trial |-> TrialAt(mode, n), seed |-> seed,
                                out |-> out]
Run(t) == Fixture(t.cut, Dims(t.seed, t.trial), t.trial, t.out)
TrialPasses(t) == VerifyTrial(t.cut, Run(t)[1], Run(t)[2], Dims(t.seed, t.trial))

----------------------------------------------------------------------------
VARIABLES
    tree,    \* the checkout: its commit and whether it is clean, and how often it changed
    path,    \* the directory at out_dir, 0 when there is none
    dirs,    \* every directory that was at out_dir, in order of creation
    pc,      \* where each runner is
    job      \* its arguments, git identity, open handles and results

traceVars == <<tree, path, dirs, pc, job>>

Absent == [state |-> "absent"]
NewDir(r) ==
    [by |-> r, events |-> <<>>, verdicts |-> <<>>, torn |-> FALSE, config |-> Absent,
     meta |-> Absent, report |-> Absent, verdict |-> "RUNNING",
     exit |-> [completed |-> FALSE, rc |-> 1], manifest |-> Absent]

NoJob == [mode |-> "none", seed |-> 0, commit |-> 0, clean |-> FALSE, dir |-> 0, next |-> 1,
          failed |-> FALSE, rc |-> 1]

Goto(r, step) == pc' = [pc EXCEPT ![r] = step]
AtPath(field, value) == dirs' = [dirs EXCEPT ![path][field] = value]

(* main and _prepare_output: what is at out_dir is renamed. *)
Prepare(r, mode, seed) ==
    /\ pc[r] = "idle"
    /\ dirs' = Append(dirs, NewDir(r))
    /\ path' = Len(dirs) + 1
    /\ job' = [job EXCEPT ![r] = [NoJob EXCEPT !.mode = mode, !.seed = seed]]
    /\ Goto(r, "identify")
    /\ UNCHANGED tree

(* The git identity of the checkout, config.json, schedule.json and meta.json. *)
Identify(r) ==
    LET config == [mode |-> job[r].mode, seed |-> job[r].seed]
    IN  /\ pc[r] = "identify"
        /\ dirs' = [dirs EXCEPT ![path].config = config,
                                ![path].meta = [commit |-> tree.commit, clean |-> tree.clean,
                                                config |-> config]]
        /\ job' = [job EXCEPT ![r].commit = tree.commit, ![r].clean = tree.clean]
        /\ Goto(r, "open")
        /\ UNCHANGED <<tree, path>>

(* A formal run needs a clean worktree; else the two logs are opened. *)
Open(r) ==
    /\ pc[r] = "open"
    /\ IF job[r].mode = "formal" /\ ~job[r].clean
       THEN Goto(r, "report") /\ UNCHANGED job
       ELSE Goto(r, "trials") /\ job' = [job EXCEPT ![r].dir = path]
    /\ UNCHANGED <<tree, path, dirs>>

(* One trial: its events, then its verdict, go to the files that were opened; the
   first that fails ends the campaign. *)
RunTrial(r) ==
    LET j == job[r]
    IN  /\ pc[r] = "trials" /\ j.next <= Trials(j.mode)
        /\ \E out \in Outcomes(CutAt(j.mode, j.next)) :
              LET t  == TrialOf(j.seed, j.mode, j.next, out)
                  ok == TrialPasses(t)
              IN  /\ dirs' = [dirs EXCEPT ![j.dir].events = Append(@, t),
                                          ![j.dir].verdicts = Append(@, [of |-> t, pass |-> ok])]
                  /\ job' = [job EXCEPT ![r].next = j.next + 1, ![r].failed = ~ok]
                  /\ IF ok THEN UNCHANGED pc ELSE Goto(r, "report")
        /\ UNCHANGED <<tree, path>>

(* A fixture, or the append of its events or verdict, raises. *)
TrialRaises(r) ==
    LET j == job[r]
    IN  /\ pc[r] = "trials" /\ j.next <= Trials(j.mode)
        /\ \/ UNCHANGED dirs
           \/ dirs' = [dirs EXCEPT ![j.dir].torn = TRUE]
        /\ Goto(r, "report")
        /\ UNCHANGED <<tree, path, job>>

EndTrials(r) ==
    /\ pc[r] = "trials" /\ job[r].next > Trials(job[r].mode)
    /\ job' = [job EXCEPT ![r].rc = 0]
    /\ Goto(r, "report")
    /\ UNCHANGED <<tree, path, dirs>>

\* Mutant: the number of the next trial is reported, not that of the trials.
ReportNext(r) ==
    LET j == job[r]
    IN  /\ pc[r] = "report"
        /\ AtPath("report", [mode |-> j.mode, seed |-> j.seed, commit |-> j.commit,
                             n |-> j.next, failures |-> IF j.failed THEN 1 ELSE 0,
                             pass |-> j.rc = 0 /\ ~j.failed])
        /\ Goto(r, "verdict")
        /\ UNCHANGED <<tree, path, job>>

(* aggregate over the runner's own counts, the report and the metrics. *)
Report(r) ==
    LET j == job[r]
    IN  /\ pc[r] = "report"
        /\ AtPath("report", [mode |-> j.mode, seed |-> j.seed, commit |-> j.commit,
                             n |-> j.next - 1, failures |-> IF j.failed THEN 1 ELSE 0,
                             pass |-> j.rc = 0 /\ ~j.failed])
        /\ Goto(r, "verdict")
        /\ UNCHANGED <<tree, path, job>>

Verdict(r) ==
    /\ pc[r] = "verdict"
    /\ AtPath("verdict", IF job[r].rc = 0 THEN "PASS" ELSE "FAIL")
    /\ Goto(r, "exit")
    /\ UNCHANGED <<tree, path, job>>

ExitStatus(r) ==
    /\ pc[r] = "exit"
    /\ AtPath("exit", [completed |-> TRUE, rc |-> job[r].rc])
    /\ Goto(r, "manifest")
    /\ UNCHANGED <<tree, path, job>>

(* _artifact_manifest: the size and digest of every file but itself. *)
Content(d) == [d EXCEPT !.manifest = Absent]
Manifest(r) ==
    /\ pc[r] = "manifest"
    /\ AtPath("manifest", Content(dirs[path]))
    /\ Goto(r, "done")
    /\ UNCHANGED <<tree, path, job>>

RunnerDies(r) ==
    /\ pc[r] \notin {"idle", "done", "dead"}
    /\ Goto(r, "dead")
    /\ \/ UNCHANGED dirs
       \/ pc[r] = "trials" /\ dirs' = [dirs EXCEPT ![job[r].dir].torn = TRUE]
    /\ UNCHANGED <<tree, path, job>>

(* Tracked files are edited, or a commit is checked out. *)
Edit ==
    /\ tree.edits < MaxEdits
    /\ \/ tree' = [tree EXCEPT !.edits = @ + 1, !.clean = ~@]
       \/ tree' = [tree EXCEPT !.edits = @ + 1, !.commit = @ + 1, !.clean = TRUE]
    /\ UNCHANGED <<path, dirs, pc, job>>

TraceInit ==
    /\ tree = [commit |-> 1, clean |-> TRUE, edits |-> 0]
    /\ path = 0 /\ dirs = <<>>
    /\ pc = [r \in Runner |-> "idle"]
    /\ job = [r \in Runner |-> NoJob]

TraceNext ==
    \/ Edit
    \/ \E r \in Runner :
          \/ \E mode \in {"formal", "smoke"}, seed \in SeedOf[r] : Prepare(r, mode, seed)
          \/ Identify(r) \/ Open(r) \/ RunTrial(r) \/ TrialRaises(r) \/ EndTrials(r)
          \/ Report(r) \/ Verdict(r) \/ ExitStatus(r) \/ Manifest(r) \/ RunnerDies(r)

TraceSpec == TraceInit /\ [][TraceNext]_traceVars
=============================================================================
