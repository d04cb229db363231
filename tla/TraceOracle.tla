---------------------------- MODULE TraceOracle ----------------------------
(***************************************************************************)
(* The oracle of scripts/trace_oracle.py: what it calls a violation in the *)
(* events of one trial, given an authority that is not the system under    *)
(* test, and the extra checks of each cut point.  An event is a record     *)
(* with the fields the oracle reads; a field the event does not have is    *)
(* None (or NoStep, NoLid, NoReward).  A violation is its kind and its     *)
(* subject.                                                                *)
(***************************************************************************)
EXTENDS Integers, FiniteSets, Sequences

None == "none"
NoStep == -1
NoLid == 0
NoReward == -1

Event(type, op) ==
    [type |-> type, op |-> op, groups |-> {}, tok |-> None, step |-> NoStep, hash |-> None,
     vers |-> {}, status |-> None, lid |-> NoLid, reward |-> NoReward, committed |-> FALSE,
     decision |-> None, cut |-> None, flag |-> FALSE]

At(events, type) == {i \in DOMAIN events : events[i].type = type}
OpAt(events, type, op) == {i \in At(events, type) : events[i].op = op}
Decisions(events) == {events[i].decision : i \in At(events, "recovery")}
GroupsOf(events, is) == UNION {events[i].groups : i \in is}

Commits(events) == OpAt(events, "checkpoint", "commit")
Applies(events) == {i \in OpAt(events, "learner", "apply") : events[i].tok # None}
RewardCommits(events) == {i \in At(events, "reward") : events[i].committed}

Found(kind, is) == {<<kind, i>> : i \in is}

\* Mutant: a group without any revision is let through.
MixedViolations(events) ==
    Found("a_mixed_revision", {i \in At(events, "group") : Cardinality(events[i].vers) > 1
                                   /\ events[i].status \in {"COMMITTED", "SEALED"}})

(* a: a sealed or committed group names one known revision. *)
RevisionViolations(events) ==
    LET closed == {i \in At(events, "group") : events[i].status \in {"COMMITTED", "SEALED"}}
    IN  Found("a_missing_revision", {i \in closed : events[i].vers = {}})
        \union Found("a_unknown_revision", {i \in closed : None \in events[i].vers})
        \union Found("a_mixed_revision", {i \in closed : None \notin events[i].vers
                                                         /\ Cardinality(events[i].vers) > 1})

(* b, c: checkpoints carry each token and each step once, and the ones, with the
   hash, that the authority knows. *)
CheckpointViolations(events, steps) ==
    LET C == Commits(events)
        tokens == {s.tok : s \in steps} \ {None}
        want(i) == {s \in steps : s.step = events[i].step}
        again(field(_)) == {i \in C : \E j \in C : j < i /\ field(j) = field(i)}
    IN  Found("b_missing_step_token", {i \in C : events[i].tok = None})
        \union Found("b_duplicate_step_token",
                     {i \in again(LAMBDA j : events[j].tok) : events[i].tok # None})
        \union Found("b_missing_step", {i \in C : events[i].step < 0})
        \union Found("b_duplicate_step",
                     {i \in again(LAMBDA j : events[j].step) : events[i].step >= 0})
        \union Found("c_missing_checkpoint_hash", {i \in C : events[i].hash = None})
        \union Found("b_unknown_step", {i \in C : steps # {} /\ want(i) = {}})
        \union Found("b_step_token_mismatch",
                     {i \in C : \E s \in want(i) : s.tok \notin {None, events[i].tok}})
        \union Found("c_token_hash_mismatch",
                     {i \in C : \E s \in want(i) : s.hash \notin {None, events[i].hash}})
        \union Found("b_unknown_step_token",
                     {i \in C : tokens # {} /\ events[i].tok \notin tokens})

(* b: a committed token is applied once, at its step, and nothing else is. *)
ApplyViolations(events, steps) ==
    LET A == Applies(events)
        tokens == {s.tok : s \in steps} \ {None}
        claimed == {events[i].tok : i \in Commits(events)} \ {None}
    IN  Found("b_apply_missing_step_token", OpAt(events, "learner", "apply") \ A)
        \union Found("b_apply_unknown_step_token",
                     {i \in A : tokens # {} /\ events[i].tok \notin tokens})
        \union Found("b_apply_step_mismatch",
                     {i \in A : \E s \in steps : s.tok = events[i].tok /\ s.step # events[i].step})
        \union Found("b_duplicate_apply",
                     {i \in A : \E j \in A : j # i /\ events[j].tok = events[i].tok})
        \union Found("b_apply_without_commit", {i \in A : events[i].tok \notin claimed})
        \union Found("b_missing_step",
                     {s.step : s \in steps} \ {events[i].step : i \in Commits(events)})
        \union Found("b_missing_step_token",
                     {s.step : s \in {t \in steps : t.tok \notin claimed \union {None}}})

(* d: every reward the authority knows is committed once, with its value. *)
RewardViolations(events, rewards) ==
    LET R == RewardCommits(events)
        known == {r.lid : r \in rewards}
        times(lid) == Cardinality({i \in R : events[i].lid = lid})
    IN  IF rewards = {} THEN {} ELSE
        Found("d_missing_reward_identity", {i \in R : events[i].lid = NoLid})
        \union Found("d_unknown_reward_committed", {i \in R : events[i].lid \notin known \union {NoLid}})
        \union Found("d_wrong_reward_committed",
                     {i \in R : \E r \in rewards : r.lid = events[i].lid /\ r.reward # events[i].reward})
        \union Found("d_missing_authoritative_reward", {l \in known : times(l) = 0})
        \union Found("d_duplicate_reward_commit", {l \in known : times(l) > 1})

(* The authority itself names a step, a token and a reward once. *)
AuthorityViolations(auth) ==
    LET twice(S, f(_)) == {x \in S : \E y \in S \ {x} : f(x) = f(y)}
    IN  Found("authority_duplicate_step", twice(auth.steps, LAMBDA s : s.step))
        \union Found("authority_duplicate_step_token",
                     {s \in twice(auth.steps, LAMBDA s : s.tok) : s.tok # None})
        \union Found("authority_duplicate_reward", twice(auth.rewards, LAMBDA r : r.lid))

(* classify_event_log *)
Violations(events, auth) ==
    AuthorityViolations(auth) \union RevisionViolations(events)
    \union CheckpointViolations(events, auth.steps) \union ApplyViolations(events, auth.steps)
    \union RewardViolations(events, auth.rewards)

(* The assertion of a cut point; dims are the dimensions of the schedule. *)
CutChecks(cut, events, dims) ==
    LET n(is) == Cardinality(is)
        groups == At(events, "group")
        writes == OpAt(events, "reward", "cas_write")
        won == {i \in writes : events[i].committed}
        planned == GroupsOf(events, At(events, "recovery"))
        onceEach == \A i, j \in At(events, "recovery") :
                        events[i].groups \intersect events[j].groups # {} => i = j
        reissued(need) == planned = need /\ onceEach
        workers == OpAt(events, "learner", "recovery_worker_exit")
        decided(d) == n(At(events, "recovery")) = 1 /\ Decisions(events) = {d}
    IN  CASE cut = "R1" -> (\E i \in writes : events[i].reward = NoReward) /\ groups = {}
          [] cut \in {"R2", "R3"} ->
                /\ n({i \in groups : events[i].status = "ABORTED"}) = 1
                /\ \A i \in groups : events[i].status # "SEALED"
                /\ n(won) = dims.group_size
          [] cut = "R4" -> n(won) = 1 /\ n(OpAt(events, "reward", "cas_reject")) = 1
          [] cut = "R5" -> n(won) = 1 /\ n(workers) = 2 /\ \A i \in workers : events[i].flag
          [] cut = "Q0" -> reissued(GroupsOf(events, OpAt(events, "queue", "mark_consumed"))
                                    \ GroupsOf(events, groups))
          [] cut = "Q1" -> reissued(GroupsOf(events, OpAt(events, "queue", "get_data")))
          [] cut \in {"L0", "L3"} -> /\ At(events, "checkpoint") = {}
                                     /\ decided(IF cut = "L0" THEN "cold_start" ELSE "rollback")
          [] cut = "L2" -> /\ n(OpAt(events, "learner", "rank_apply")) < dims.group_size
                           /\ decided("rollback") /\ n(At(events, "checkpoint")) = 1
          [] cut = "C1" -> decided("commit_ack") /\ n(At(events, "checkpoint")) = 1
          [] cut = "C2" -> /\ decided("commit_ack")
                           /\ n(OpAt(events, "learner", "apply")) = 1
                           /\ n(At(events, "ack")) = 1
                           /\ \A i \in At(events, "ack") : events[i].flag = dims.ack_loss
          [] OTHER -> FALSE

(* verify_trial *)
VerifyTrial(cut, events, auth, dims) ==
    /\ Violations(events, auth) = {}
    /\ Cardinality({i \in At(events, "fault") : events[i].cut = cut}) = 1
    /\ CutChecks(cut, events, dims)

----------------------------------------------------------------------------
(* What a trial must not do, said without the oracle's scan: what was committed is
   exactly what the authority knows. *)
OnceEach(is, key(_), wanted) ==
    /\ {key(i) : i \in is} = wanted
    /\ \A i, j \in is : key(i) = key(j) => i = j

Atomic(events, auth) ==
    /\ \A i \in At(events, "group") : events[i].status \in {"COMMITTED", "SEALED"} =>
          \E v \in events[i].vers : v # None /\ events[i].vers = {v}
    /\ OnceEach(Commits(events),
                LAMBDA i : [step |-> events[i].step, tok |-> events[i].tok,
                            hash |-> events[i].hash], auth.steps)
    /\ \A i \in OpAt(events, "learner", "apply") :
          /\ \E s \in auth.steps : s.tok = events[i].tok /\ s.step = events[i].step
          /\ \A j \in OpAt(events, "learner", "apply") : events[j].tok = events[i].tok => j = i
    /\ auth.rewards # {} =>
          OnceEach(RewardCommits(events),
                   LAMBDA i : [lid |-> events[i].lid, reward |-> events[i].reward], auth.rewards)
=============================================================================
