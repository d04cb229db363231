----------------------------- MODULE TraceGates -----------------------------
(***************************************************************************)
(* What may be said of the directory a campaign left: scripts/paper_gates  *)
(* recomputes the gate of the paper from the raw files, and                *)
(* scripts/validate_run_artifacts checks the structure and provenance of   *)
(* any run, a failed one included.  Both read the directory at the path    *)
(* and the checkout as they are when they run, which is any state of       *)
(* TraceCampaign.  A file that changed after it was digested is a file     *)
(* that differs from its manifest entry.                                   *)
(***************************************************************************)
EXTENDS TraceCampaign

Written(d) == d.config # Absent /\ d.meta # Absent

(* _validate_manifest, of either script *)
ManifestMatches(d) == d.manifest # Absent /\ d.manifest = Content(d)

(* _validate_schedule: the levels of every relevant dimension are spread evenly. *)
Balanced(seed, perCut) ==
    \A d \in DOMAIN Levels :
        LET n(v) == Cardinality({t \in 0..perCut-1 : LevelOf(seed, d, t) = v})
        IN  \A v, w \in Range(Levels[d]) : n(v) > 0 /\ n(v) <= n(w) + 1

Key(t) == <<t.cut, t.trial>>
Scheduled(mode) == [n \in 1..Trials(mode) |-> <<CutAt(mode, n), TrialAt(mode, n)>>]
EventsOf(d, key) == {i \in DOMAIN d.events : Key(d.events[i]) = key}
Failures(d) == Cardinality({i \in DOMAIN d.verdicts : ~TrialPasses(d.verdicts[i].of)})

(* _validate_raw_trials: the verdicts are those of the schedule, in its order, each
   over the events of its trial and equal to what the oracle says of them now. *)
RawTrialsHold(d) ==
    /\ ~d.torn
    /\ [i \in DOMAIN d.verdicts |-> Key(d.verdicts[i].of)] = Scheduled(d.config.mode)
    /\ {Key(d.events[i]) : i \in DOMAIN d.events} = Range(Scheduled(d.config.mode))
    /\ \A i \in DOMAIN d.verdicts :
          LET t == d.verdicts[i].of
          IN  /\ Dims(t.seed, t.trial) = Dims(d.config.seed, t.trial)
              /\ {d.events[j] : j \in EventsOf(d, Key(t))} = {t}
              /\ Cardinality(EventsOf(d, Key(t))) = 1
              /\ d.verdicts[i].pass = TrialPasses(t)

\* Mutant: the sources are those of the commit, edited or not.
SourcesOfCommit(t) == [commit |-> t.commit, clean |-> TRUE]

Sources(t) == [commit |-> t.commit, clean |-> t.clean]

(* evaluate_trace.  The edits of the checkout that are modelled are edits of the
   sources meta.json has the digests of. *)
GatePasses(d) ==
    /\ ManifestMatches(d)
    /\ Written(d) /\ d.report # Absent
    /\ d.meta.config = d.config
    /\ d.report.seed = d.config.seed /\ d.report.mode = d.config.mode
    /\ d.meta.commit = tree.commit /\ d.report.commit = tree.commit
    /\ d.meta.clean
    /\ Sources(tree) = [commit |-> d.meta.commit, clean |-> d.meta.clean]
    /\ d.config.mode = "formal"
    /\ d.exit.completed /\ d.exit.rc = 0 /\ d.verdict = "PASS"
    /\ Balanced(d.config.seed, PerCut(d.config.mode))
    /\ RawTrialsHold(d)
    /\ d.report.n = Len(d.verdicts) /\ d.report.failures = Failures(d)
    /\ d.report.pass = (Failures(d) = 0)
    /\ Failures(d) = 0

(* validate_run, in the strict mode; a run that judged no trial has no events. *)
ArtifactValid(d) ==
    /\ Written(d)
    /\ d.report # Absent  \* metrics.json is written with it
    /\ d.meta.config = d.config
    /\ d.exit.completed
    /\ d.events # <<>>
    /\ ManifestMatches(d)

----------------------------------------------------------------------------
(* Files, counters and places have the shapes the scripts give them. *)
TraceTypeOK ==
    /\ tree \in [commit : 1..MaxEdits + 1, clean : BOOLEAN, edits : 0..MaxEdits]
    /\ path \in 0..Len(dirs)
    /\ \A i \in DOMAIN dirs :
          /\ dirs[i].by \in Runner
          /\ dirs[i].verdict \in {"RUNNING", "PASS", "FAIL"}
          /\ dirs[i].exit \in [completed : BOOLEAN, rc : 0..1]
          /\ Len(dirs[i].verdicts) = Len(dirs[i].events)
    /\ \A r \in Runner :
          /\ pc[r] \in {"idle", "identify", "open", "trials", "report", "verdict", "exit",
                        "manifest", "done", "dead"}
          /\ job[r].dir \in 0..Len(dirs)
          /\ job[r].mode # "none" => job[r].next \in 1..Trials(job[r].mode) + 1

\* A single defect of the events of a trial: one lost, one twice, or one changed in a
\* field the oracle reads.
Changed(e) ==
    {[e EXCEPT !.tok = v] : v \in {None, "other"}} \union {[e EXCEPT !.hash = v] : v \in {None, "other"}}
    \union {[e EXCEPT !.step = v] : v \in {NoStep, 7}}
    \union {[e EXCEPT !.vers = v] : v \in {{}, {None}, {"v1", "v2"}}}
    \union {[e EXCEPT !.lid = v] : v \in {NoLid, -1}} \union {[e EXCEPT !.reward = 1 - @]}
    \union {[e EXCEPT !.committed = ~@]} \union {[e EXCEPT !.status = "SEALED"]}
Defects(events) ==
    {events} \union {RemoveAt(events, i) : i \in DOMAIN events}
    \union {Append(events, events[i]) : i \in DOMAIN events}
    \union UNION {{ReplaceAt(events, i, f) : f \in Changed(events[i])} : i \in DOMAIN events}

(* classify_event_log finds something in the events of the trial just judged, or in
   these events with any single defect, exactly when what they commit is not what the
   authority says was to be committed, once. *)
OracleIsExact ==
    \A r \in Runner : pc[r] = "trials" /\ Len(dirs) = 1 /\ dirs[1].events # <<>> =>
        LET run == Run(Last(dirs[1].events))
        IN  \A events \in Defects(run[1]) :
                (Violations(events, run[2]) = {}) <=> Atomic(events, run[2])

PassedAll(r) == /\ job[r].mode = "formal" /\ job[r].clean
                /\ job[r].next > Trials("formal") /\ ~job[r].failed

(* The gate passes only a directory in which one runner alone ran every trial of the
   formal schedule, passed, and had started from a clean checkout, with the report of a
   runner that did the same on what is still the current checkout; the two ran the same
   commit, unless the directory was made by a third runner.  This is so however many
   runners were started on the path, died or mixed their files there.                *)
GateIsEarned ==
    path # 0 /\ GatePasses(dirs[path]) =>
        /\ tree.clean
        /\ \E r, q \in Runner :
              /\ PassedAll(r) /\ job[r].dir = path
              /\ \A s \in Runner : job[s].dir = path /\ job[s].next > 1 => s = r
              /\ PassedAll(q) /\ job[q].commit = tree.commit
              /\ dirs[path].by \in {r, q} => job[r].commit = tree.commit

(* A campaign that ran to its end alone, on a checkout that did not change, passes
   the gate: nothing a formal run does by itself is refused. *)
CompleteRunPasses ==
    \A r \in Runner :
        (/\ pc[r] = "done" /\ job[r].mode = "formal" /\ job[r].rc = 0
         /\ Len(dirs) = 1 /\ tree.edits = 0) => GatePasses(dirs[path]) /\ ArtifactValid(dirs[path])

=============================================================================
