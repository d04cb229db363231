-------------------------- MODULE AblationCampaign --------------------------
(* scripts/ablation_run.py with resource_gate.py, ablation_acceptance.py and  *)
(* ablation_analyze.py: one batch of the ablation. It is frozen once, every   *)
(* arm runs a short smoke, the smokes are accepted, the screen runs every arm *)
(* with every seed, and the report names the arms worth a confirmation.       *)
(* Nothing is retried: a run has one directory, and a launcher that fails     *)
(* stops. Meanwhile the checkout may be edited, the launcher may die, and the *)
(* artifacts of a run may change. What happens inside a run is Supervisor's.  *)
EXTENDS Integers, SequencesExt, FiniteSetsExt

CONSTANTS Arms,          \* ARMS in their order: the oracle, the reference, the others
          Seeds,         \* the seeds of the screen in their order
          Order,         \* schedule: the order of the arms in the block of a seed
          Confirm,       \* confirmation_seeds, in their order
          Readings,      \* what resource_gate.py may find on the host
          Inputs,        \* versions of sources, data, weights and overlay
          Accuracies,    \* n_correct of a validation
          MaxEdits, MaxChanges, None

Oracle == "O"
Reference == "R"
ASSUME CampaignAssumption ==
    /\ Arms \in Seq(STRING) /\ Len(Arms) >= 2
    /\ Arms[1] = Oracle /\ Arms[2] = Reference
    /\ Seeds \in Seq(Nat) /\ Seeds # <<>> /\ Confirm \in Seq(Nat)
    /\ \A s \in ToSet(Seeds) : /\ Order[s] \in Seq(STRING) /\ Len(Order[s]) = Len(Arms)
                             /\ ToSet(Order[s]) = ToSet(Arms)
    /\ Accuracies \subseteq Int
    /\ {MaxEdits, MaxChanges} \subseteq Nat

VARIABLES inputs,       \* the inputs as they are in the checkout
          edits,        \* how often they were edited
          batch,        \* None, or the batch directory: its freeze, None if it has none
          launcher,     \* the runs a launcher still has to make, <<>> if there is none
          runs,         \* the run directories, by name
          acceptance,   \* smoke_acceptance.json
          report,       \* screen_report.json
          plan,         \* confirmation_plan.json: its report and candidate
          changes       \* how often an artifact was changed

campaignVars == <<inputs, edits, batch, launcher, runs, acceptance, report, plan, changes>>

Name(phase, i, arm, seed) == [phase |-> phase, index |-> i, arm |-> arm, seed |-> seed]
Cells == [i \in 1 .. Len(Seeds) * Len(Arms) |->
            LET seed == Seeds[1 + ((i - 1) \div Len(Arms))]
            IN Name("screen", i - 1, Order[seed][1 + ((i - 1) % Len(Arms))], seed)]
SmokeSeed == 11
Smokes == [i \in 1 .. Len(Arms) |-> Name("smoke", i - 1, Arms[i], SmokeSeed)]

Frozen == batch # None /\ batch.freeze # None
Idle == launcher = <<>>

-----------------------------------------------------------------------------
(* resource_gate.py: _gate_check, and the preflight of run_one                *)

MinPublic == 200
MinRoot == 100
MinMemory == 30
MaxUtilization == 10

(* Targets named twice, missing or not found leave no row for some target *)
Gate(r) ==
    /\ r.public # None /\ r.public >= MinPublic
    /\ r.root # None /\ r.root >= MinRoot
    /\ r.gpus # None
    /\ \A i \in DOMAIN r.gpus : r.gpus[i].memory >= MinMemory /\ r.gpus[i].utilization <= MaxUtilization
    /\ r.processes = {}

Uuids(r) == [i \in DOMAIN r.gpus |-> r.gpus[i].uuid]
Required(n) == IF n.phase = "smoke" THEN 620
               ELSE 200 + ((IF n.phase = "confirm" THEN 2 * Len(Confirm) ELSE Len(Cells)) - n.index) * 19 + 20

-----------------------------------------------------------------------------
(* ablation_run.py                                                            *)

CampaignInit ==
    /\ inputs \in Inputs
    /\ edits = 0
    /\ batch = None
    /\ launcher = <<>>
    /\ runs = <<>>
    /\ acceptance = None
    /\ report = None
    /\ plan = None
    /\ changes = 0

(* prepare: the directory is made first, and never prepared again *)
Prepare(r) ==
    /\ batch = None
    /\ batch' = [freeze |-> IF Gate(r) /\ r.free >= 620
                            THEN [inputs |-> inputs, gpus |-> Uuids(r)] ELSE None]
    /\ UNCHANGED <<inputs, edits, launcher, runs, acceptance, report, plan, changes>>

Verified == Frozen /\ inputs = batch.freeze.inputs

(* main (cpu_acceptance.json is there, and the GPUs are taken while a launcher runs):
   one phase at a time. All smokes, or that of one arm; the screen after the smokes
   were accepted; the confirmation of a plan for the report as it is, half of its
   pairs with the reference first.                                             *)
Launch(queue) ==
    /\ Idle
    /\ Verified
    /\ launcher' = queue
    /\ UNCHANGED <<inputs, edits, batch, runs, acceptance, report, plan, changes>>

Smoke == \/ Launch(Smokes)
         \/ \E arm \in ToSet(Arms) : Launch(<<Name("smoke", 0, arm, SmokeSeed)>>)
Screen == acceptance # None /\ Launch(Cells)
Confirmation ==
    /\ plan # None
    /\ plan.report = report
    /\ Launch([i \in 1 .. 2 * Len(Confirm) |->
                 Name("confirm", i - 1, IF (i % 4) \in {1, 0} THEN Reference ELSE plan.candidate,
                      Confirm[1 + ((i - 1) \div 2)])])

Stop == launcher' = <<>>
Due == Head(launcher)
Underway == ~Idle /\ Due \in DOMAIN runs /\ runs[Due].stage = "running"

Tries(n) == IF n \in DOMAIN runs THEN runs[n].tries ELSE 0
Started(n, stage, r) == [stage |-> stage, inputs |-> inputs, reading |-> r, tries |-> Tries(n) + 1,
                         measured |-> None, recorded |-> None]
Put(n, stage, r) ==
    runs' = [m \in DOMAIN runs \cup {n} |-> IF m = n THEN Started(n, stage, r) ELSE runs[m]]

(* fault: a directory whose run has failed is used again *)
OccupiedBySuccess(n) == n \in DOMAIN runs /\ runs[n].stage # "failed"

Occupied(n) == n \in DOMAIN runs

(* run_one: the inputs are verified again, the directory is made, and what the
   gate refuses leaves it there without a receipt.                            *)
Begin(r) ==
    /\ ~Idle
    /\ ~Underway
    /\ \/ /\ ~Verified \/ Occupied(Due)
          /\ Stop
          /\ UNCHANGED runs
       \/ /\ Verified /\ ~Occupied(Due)
          /\ ~Gate(r) \/ r.free < Required(Due) \/ Uuids(r) # batch.freeze.gpus
          /\ Put(Due, "refused", r)
          /\ Stop
       \/ /\ Verified /\ ~Occupied(Due)
          /\ Gate(r) /\ r.free >= Required(Due) /\ Uuids(r) = batch.freeze.gpus
          /\ Put(Due, "running", r)
          /\ UNCHANGED launcher
    /\ UNCHANGED <<inputs, edits, batch, acceptance, report, plan, changes>>

(* Every receipt and artifact of the run is written and approved ... *)
Succeed(correct) ==
    /\ Underway
    /\ runs' = [runs EXCEPT ![Due] = [@ EXCEPT !.stage = "succeeded", !.measured = correct,
                                              !.recorded = correct]]
    /\ launcher' = Tail(launcher)
    /\ UNCHANGED <<inputs, edits, batch, acceptance, report, plan, changes>>

(* ... or it fails, with failure.json, or the launcher dies, with nothing *)
Fail(stage) ==
    /\ Underway
    /\ runs' = [runs EXCEPT ![Due].stage = stage]
    /\ Stop
    /\ UNCHANGED <<inputs, edits, batch, acceptance, report, plan, changes>>

-----------------------------------------------------------------------------
(* ablation_acceptance.py and ablation_analyze.py                             *)

Unchanged(n) == runs[n].recorded = runs[n].measured

(* fault: the artifacts are not compared with their approved hashes *)
Receipted(n) == n \in DOMAIN runs /\ runs[n].stage = "succeeded"

Valid(n) == n \in DOMAIN runs /\ runs[n].stage = "succeeded" /\ Unchanged(n)

SmokesOf(arm) == {n \in DOMAIN runs : n.phase = "smoke" /\ n.arm = arm}

(* validate: exactly one smoke per arm, and a valid one *)
Accepted(arm) == \E n \in SmokesOf(arm) : SmokesOf(arm) = {n} /\ Valid(n)

Accept ==
    /\ acceptance = None
    /\ Verified
    /\ \A arm \in ToSet(Arms) : Accepted(arm)
    /\ acceptance' = runs
    /\ UNCHANGED <<inputs, edits, batch, launcher, runs, report, plan, changes>>

Values == [n \in {m \in ToSet(Cells) : Valid(m)} |-> runs[n].recorded]
Complete(values) == DOMAIN values = ToSet(Cells)

(* The difference of an arm to another one for each seed *)
Difference(values, arm, other) ==
    [s \in ToSet(Seeds) |->
        LET Of(a) == values[CHOOSE n \in DOMAIN values : n.arm = a /\ n.seed = s] IN Of(arm) - Of(other)]
Total(difference) == MapThenSumSet(LAMBDA s : difference[s], ToSet(Seeds))

Positive(values, arm) ==
    LET d == Difference(values, arm, Reference)
    IN (\A s \in ToSet(Seeds) : d[s] > 0) /\ Total(d) >= 2 * Len(Seeds)

(* decide: arms that beat the reference while the reference falls behind the
   oracle, once the whole screen is valid                                     *)
Decide(values) ==
    IF Complete(values) /\ Total(Difference(values, Reference, Oracle)) < 0
    THEN {arm \in ToSet(Arms) \ {Oracle, Reference} : Positive(values, arm)}
    ELSE {}

Analyze ==
    /\ Frozen
    /\ report' = [complete |-> Complete(Values), values |-> Values, positive |-> Decide(Values)]
    /\ UNCHANGED <<inputs, edits, batch, launcher, runs, acceptance, plan, changes>>

-----------------------------------------------------------------------------
(* The people around it                                                       *)

Edit(v) ==
    /\ v # inputs
    /\ edits < MaxEdits
    /\ inputs' = v
    /\ edits' = edits + 1
    /\ UNCHANGED <<batch, launcher, runs, acceptance, report, plan, changes>>

Change(n, correct) ==
    /\ runs[n].stage = "succeeded"
    /\ correct # runs[n].recorded
    /\ changes < MaxChanges
    /\ runs' = [runs EXCEPT ![n].recorded = correct]
    /\ changes' = changes + 1
    /\ UNCHANGED <<inputs, edits, batch, launcher, acceptance, report, plan>>

(* A plan names a candidate and the report it comes from; main does not ask
   whether the report names the candidate.                                     *)
Plan(arm) ==
    /\ report # None
    /\ plan = None
    /\ plan' = [report |-> report, candidate |-> arm]
    /\ UNCHANGED <<inputs, edits, batch, launcher, runs, acceptance, report, changes>>

CampaignNext ==
    \/ \E r \in Readings : Prepare(r) \/ Begin(r)
    \/ Smoke \/ Screen \/ Confirmation
    \/ \E correct \in Accuracies : Succeed(correct)
    \/ \E stage \in {"failed", "abandoned"} : Fail(stage)
    \/ Accept \/ Analyze
    \/ \E v \in Inputs : Edit(v)
    \/ \E n \in DOMAIN runs, correct \in Accuracies : Change(n, correct)
    \/ \E arm \in ToSet(Arms) \ {Oracle, Reference} : Plan(arm)

CampaignSpec == CampaignInit /\ [][CampaignNext]_campaignVars

-----------------------------------------------------------------------------
(* Properties                                                                 *)

(* A run that was made once, on the frozen inputs and the frozen GPUs of a host
   that passed the gate, and that succeeded                                   *)
Earned(all, n) ==
    /\ n \in DOMAIN all
    /\ all[n].tries = 1
    /\ all[n].stage = "succeeded"
    /\ all[n].inputs = batch.freeze.inputs
    /\ Gate(all[n].reading)
    /\ Uuids(all[n].reading) = batch.freeze.gpus

Measured(arm, seed) == runs[CHOOSE n \in ToSet(Cells) : n.arm = arm /\ n.seed = seed].measured
Ahead(arm, other) == [s \in ToSet(Seeds) |-> Measured(arm, s) - Measured(other, s)]

(* A complete screen_report.json of analyze rests on one fair run of every arm
   with every seed, after one fair smoke of every arm; it says what they measured,
   and its candidates beat the reference for every seed and by two points on
   average while the reference is behind the oracle. Failures, edits, retries by
   hand, restarts of the launcher and changed artifacts do not get in.         *)
ReportIsEarned ==
    report # None /\ report.complete =>
        /\ \A n \in ToSet(Cells) : Earned(runs, n) /\ report.values[n] = runs[n].measured
        /\ acceptance # None
        /\ \A arm \in ToSet(Arms) :
              \E n \in DOMAIN acceptance : /\ n.phase = "smoke" /\ n.arm = arm /\ Earned(acceptance, n)
                                         /\ acceptance[n].recorded = acceptance[n].measured
        /\ \A arm \in report.positive :
              /\ \A s \in ToSet(Seeds) : Measured(arm, s) > Measured(Reference, s)
              /\ Total(Ahead(arm, Reference)) >= 2 * Len(Seeds)
              /\ Total(Ahead(Reference, Oracle)) < 0

(* Two complete reports of a batch agree: analyze can be run again at any time,
   and what happened to the runs since can make the report incomplete, never
   another one.                                                                *)
ReportsAgree ==
    [][report # None /\ report.complete /\ report'.complete => report' = report]_report
=============================================================================
