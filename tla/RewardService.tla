--------------------------- MODULE RewardService ---------------------------
(***************************************************************************)
(* The reward adapter of the ablation, scripts/ablation_rm.py: it runs the *)
(* sealing reward model (or the plain oracle) in one thread, with its logs *)
(* or its CAS database in memory or on disk as the variant says, guards    *)
(* every write it makes, and exports everything when the run is over.      *)
(*                                                                         *)
(* The code it wraps swallows the failure of some writes.  The adapter     *)
(* turns every failure into a fatal state in which nothing is returned and *)
(* nothing exported.  A call runs without suspension; its steps are those  *)
(* that can fail.  Other threads of the process observe events and see the *)
(* control connection fail in between.  A log line is its sample.          *)
(***************************************************************************)
EXTENDS Naturals, FiniteSets, SequencesExt

CONSTANTS Group, Sample,
          GroupOf,
          Variants,   \* of VARIANTS, those the run is started with
          Limits,     \* log_bytes in lines, seen_ids and events
          MaxCalls,   \* bound on the calls
          MaxFaults   \* bound on the operations that raise

Members(g) == {s \in Sample : GroupOf[s] = g}

(* score is called with the samples of one group *)
ServiceConstants ==
    /\ GroupOf \in [Sample -> Group] /\ IsFiniteSet(Sample)
    /\ \A g \in Group : Members(g) # {}
    /\ Variants \subseteq {"O", "R", "DBM", "LOGM", "BOTHM", "PAYLOAD", "LITE"}
    /\ DOMAIN Limits = {"log_bytes", "seen_ids", "events"}
    /\ \A k \in DOMAIN Limits : Limits[k] \in Nat \ {0}

ASSUME ServiceAssumption == ServiceConstants

VARIABLES
    variant,
    control,    \* the control connection is in order
    failed, closed, cancelling,
    conn, generation, \* the connection to the CAS database; how many were opened
    claims, seen,     \* cas_claims; _seen_logical
    streams,    \* rewards.jsonl, seals.jsonl and cas_rejects.jsonl
    events,     \* observations recorded
    call,       \* the call that runs: where it is, its group, its new samples
    returned,   \* groups whose rewards were returned
    export,     \* finalize_export: where it is, what it wrote
    calls, faults

adapterVars == <<variant, control, failed, closed, cancelling, conn, generation, claims, seen, streams,
          events, call, returned, export, calls, faults>>

Plain == variant \in {"O", "LITE"}
MemLog == variant \in {"LOGM", "BOTHM"}
MemDb == variant \in {"DBM", "BOTHM"}

NoCall == [at |-> "idle", group |-> {}, new |-> {}]
NoExport == [at |-> "none", rewards |-> <<>>, seals |-> <<>>, claims |-> {}, fatal |-> FALSE,
             manifest |-> FALSE, prepared |-> FALSE]
data == <<conn, generation, claims, seen, streams>>
frame == <<variant, control, cancelling, returned, export, calls>>

Goto(step) == call' = [call EXCEPT !.at = step]
Faulty == faults < MaxFaults /\ faults' = faults + 1

(* event: a full list, or one that is sealed, is fatal. *)
Full == events >= Limits.events \/ closed

(* A failure that was swallowed is not asked for. *)
PassesFailed == ~closed /\ control

(* check *)
Passes == ~closed /\ ~failed /\ control

(* The call raises; whatever was raised is fatal at the latest in score. *)
Raise == call' = NoCall /\ failed' = TRUE

(* The connection is dropped; what was in memory is gone. *)
Reset == /\ conn' = FALSE
         /\ claims' = IF MemDb THEN {} ELSE claims

----------------------------------------------------------------------------
(* score, up to the verdicts. *)
Score(g) ==
    /\ call.at = "idle" /\ export.at \in {"none", "done"} /\ calls < MaxCalls
    /\ calls' = calls + 1
    /\ \/ /\ ~Passes
          /\ failed' = (failed \/ closed)
          /\ UNCHANGED <<call, events>>
       \/ /\ Passes /\ cancelling
          /\ failed' = Full /\ events' = (IF Full THEN events ELSE events + 1)
          /\ UNCHANGED call
       \/ /\ Passes /\ ~cancelling
          /\ failed' = Full /\ events' = (IF Full THEN events ELSE events + 1)
          /\ call' = IF Full THEN NoCall
                     ELSE [at |-> IF Plain THEN "log" ELSE "verdicts", group |-> Members(g), new |-> {}]
    /\ UNCHANGED <<variant, control, closed, cancelling, data, returned, export, faults>>

(* _rm_batch_group and _cas_write_many: what was seen is a duplicate. *)
Verdicts ==
    LET fresh == call.group \ seen
    IN  /\ call.at = "verdicts"
        /\ \/ /\ call' = [call EXCEPT !.new = fresh,
                             !.at = IF fresh = {} THEN "rejects" ELSE IF conn THEN "insert" ELSE "connect"]
              /\ UNCHANGED <<failed, faults>>
           \/ Faulty /\ Raise
        /\ UNCHANGED <<frame, closed, data, events>>

(* connect: a variant in memory cannot open its database again. *)
Connect ==
    /\ call.at = "connect"
    /\ \/ /\ Passes /\ ~(generation > 0 /\ (MemDb \/ MemLog)) /\ ~Full
          /\ conn' = TRUE /\ generation' = generation + 1 /\ events' = events + 1
          /\ Goto("insert") /\ UNCHANGED <<failed, faults>>
       \/ /\ ~Passes \/ (generation > 0 /\ (MemDb \/ MemLog)) \/ Full
          /\ Raise /\ UNCHANGED <<conn, generation, events, faults>>
       \/ Faulty /\ Raise /\ UNCHANGED <<conn, generation, events>>
    /\ UNCHANGED <<frame, closed, claims, seen, streams>>

Append1(stream, samples) == streams' = [streams EXCEPT ![stream] = @ \o SetToSeq(samples)]
Lines == Len(streams.rewards) + Len(streams.seals) + Len(streams.rejects)

(* append_memory refuses what the buffers have no room for. *)
NoRoom(samples) == MemLog /\ Lines + Cardinality(samples) > Limits.log_bytes

Insert ==
    /\ call.at = "insert"
    /\ \/ /\ call' = [call EXCEPT !.new = @ \ claims, !.at = "append"]
          /\ UNCHANGED <<failed, faults, conn, claims>>
       \/ Faulty /\ Raise /\ Reset
    /\ UNCHANGED <<frame, closed, generation, seen, streams, events>>

(* The append to rewards.jsonl; a file can be left with some of the lines. *)
AppendRewards ==
    /\ call.at = "append"
    /\ \/ /\ ~NoRoom(call.new)
          /\ Append1("rewards", call.new) /\ Goto("commit")
          /\ UNCHANGED <<failed, faults, conn, claims>>
       \/ /\ NoRoom(call.new) /\ Raise /\ Reset /\ UNCHANGED <<streams, faults>>
       \/ /\ Faulty /\ Raise /\ Reset
          /\ \E some \in SUBSET call.new : (MemLog => some = {}) /\ Append1("rewards", some)
    /\ UNCHANGED <<frame, closed, generation, seen, events>>

Commit ==
    /\ call.at = "commit"
    /\ \/ /\ claims' = claims \union call.new /\ seen' = seen \union call.group
          /\ Goto("rejects") /\ UNCHANGED <<conn, failed, faults>>
       \/ Faulty /\ Raise /\ Reset /\ UNCHANGED seen
    /\ UNCHANGED <<frame, closed, generation, streams, events>>

(* It stays unnoticed. *)
Unnoticed == UNCHANGED failed

(* A failure that the reward model swallows is fatal all the same. *)
Swallows == failed' = TRUE

AppendRejects ==
    LET again == call.group \ call.new
    IN  /\ call.at = "rejects"
        /\ Goto("seal")
        /\ \/ ~NoRoom(again) /\ Append1("rejects", again) /\ UNCHANGED <<failed, faults>>
           \/ NoRoom(again) /\ Swallows /\ UNCHANGED <<streams, faults>>
           \/ again # {} /\ Faulty /\ Swallows /\ UNCHANGED streams
        /\ UNCHANGED <<frame, closed, conn, generation, claims, seen, events>>

CallGroup == GroupOf[CHOOSE s \in call.group : TRUE]

AppendSeal ==
    /\ call.at = "seal"
    /\ Goto("return")
    /\ \/ ~NoRoom({CallGroup}) /\ Append1("seals", {CallGroup}) /\ UNCHANGED <<failed, faults>>
       \/ NoRoom({CallGroup}) /\ Swallows /\ UNCHANGED <<streams, faults>>
       \/ Faulty /\ Swallows /\ UNCHANGED streams
    /\ UNCHANGED <<frame, closed, conn, generation, claims, seen, events>>

(* The oracle's _log, which swallows whatever the file raises; lite's. *)
OracleLog ==
    /\ call.at = "log"
    /\ Goto("return")
    /\ \/ Append1("rewards", call.group) /\ UNCHANGED <<failed, faults>>
       \/ Faulty /\ Swallows /\ \E some \in SUBSET call.group : Append1("rewards", some)
    /\ UNCHANGED <<frame, closed, conn, generation, claims, seen, events>>

(* capacity; the size of the database and of the process may be over, too. *)
Over == \/ (MemLog /\ Lines > Limits.log_bytes)
        \/ Cardinality(seen) > Limits.seen_ids

Return ==
    /\ call.at = "return"
    /\ \/ /\ Passes /\ ~Over /\ ~Full
          /\ events' = events + 1 /\ call' = NoCall
          /\ returned' = returned \union {CallGroup}
          /\ UNCHANGED <<failed, faults>>
       \/ /\ ~Passes \/ Over \/ Full
          /\ Raise /\ UNCHANGED <<events, returned, faults>>
       \/ Faulty /\ Raise /\ UNCHANGED <<events, returned>>
    /\ UNCHANGED <<variant, control, closed, cancelling, data, export, calls>>

BeginCancellation ==
    /\ call.at = "idle" /\ Passes /\ ~cancelling /\ ~Full
    /\ cancelling' = TRUE /\ events' = events + 1
    /\ UNCHANGED <<variant, control, failed, closed, data, call, returned, export, calls, faults>>

----------------------------------------------------------------------------
(* Other threads: an observation, and the loss of the control connection. *)
Observe ==
    /\ events <= Limits.events
    /\ failed' = (failed \/ Full) /\ events' = (IF Full THEN events ELSE events + 1)
    /\ Full => ~failed
    /\ UNCHANGED <<variant, control, closed, cancelling, data, call, returned, export, calls, faults>>

LoseControl ==
    /\ control
    /\ control' = FALSE
    /\ UNCHANGED <<variant, failed, closed, cancelling, data, call, returned, export, events, calls, faults>>

----------------------------------------------------------------------------
(* finalize_export. *)
ToExport(step) == export' = [export EXCEPT !.at = step]
ExportFails == failed' = TRUE /\ ToExport("done")
framed == <<variant, control, cancelling, data, call, returned, calls>>

SealAdapter ==
    /\ call.at = "idle" /\ export.at = "none" /\ Passes
    /\ \/ /\ ~Over /\ ~Full
          /\ closed' = TRUE /\ events' = events + 1 /\ ToExport("files")
          /\ UNCHANGED failed
       \/ /\ Over \/ Full
          /\ failed' = TRUE /\ UNCHANGED <<closed, events, export>>
    /\ UNCHANGED <<framed, faults>>

(* The streams and the backup of the database are written; any of it can raise. *)
ExportFiles ==
    /\ export.at = "files"
    /\ \/ /\ export' = [export EXCEPT !.at = "manifest", !.rewards = streams.rewards,
                          !.seals = streams.seals, !.claims = claims, !.fatal = failed]
          /\ UNCHANGED <<failed, faults>>
       \/ Faulty /\ ExportFails
    /\ UNCHANGED <<framed, closed, events>>

PublishManifest ==
    /\ export.at = "manifest"
    /\ \/ export' = [export EXCEPT !.at = "report", !.manifest = TRUE] /\ UNCHANGED <<failed, faults>>
       \/ Faulty /\ ExportFails
    /\ UNCHANGED <<framed, closed, events>>

(* rm_export_prepared, and a last look at the control connection. *)
ReportPrepared ==
    /\ export.at = "report"
    /\ \/ control /\ export' = [export EXCEPT !.at = "done", !.prepared = TRUE] /\ UNCHANGED failed
       \/ ~control /\ ExportFails
    /\ UNCHANGED <<framed, closed, events, faults>>

----------------------------------------------------------------------------
AdapterInit ==
    /\ variant \in Variants
    /\ control = TRUE /\ failed = FALSE /\ closed = FALSE /\ cancelling = FALSE
    /\ conn = FALSE /\ generation = 0 /\ claims = {} /\ seen = {}
    /\ streams = [rewards |-> <<>>, seals |-> <<>>, rejects |-> <<>>]
    /\ events = 1 /\ call = NoCall /\ returned = {} /\ export = NoExport
    /\ calls = 0 /\ faults = 0

AdapterNext ==
    \/ \E g \in Group : Score(g)
    \/ Verdicts \/ Connect \/ Insert \/ AppendRewards \/ Commit \/ AppendRejects \/ AppendSeal
    \/ OracleLog \/ Return \/ BeginCancellation \/ Observe \/ LoseControl
    \/ SealAdapter \/ ExportFiles \/ PublishManifest \/ ReportPrepared

AdapterSpec == AdapterInit /\ [][AdapterNext]_adapterVars

----------------------------------------------------------------------------
Count(seq, x) == Cardinality({i \in DOMAIN seq : seq[i] = x})

(* When an export was reported as prepared and the adapter has not failed, everything
   that was ever returned to the trainer is in it: every sample of a returned group
   has its line (one, where claims are kept) and its claim, and the group its seal,
   although the code around swallows some of its failures. *)
ExportIsWhole ==
    export.prepared /\ ~failed =>
        /\ ~export.fatal
        /\ \A g \in returned, s \in Sample : GroupOf[s] = g =>
              /\ Count(export.rewards, s) >= 1
              /\ ~Plain => /\ Count(export.rewards, s) = 1
                           /\ s \in export.claims /\ Count(export.seals, g) >= 1
        /\ ~Plain => export.claims = Range(export.rewards)

(* Rewards are returned only within the limits and never after a failure, one that
   was swallowed included. *)
ReturnsInOrder ==
    [][returned' # returned =>
          /\ ~failed /\ ~closed /\ ~cancelling
          /\ Cardinality(seen) <= Limits.seen_ids
          /\ MemLog => Lines <= Limits.log_bytes]_adapterVars
=============================================================================
