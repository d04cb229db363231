------------------------------ MODULE Episode ------------------------------
(***************************************************************************)
(* The artifact workflow of scripts/ft/rlvr_replay.py and the identity     *)
(* bridge of scripts/ft/batch_identity.py, over the authority that         *)
(* scripts/ft/state.py keeps in control.json.                              *)
(*                                                                         *)
(* An episode generates the response of a sample, has it scored and builds *)
(* its tensors.  Each of the three is published once, in a directory of    *)
(* the sample's attempt, by the one thread of the workflow's pool; an      *)
(* episode that finds a stage published uses it.  Meanwhile the episode    *)
(* may be cancelled, the attempt superseded or the process replaced by one *)
(* of a later epoch.  The bridge turns an accepted result into a row with  *)
(* an identity, and a batch of rows into an update intent.                 *)
(*                                                                         *)
(* Digests are the values themselves.  A response is one of a few texts, a *)
(* score 0 or 1; a tensor is what it was built from.                       *)
(***************************************************************************)
EXTENDS Naturals, FiniteSets, SequencesExt

CONSTANTS Sample,      \* the samples, "<group id>:<index>"
          GroupOf,     \* the group of a sample; the K of a group is its number of samples
          Text,        \* what the engine can answer
          None,
          MaxAttempt,  \* bound on the attempts of a sample
          MaxEpoch,    \* bound on the owners
          MaxCancel    \* bound on the cancelled episodes

Attempt == [id : 1..MaxAttempt, epoch : 1..MaxEpoch]
Score == [response : Text, score : 0..1]         \* the payload of the stage "reward"
Built == [response : Text, reward : Score]       \* of the stage "tensor"
Stage == [response : Text \union {None}, reward : Score \union {None}, tensor : Built \union {None}]
Accepted == [attempt : Attempt, payload : Stage] \* what accept_result keeps

ASSUME EpisodeAssumption ==
    /\ DOMAIN GroupOf = Sample
    /\ None \notin Text \union Attempt \union Score \union Built \union Accepted
    /\ {MaxAttempt, MaxEpoch} \subseteq Nat \ {0} /\ MaxCancel \in Nat

VARIABLES
    control,   \* control.json: epoch, attempts and accepted
    disk,      \* the published stages of every attempt
    allowed,   \* CallReturnRLVR.attempts
    ep,        \* the active episode of each sample
    pool,      \* _io_pool: the calls submitted, first one first
    attaching, \* bridge calls after the workflow's return: [sample, tensor, receipt]
    rows,      \* rows the bridge returned to the trainer
    intent,    \* IdentityBridge.intent, the microbatch being judged and the one published
    returned,  \* history: the tensors each attempt's episodes returned
    cancels

vars == <<control, disk, allowed, ep, pool, attaching, rows, intent, returned, cancels>>

NoStages == [response |-> None, reward |-> None, tensor |-> None]
Idle == [pc |-> "idle", ready |-> FALSE, attempt |-> None, got |-> NoStages,
         response |-> None, score |-> None]
NoIntent == [rows |-> {}, micro |-> {}, published |-> {}]

Op == {"load", "load tensor", "find response", "put response", "find reward", "put reward",
       "find both", "persist", "accept"}
Call == [sample : Sample, attempt : Attempt, op : Op, started : BOOLEAN, orphan : BOOLEAN,
         value : Text \union Score \union Built \union Stage \union {None}]
Episodes == [pc : Op \union {"idle", "engine", "scorer"}, ready : BOOLEAN, got : Stage,
             attempt : Attempt \union {None}, response : Text \union {None}, score : {0, 1, None}]
Row == [sample : Sample, receipt : Accepted]

----------------------------------------------------------------------------
(* Authority. *)

(* _check: the attempt is the current one and of the current owner. *)
Active(s, a) == control.attempts[s] = a /\ a.epoch = control.epoch

(* _current: and the receipt is the accepted one. *)
Current(s, receipt) == Active(s, receipt.attempt) /\ control.accepted[s] = receipt

Fresh(s) == [id |-> IF control.attempts[s] = None THEN 1 ELSE control.attempts[s].id + 1,
             epoch |-> control.epoch]

(* A new attempt that keeps the result of the one before. *)
AuthorizedKeeping(s, a) == [control EXCEPT !.attempts[s] = a]

(* state.authorize_attempt *)
Authorized(s, a) == [control EXCEPT !.attempts[s] = a, !.accepted[s] = None]

(* IdentityBridge.authorize, one sample of the group: a sample without attempt gets
   one; an attempt of an earlier owner is refused. *)
Authorize(s) ==
    LET a == IF control.attempts[s] = None THEN Fresh(s) ELSE control.attempts[s]
    IN  /\ a.epoch = control.epoch /\ allowed[s] # a
        /\ control' = IF control.attempts[s] = None THEN Authorized(s, a) ELSE control
        /\ allowed' = [allowed EXCEPT ![s] = a]
        /\ UNCHANGED <<disk, ep, pool, attaching, rows, intent, returned, cancels>>

(* The attempt of a sample is replaced by a new one. *)
Supersede(s) ==
    /\ control.attempts[s] # None /\ control.attempts[s].id < MaxAttempt
    /\ control' = Authorized(s, Fresh(s))
    /\ UNCHANGED <<disk, allowed, ep, pool, attaching, rows, intent, returned, cancels>>

(* The process ends and a new owner is acquired. *)
Takeover ==
    /\ control.epoch < MaxEpoch
    /\ control' = [control EXCEPT !.epoch = @ + 1]
    /\ allowed' = [s \in Sample |-> None]
    /\ ep' = [s \in Sample |-> Idle]
    /\ pool' = <<>> /\ attaching' = {} /\ rows' = {} /\ intent' = NoIntent
    /\ UNCHANGED <<disk, returned, cancels>>

----------------------------------------------------------------------------
(* The pool.  _io checks the authority, submits the call and awaits it; the thread
   checks again, runs it and checks; the coroutine checks when it resumes. *)

Raise(s) == ep' = [ep EXCEPT ![s] = Idle]

(* The episode, now e, awaits the call op, which publishes or accepts value. *)
Await(s, e, op, value) ==
    IF Active(s, e.attempt)
    THEN /\ ep' = [ep EXCEPT ![s] = [e EXCEPT !.pc = op, !.ready = FALSE]]
         /\ pool' = Append(pool, [sample |-> s, attempt |-> e.attempt, op |-> op, value |-> value,
                                  started |-> FALSE, orphan |-> FALSE])
    ELSE Raise(s) /\ pool' = pool

(* A pool of more threads. *)
TakesAny(i) == TRUE

(* max_workers=1: the thread takes the calls in the order they were submitted. *)
Takes(i) == i = 1

Stages(c) == disk[c.sample][c.attempt]

(* _put: a stage is linked once; another content in its place is a conflict. *)
Puts == {"put response", "put reward", "persist"}
Slot(c) == IF c.op = "put response" THEN Stages(c).response
           ELSE IF c.op = "put reward" THEN Stages(c).reward ELSE Stages(c).tensor
Linked(c) == IF c.op = "put response" THEN [Stages(c) EXCEPT !.response = c.value]
             ELSE IF c.op = "put reward" THEN [Stages(c) EXCEPT !.reward = c.value]
             ELSE [Stages(c) EXCEPT !.tensor = c.value]
Conflict(c) == c.op \in Puts /\ Slot(c) \notin {None, c.value}

(* accept_result *)
Receipt(c) == [attempt |-> c.attempt, payload |-> c.value]
Refused(c) == \/ ~Active(c.sample, c.attempt)
              \/ control.accepted[c.sample] \notin {None, Receipt(c)}

(* The call finds its attempt superseded before it starts. *)
RefuseCall(i) ==
    /\ i \in DOMAIN pool /\ Takes(i) /\ ~pool[i].started
    /\ ~Active(pool[i].sample, pool[i].attempt)
    /\ pool' = RemoveAt(pool, i) /\ Raise(pool[i].sample)
    /\ UNCHANGED <<control, disk, allowed, attaching, rows, intent, returned, cancels>>

(* A put has checked the authority and is writing. *)
StartPut(i) ==
    /\ i \in DOMAIN pool /\ Takes(i) /\ ~pool[i].started
    /\ pool[i].op \in Puts /\ Active(pool[i].sample, pool[i].attempt)
    /\ pool' = [pool EXCEPT ![i].started = TRUE]
    /\ UNCHANGED <<control, disk, allowed, ep, attaching, rows, intent, returned, cancels>>

(* The call ends, which is the end of an orphan.  A read, or an acceptance under the
   lock, is one step with its check. *)
RunCall(i) ==
    LET c == pool[i]
        failed == Conflict(c) \/ (c.op = "accept" /\ Refused(c))
    IN  /\ i \in DOMAIN pool
        /\ \/ c.started
           \/ Takes(i) /\ c.op \notin Puts /\ Active(c.sample, c.attempt)
        /\ disk' = IF c.op \in Puts /\ ~failed
                   THEN [disk EXCEPT ![c.sample][c.attempt] = Linked(c)] ELSE disk
        /\ control' = IF c.op = "accept" /\ ~failed
                      THEN [control EXCEPT !.accepted[c.sample] = Receipt(c)] ELSE control
        /\ ep' = IF c.orphan THEN ep
                 ELSE [ep EXCEPT ![c.sample] =
                         IF failed THEN Idle ELSE [@ EXCEPT !.ready = TRUE, !.got = disk'[c.sample][c.attempt]]]
        /\ pool' = RemoveAt(pool, i)
        /\ UNCHANGED <<allowed, attaching, rows, intent, returned, cancels>>

(* A cancelled await takes its call back if the thread has not begun it; the sample is
   not active any more. *)
Mine(s) == {i \in DOMAIN pool : pool[i].sample = s /\ ~pool[i].orphan}

Cancel(s) ==
    /\ ep[s].pc # "idle" /\ cancels < MaxCancel
    /\ cancels' = cancels + 1
    /\ Raise(s)
    /\ \/ Mine(s) = {} /\ pool' = pool
       \/ \E i \in Mine(s) :
             pool' = IF pool[i].started THEN [pool EXCEPT ![i].orphan = TRUE] ELSE RemoveAt(pool, i)
    /\ UNCHANGED <<control, disk, allowed, attaching, rows, intent, returned>>

----------------------------------------------------------------------------
(* arun_episode, _collect_samples and _compute_rewards, from one await to the next. *)

Begin(s) ==
    /\ ep[s].pc = "idle" /\ allowed[s] # None
    /\ Active(s, allowed[s])
    /\ Await(s, [Idle EXCEPT !.attempt = allowed[s]], "load", None)
    /\ UNCHANGED <<control, disk, allowed, attaching, rows, intent, returned, cancels>>

Tensor(response, reward) == [response |-> response, reward |-> reward]

(* _validate_tensors and the upstream digests of a stage. *)
Matches(e, st) == st.response = e.response /\ st.reward.score = e.score
Chained(st) == /\ st.reward # None => st.reward.response = st.response
               /\ st.tensor # None => st.tensor = Tensor(st.response, st.reward)

Resumes(s, op) == ep[s].pc = op /\ ep[s].ready

Loaded(s) ==
    LET e == ep[s]  st == e.got
    IN  /\ Resumes(s, "load")
        /\ IF st.tensor # None THEN Await(s, e, "load tensor", None)
                               ELSE Await(s, e, "find response", None)

LoadedTensor(s) ==
    LET e == ep[s]
    IN  /\ Resumes(s, "load tensor")
        /\ IF Chained(e.got) THEN Await(s, e, "accept", e.got) ELSE Raise(s) /\ pool' = pool

FoundResponse(s) ==
    LET e == ep[s]
    IN  /\ Resumes(s, "find response")
        /\ IF e.got.response # None
           THEN Await(s, [e EXCEPT !.response = e.got.response], "find reward", None)
           ELSE /\ IF Active(s, e.attempt) THEN ep' = [ep EXCEPT ![s].pc = "engine", ![s].ready = FALSE]
                                           ELSE Raise(s)
                /\ pool' = pool

(* The engine answers, or fails, or answers what _response rejects. *)
Generated(s) ==
    /\ ep[s].pc = "engine"
    /\ \/ \E t \in Text : Await(s, [ep[s] EXCEPT !.response = t], "put response", t)
       \/ Raise(s) /\ pool' = pool

PutResponse(s) == Resumes(s, "put response") /\ Await(s, ep[s], "find reward", None)

FoundReward(s) ==
    LET e == ep[s]
    IN  /\ Resumes(s, "find reward")
        /\ IF e.got.reward # None
           THEN IF Chained(e.got) THEN Await(s, [e EXCEPT !.score = e.got.reward.score], "find both", None)
                                  ELSE Raise(s) /\ pool' = pool
           ELSE /\ IF Active(s, e.attempt) THEN ep' = [ep EXCEPT ![s].pc = "scorer", ![s].ready = FALSE]
                                           ELSE Raise(s)
                /\ pool' = pool

(* The scorer returns 0 or 1, its own fallbacks included, or raises or times out. *)
Scored(s) ==
    LET e == ep[s]
    IN  /\ e.pc = "scorer"
        /\ \/ \E v \in 0..1 : Await(s, [e EXCEPT !.score = v], "put reward",
                                    [response |-> e.got.response, score |-> v])
           \/ Raise(s) /\ pool' = pool

PutReward(s) == Resumes(s, "put reward") /\ Await(s, ep[s], "find both", None)

(* The native tensors are those of the response and the score of this episode. *)
FoundBoth(s) ==
    LET e == ep[s]
    IN  /\ Resumes(s, "find both")
        /\ IF Matches(e, e.got) /\ Chained(e.got)
           THEN Await(s, e, "persist", Tensor(e.got.response, e.got.reward))
           ELSE Raise(s) /\ pool' = pool

Persisted(s) == Resumes(s, "persist") /\ Await(s, ep[s], "accept", ep[s].got)

Return(s) ==
    LET e == ep[s]
    IN  /\ Resumes(s, "accept")
        /\ Raise(s)
        /\ IF Active(s, e.attempt)
           THEN /\ attaching' = attaching \union {[sample |-> s, tensor |-> e.got.tensor, receipt |-> None]}
                /\ returned' = returned \union {[sample |-> s, attempt |-> e.attempt, tensor |-> e.got.tensor]}
           ELSE UNCHANGED <<attaching, returned>>
        /\ UNCHANGED <<control, disk, allowed, pool, rows, intent, cancels>>

Resume(s) ==
    /\ \/ Loaded(s) \/ LoadedTensor(s) \/ FoundResponse(s) \/ Generated(s) \/ PutResponse(s)
       \/ FoundReward(s) \/ Scored(s) \/ PutReward(s) \/ FoundBoth(s) \/ Persisted(s)
    /\ UNCHANGED <<control, disk, allowed, attaching, rows, intent, returned, cancels>>

----------------------------------------------------------------------------
(* The bridge: IdentityBridge._attach and the check after it, begin_update and
   at_train_batch. *)

Attach(j) ==
    LET receipt == control.accepted[j.sample]
    IN  /\ j \in attaching /\ j.receipt = None
        /\ attaching' = (attaching \ {j}) \union
              (IF receipt # None /\ Current(j.sample, receipt) /\ receipt.payload.tensor = j.tensor
               THEN {[j EXCEPT !.receipt = receipt]} ELSE {})
        /\ UNCHANGED <<control, disk, allowed, ep, pool, rows, intent, returned, cancels>>

Deliver(j) ==
    /\ j \in attaching /\ j.receipt # None
    /\ attaching' = attaching \ {j}
    /\ rows' = IF Current(j.sample, j.receipt)
               THEN rows \union {[sample |-> j.sample, receipt |-> j.receipt]} ELSE rows
    /\ UNCHANGED <<control, disk, allowed, ep, pool, intent, returned, cancels>>

(* validate_rows, over the rows of a batch *)
Valid(batch) == \A r \in batch : Current(r.sample, r.receipt)

Whole(batch) == \A s, t \in Sample :
    GroupOf[s] = GroupOf[t] => ((\E r \in batch : r.sample = s) <=> (\E r \in batch : r.sample = t))
Distinct(batch) == \A q, r \in batch : q.sample = r.sample => q = r

BeginUpdate(batch) ==
    /\ batch # {} /\ batch \subseteq rows
    /\ Valid(batch) /\ Distinct(batch) /\ Whole(batch)
    /\ intent' = [NoIntent EXCEPT !.rows = batch]
    /\ UNCHANGED <<control, disk, allowed, ep, pool, attaching, rows, returned, cancels>>

(* at_train_batch first judges a microbatch the optimizer is about to take ... *)
JudgeMicrobatch(micro) ==
    /\ intent.rows # {} /\ intent.micro = {}
    /\ micro # {} /\ micro \subseteq intent.rows /\ Valid(micro)
    /\ intent' = [intent EXCEPT !.micro = micro]
    /\ UNCHANGED <<control, disk, allowed, ep, pool, attaching, rows, returned, cancels>>

(* The rows were checked when the microbatch was judged. *)
JudgedEarlier(batch) == batch = intent.rows

AllAuthorized(batch) == \A r \in batch : control.attempts[r.sample] = r.receipt.attempt

(* ... then publishes the intent under the lock of the state, and always raises.  The
   file of an intent is linked once. *)
PublishIntent ==
    /\ intent.micro # {}
    /\ intent' = [intent EXCEPT !.micro = {},
                     !.published = IF AllAuthorized(intent.rows) /\ @ = {} THEN intent.micro ELSE @]
    /\ UNCHANGED <<control, disk, allowed, ep, pool, attaching, rows, returned, cancels>>

----------------------------------------------------------------------------
Init ==
    /\ control = [epoch |-> 1, attempts |-> [s \in Sample |-> None], accepted |-> [s \in Sample |-> None]]
    /\ disk = [s \in Sample |-> [a \in Attempt |-> NoStages]]
    /\ allowed = [s \in Sample |-> None]
    /\ ep = [s \in Sample |-> Idle]
    /\ pool = <<>> /\ attaching = {} /\ rows = {} /\ intent = NoIntent
    /\ returned = {} /\ cancels = 0

Next ==
    \/ Takeover \/ PublishIntent
    \/ \E s \in Sample : Authorize(s) \/ Supersede(s) \/ Cancel(s) \/ Begin(s) \/ Resume(s) \/ Return(s)
    \/ \E i \in DOMAIN pool : RefuseCall(i) \/ StartPut(i) \/ RunCall(i)
    \/ \E j \in attaching : Attach(j) \/ Deliver(j)
    \/ \E batch \in SUBSET rows : BeginUpdate(batch)
    \/ \E micro \in SUBSET intent.rows : JudgeMicrobatch(micro)

Spec == Init /\ [][Next]_vars

----------------------------------------------------------------------------
(* Everything has the shape its code gives it. *)
TypeOK ==
    /\ control \in [epoch : 1..MaxEpoch, attempts : [Sample -> Attempt \union {None}],
                    accepted : [Sample -> Accepted \union {None}]]
    /\ disk \in [Sample -> [Attempt -> Stage]]
    /\ allowed \in [Sample -> Attempt \union {None}]
    /\ ep \in [Sample -> Episodes] /\ pool \in Seq(Call)
    /\ attaching \subseteq [sample : Sample, tensor : Built, receipt : Accepted \union {None}]
    /\ rows \subseteq Row
    /\ intent \in [rows : SUBSET Row, micro : SUBSET Row, published : SUBSET Row]
    /\ returned \subseteq [sample : Sample, attempt : Attempt, tensor : Built]
    /\ cancels \in 0..MaxCancel

(* What is published of an attempt belongs together and no call finds another content
   in its place, whatever calls of cancelled episodes the pool still runs. *)
NoConflict ==
    /\ \A s \in Sample, a \in Attempt : Chained(disk[s][a])
    /\ \A i \in DOMAIN pool : pool[i].started => ~Conflict(pool[i])

(* All episodes of an attempt that return return the same tensors, and an accepted
   receipt is of the current attempt and names what the attempt published. *)
OneResult ==
    /\ \A q, r \in returned : q.sample = r.sample /\ q.attempt = r.attempt => q.tensor = r.tensor
    /\ \A s \in Sample : control.accepted[s] # None =>
          LET receipt == control.accepted[s]
          IN  /\ receipt.attempt = control.attempts[s]
              /\ receipt.payload = disk[s][receipt.attempt]
              /\ receipt.payload.tensor # None

(* When an update intent is published, every one of its rows is the accepted result of
   its sample's current attempt, and its groups are whole. *)
IntentIsCurrent ==
    [][intent'.published \notin {{}, intent.published} =>
          /\ Whole(intent.rows) /\ Distinct(intent.rows)
          /\ \A r \in intent.rows : /\ control.attempts[r.sample] = r.receipt.attempt
                                   /\ control.accepted[r.sample] = r.receipt]_vars
=============================================================================
