----------------------------- MODULE EpisodeProofs -----------------------------
(***************************************************************************)
(* For any number of samples, attempts, owners, cancelled episodes and     *)
(* answers of the engine: what is published of an attempt belongs          *)
(* together, its episodes have one result, and an update intent names the  *)
(* accepted results of the current attempts.                               *)
(***************************************************************************)
EXTENDS Episode, SequenceTheorems, TLAPS

(* The one thread has begun the first call at most; a call that nobody awaits is that
   one, and its sample's next episode waits behind it.  Every other call is the one its
   episode awaits.                                                                     *)
OwnedBy(c, e) ==
    IF c.orphan THEN c.started /\ (e.pc = "idle" \/ (e.pc = "load" /\ ~e.ready))
                ELSE e.pc = c.op /\ ~e.ready /\ e.attempt = c.attempt

PoolInv ==
    /\ \A i \in DOMAIN pool : /\ OwnedBy(pool[i], ep[pool[i].sample])
                              /\ pool[i].started => i = 1 /\ pool[i].op \in Puts
    /\ \A i, j \in DOMAIN pool :
          pool[i].sample = pool[j].sample /\ ~pool[i].orphan /\ ~pool[j].orphan => i = j

(* What an episode has seen of its attempt is what is published of it, and it goes no
   further than that.                                                                  *)
Past(e) == e.pc # "idle" /\ (e.pc = "load" => e.ready)

EpisodeFits(e, st) ==
    /\ e.pc # "idle" => e.attempt # None
    /\ Past(e) => e.got = st
    /\ e.pc \in {"find reward", "scorer", "put reward", "find both", "persist"} => e.got.response # None
    /\ e.pc \in {"find both", "persist"} => e.got.reward # None
    /\ e.pc \in {"load tensor", "accept"} => e.got.tensor # None
    /\ e.pc = "engine" => e.got.response = None
    /\ e.pc = "scorer" => e.got.reward = None
    /\ e.ready => /\ e.pc = "put response" => e.got.response # None
                  /\ e.pc = "put reward" => e.got.reward # None
                  /\ e.pc = "persist" => e.got.tensor # None

EpisodeInv == \A s \in Sample : EpisodeFits(ep[s], disk[s][ep[s].attempt])

(* What a call publishes fits what is there, and its place is free. *)
CallFits(c, st) ==
    /\ c.op = "put response" => c.value \in Text /\ st.response = None
    /\ c.op = "put reward" => /\ c.value \in Score /\ c.value.response = st.response
                              /\ st.reward = None
    /\ c.op = "persist" => /\ st.response # None /\ st.reward # None
                           /\ c.value = Tensor(st.response, st.reward)
    /\ c.op = "accept" => c.value = st /\ st.tensor # None

CallInv == \A i \in DOMAIN pool : CallFits(pool[i], Stages(pool[i]))

DiskInv == \A s \in Sample, a \in Attempt : Chained(disk[s][a])

(* What was returned or accepted is what is published. *)
ResultInv ==
    /\ \A q \in returned : disk[q.sample][q.attempt].tensor = q.tensor
    /\ \A s \in Sample : control.accepted[s] # None =>
          /\ control.accepted[s].attempt = control.attempts[s]
          /\ control.accepted[s].payload = disk[s][control.accepted[s].attempt]
          /\ control.accepted[s].payload.tensor # None

(* The attempts only grow: while the one of a row is the current one, its receipt is the
   accepted one.                                                                       *)
RowFits(r) ==
    /\ control.attempts[r.sample] # None
    /\ r.receipt.attempt.id <= control.attempts[r.sample].id
    /\ r.receipt.attempt = control.attempts[r.sample] => control.accepted[r.sample] = r.receipt

RowInv ==
    /\ \A r \in rows \union intent.rows : RowFits(r)
    /\ Whole(intent.rows) /\ Distinct(intent.rows)

(* What the episodes and the thread of the pool have between them *)
Workflow ==
    /\ disk \in [Sample -> [Attempt -> Stage]]
    /\ ep \in [Sample -> Episodes] /\ pool \in Seq(Call)
    /\ PoolInv /\ EpisodeInv /\ CallInv /\ DiskInv

EpisodeInvs == TypeOK /\ Workflow /\ ResultInv /\ RowInv

-----------------------------------------------------------------------------
LEMMA NoneFacts ==
    /\ None \notin Text /\ None \notin Attempt /\ None \notin Score /\ None \notin Built
    /\ None \notin Accepted
    /\ MaxAttempt \in Nat /\ 1 <= MaxAttempt /\ MaxEpoch \in Nat /\ 1 <= MaxEpoch /\ MaxCancel \in Nat
BY EpisodeAssumption

LEMMA Empties ==
    /\ NoStages \in Stage /\ Idle \in Episodes /\ Chained(NoStages)
    /\ Idle.pc = "idle" /\ Idle.ready = FALSE
    /\ \A st : EpisodeFits(Idle, st)
BY NoneFacts DEF NoStages, Stage, Idle, Episodes, Chained, EpisodeFits, Past

(* A stage of which something is missing has nothing that is built on it. *)
LEMMA StageOrder ==
    ASSUME NEW st \in Stage, Chained(st)
    PROVE  /\ st.response = None => st.reward = None
           /\ st.reward = None => st.tensor = None
           /\ st.response # None => st.response \in Text
           /\ st.reward # None => st.reward \in Score
           /\ st.tensor # None => st.tensor \in Built
BY NoneFacts DEF Stage, Chained, Score, Built, Tensor

(* One call less: where those that are left were *)
From(i, j) == IF i < j THEN i ELSE i + 1

LEMMA RemoveFacts ==
    ASSUME NEW S, NEW q \in Seq(S), NEW j \in DOMAIN q
    PROVE  /\ RemoveAt(q, j) \in Seq(S)
           /\ \A i \in DOMAIN RemoveAt(q, j) : /\ From(i, j) \in DOMAIN q /\ From(i, j) # j
                                              /\ RemoveAt(q, j)[i] = q[From(i, j)]
<1>1. Len(q) \in Nat /\ DOMAIN q = 1 .. Len(q) /\ q \in [1 .. Len(q) -> S] /\ j \in 1 .. Len(q)
  BY LenProperties
<1> DEFINE a == SubSeq(q, 1, j - 1)
           b == SubSeq(q, j + 1, Len(q))
<1>2. /\ a \in Seq(S) /\ Len(a) = j - 1
      /\ \A i \in 1 .. j - 1 : a[i] = q[i]
  <2>1. 1 \in Int /\ j - 1 \in Int /\ \A i \in 1 .. j - 1 : q[i] \in S
    BY <1>1
  <2>2. /\ a \in Seq(S) /\ Len(a) = IF 1 <= j - 1 THEN j - 1 - 1 + 1 ELSE 0
        /\ \A i \in 1 .. j - 1 - 1 + 1 : a[i] = q[1 + i - 1]
    BY <2>1, SubSeqProperties
  <2> QED
    BY <1>1, <2>2
<1>3. /\ b \in Seq(S) /\ Len(b) = Len(q) - j
      /\ \A i \in 1 .. Len(q) - j : b[i] = q[j + i]
  <2>1. j + 1 \in Int /\ Len(q) \in Int /\ \A i \in j + 1 .. Len(q) : q[i] \in S
    BY <1>1
  <2>2. /\ b \in Seq(S) /\ Len(b) = IF j + 1 <= Len(q) THEN Len(q) - (j + 1) + 1 ELSE 0
        /\ \A i \in 1 .. Len(q) - (j + 1) + 1 : b[i] = q[j + 1 + i - 1]
    BY <2>1, SubSeqProperties
  <2> QED
    BY <1>1, <2>2
<1> HIDE DEF a, b
<1>4. /\ a \o b \in Seq(S) /\ Len(a \o b) = Len(q) - 1
      /\ \A i \in 1 .. Len(q) - 1 : (a \o b)[i] = IF i <= j - 1 THEN a[i] ELSE b[i - (j - 1)]
  <2>1. /\ a \o b \in Seq(S)
        /\ Len(a \o b) = Len(a) + Len(b)
        /\ \A i \in 1 .. Len(a) + Len(b) : (a \o b)[i] = IF i <= Len(a) THEN a[i] ELSE b[i - Len(a)]
    BY <1>2, <1>3, ConcatProperties
  <2>2. Len(a) + Len(b) = Len(q) - 1
    BY <1>1, <1>2, <1>3
  <2> QED
    BY <1>2, <2>1, <2>2
<1>5. RemoveAt(q, j) = a \o b
  BY DEF RemoveAt, a, b
<1>6. DOMAIN (a \o b) = 1 .. Len(q) - 1
  BY <1>4, LenProperties
<1>7. ASSUME NEW i \in 1 .. Len(q) - 1
      PROVE  From(i, j) \in 1 .. Len(q) /\ From(i, j) # j /\ (a \o b)[i] = q[From(i, j)]
  <2>1. CASE i < j
    BY <1>1, <1>2, <1>4, <1>7, <2>1 DEF From
  <2>2. CASE ~ (i < j)
    <3>1. i - (j - 1) \in 1 .. Len(q) - j /\ j + (i - (j - 1)) = i + 1
      BY <1>1, <1>7, <2>2
    <3> QED
      BY <1>1, <1>3, <1>4, <1>7, <2>2, <3>1, SMTT(30) DEF From
  <2> QED
    BY <2>1, <2>2
<1> QED
  BY <1>1, <1>4, <1>5, <1>6, <1>7

-----------------------------------------------------------------------------
(* The pool that lost a call, got one, or has the same ones *)
LEMMA CallFacts ==
    ASSUME Workflow, NEW i \in DOMAIN pool
    PROVE  /\ pool[i] \in Call /\ pool[i].sample \in Sample
           /\ pool[i].attempt \in Attempt /\ pool[i].op \in Op
           /\ pool[i].started => i = 1 /\ pool[i].op \in Puts
           /\ pool[i].orphan => pool[i].started
           /\ OwnedBy(pool[i], ep[pool[i].sample]) /\ CallFits(pool[i], Stages(pool[i]))
<1>1. pool \in Seq(Call) /\ DOMAIN pool = 1 .. Len(pool)
  BY LenProperties DEF Workflow
<1>2. pool[i] \in Call
  BY <1>1, ElementOfSeq
<1>3. pool[i].sample \in Sample /\ pool[i].attempt \in Attempt /\ pool[i].op \in Op
  BY <1>2 DEF Call
<1>4. /\ OwnedBy(pool[i], ep[pool[i].sample]) /\ CallFits(pool[i], Stages(pool[i]))
      /\ pool[i].started => i = 1 /\ pool[i].op \in Puts
  BY DEF Workflow, PoolInv, CallInv
<1>5. pool[i].orphan => pool[i].started
  BY <1>4 DEF OwnedBy
<1> QED
  BY <1>2, <1>3, <1>4, <1>5

LEMMA PoolFacts ==
    ASSUME Workflow
    PROVE  /\ pool \in Seq(Call) /\ DOMAIN pool = 1 .. Len(pool) /\ Len(pool) \in Nat
           /\ \A i \in DOMAIN pool : /\ pool[i] \in Call /\ pool[i].sample \in Sample
                                     /\ pool[i].attempt \in Attempt
                                     /\ pool[i].started => i = 1 /\ pool[i].op \in Puts
<1>1. pool \in Seq(Call) /\ DOMAIN pool = 1 .. Len(pool) /\ Len(pool) \in Nat
  BY LenProperties DEF Workflow
<1> QED
  BY <1>1, CallFacts

LEMMA StageFacts ==
    ASSUME Workflow, NEW s \in Sample
    PROVE  /\ ep[s] \in Episodes /\ EpisodeFits(ep[s], disk[s][ep[s].attempt])
           /\ \A a \in Attempt : disk[s][a] \in Stage /\ Chained(disk[s][a])
BY DEF Workflow, EpisodeInv, DiskInv

LEMMA PoolShrinks ==
    ASSUME Workflow, NEW j \in DOMAIN pool, pool' = RemoveAt(pool, j),
           \A i \in DOMAIN pool \ {j} :
              /\ OwnedBy(pool[i], ep'[pool[i].sample])
              /\ CallFits(pool[i], disk'[pool[i].sample][pool[i].attempt])
    PROVE  pool' \in Seq(Call) /\ PoolInv' /\ CallInv'
<1>1. /\ pool \in Seq(Call) /\ DOMAIN pool = 1 .. Len(pool)
      /\ \A i \in DOMAIN pool : pool[i].started => i = 1 /\ pool[i].op \in Puts
  BY PoolFacts
<1>2. /\ pool' \in Seq(Call)
      /\ \A i \in DOMAIN pool' : From(i, j) \in DOMAIN pool /\ From(i, j) # j /\ pool'[i] = pool[From(i, j)]
  BY <1>1, RemoveFacts
<1>3. DOMAIN pool' \subseteq Nat \ {0}
  BY <1>2, LenProperties
<1>4. ASSUME NEW i \in DOMAIN pool'
      PROVE  /\ OwnedBy(pool'[i], ep'[pool'[i].sample])
             /\ CallFits(pool'[i], disk'[pool'[i].sample][pool'[i].attempt])
             /\ pool'[i].started => i = 1 /\ pool'[i].op \in Puts
  <2>1. From(i, j) = 1 => i = 1
    BY <1>1, <1>3 DEF From
  <2> QED
    BY <1>1, <1>2, <2>1
<1>5. ASSUME NEW i \in DOMAIN pool', NEW k \in DOMAIN pool',
             pool'[i].sample = pool'[k].sample, ~pool'[i].orphan, ~pool'[k].orphan
      PROVE  i = k
  <2>1. From(i, j) = From(k, j)
    BY <1>2, <1>5 DEF Workflow, PoolInv
  <2> QED
    BY <1>1, <1>3, <2>1 DEF From
<1>6. PoolInv'
  BY <1>4, <1>5 DEF PoolInv
<1> QED
  BY <1>2, <1>4, <1>6 DEF CallInv, Stages

LEMMA PoolGrows ==
    ASSUME Workflow, NEW c \in Call, ~c.started, ~c.orphan, pool' = Append(pool, c),
           \A i \in DOMAIN pool :
              /\ OwnedBy(pool[i], ep'[pool[i].sample])
              /\ CallFits(pool[i], disk'[pool[i].sample][pool[i].attempt])
              /\ pool[i].sample = c.sample => pool[i].orphan,
           OwnedBy(c, ep'[c.sample]), CallFits(c, disk'[c.sample][c.attempt])
    PROVE  pool' \in Seq(Call) /\ PoolInv' /\ CallInv'
<1>1. /\ pool \in Seq(Call) /\ DOMAIN pool = 1 .. Len(pool) /\ Len(pool) \in Nat
      /\ \A i \in DOMAIN pool : pool[i].started => i = 1 /\ pool[i].op \in Puts
  BY PoolFacts
<1>2. /\ pool' \in Seq(Call) /\ Len(pool') = Len(pool) + 1
      /\ \A i \in DOMAIN pool : pool'[i] = pool[i]
      /\ pool'[Len(pool) + 1] = c
  BY <1>1, AppendProperties
<1>3. /\ \A i \in DOMAIN pool' : i \in DOMAIN pool \/ i = Len(pool) + 1
      /\ Len(pool) + 1 \notin DOMAIN pool
  BY <1>1, <1>2, LenProperties
<1>4. ASSUME NEW i \in DOMAIN pool'
      PROVE  /\ OwnedBy(pool'[i], ep'[pool'[i].sample])
             /\ CallFits(pool'[i], disk'[pool'[i].sample][pool'[i].attempt])
             /\ pool'[i].started => i = 1 /\ pool'[i].op \in Puts
  BY <1>1, <1>2, <1>3
<1>5. ASSUME NEW i \in DOMAIN pool', NEW k \in DOMAIN pool',
             pool'[i].sample = pool'[k].sample, ~pool'[i].orphan, ~pool'[k].orphan
      PROVE  i = k
  BY <1>2, <1>3, <1>5 DEF Workflow, PoolInv
<1>6. PoolInv'
  BY <1>4, <1>5 DEF PoolInv
<1> QED
  BY <1>2, <1>4, <1>6 DEF CallInv, Stages

LEMMA PoolStays ==
    ASSUME Workflow, UNCHANGED <<pool, disk>>,
           \A i \in DOMAIN pool : OwnedBy(pool[i], ep'[pool[i].sample])
    PROVE  pool' \in Seq(Call) /\ PoolInv' /\ CallInv'
BY DEF Workflow, PoolInv, CallInv, Stages

(* One episode goes on. *)
LEMMA EpisodeStep ==
    ASSUME Workflow, UNCHANGED disk, NEW s \in Sample, NEW e \in Episodes,
           ep' = [ep EXCEPT ![s] = e], EpisodeFits(e, disk[s][e.attempt])
    PROVE  /\ ep' \in [Sample -> Episodes] /\ EpisodeInv' /\ DiskInv'
           /\ disk' \in [Sample -> [Attempt -> Stage]]
           /\ ep'[s] = e /\ \A t \in Sample : t # s => ep'[t] = ep[t]
<1>1. ep' \in [Sample -> Episodes] /\ ep'[s] = e /\ \A t \in Sample : t # s => ep'[t] = ep[t]
  BY DEF Workflow
<1>2. EpisodeInv'
  BY <1>1 DEF Workflow, EpisodeInv
<1> QED
  BY <1>1, <1>2 DEF Workflow, DiskInv

(* Its sample has no call in the pool, or only one that nobody awaits. *)
Unowned(s) == \A i \in DOMAIN pool : pool[i].sample = s => pool[i].orphan
Uncalled(s) == \A i \in DOMAIN pool : pool[i].sample # s

LEMMA NotCalled ==
    ASSUME Workflow, NEW s \in Sample
    PROVE  /\ ep[s].pc \notin Op => Unowned(s)
           /\ ep[s].pc \in {"engine", "scorer"} => Uncalled(s)
           /\ ep[s].ready /\ ep[s].pc # "idle" => Uncalled(s)
<1>1. \A i \in DOMAIN pool : OwnedBy(pool[i], ep[pool[i].sample]) /\ pool[i].op \in Op
  BY CallFacts
<1> QED
  BY <1>1 DEF OwnedBy, Unowned, Uncalled, Op

(* What an episode, now e, that has seen st may await *)
Awaits(s, e, op, value, st) ==
    /\ e \in Episodes /\ e.attempt \in Attempt /\ op \in Op
    /\ value \in Text \union Score \union Built \union Stage \union {None}
    /\ Uncalled(s) \/ (Unowned(s) /\ op = "load")
    /\ EpisodeFits([e EXCEPT !.pc = op, !.ready = FALSE], st)
    /\ \A c \in Call : c.op = op /\ c.value = value => CallFits(c, st)

LEMMA StepAwait ==
    ASSUME Workflow, UNCHANGED disk, NEW s \in Sample, NEW e, NEW op, NEW value,
           Awaits(s, e, op, value, disk[s][e.attempt]), Await(s, e, op, value)
    PROVE  Workflow'
<1> DEFINE d == [e EXCEPT !.pc = op, !.ready = FALSE]
           c == [sample |-> s, attempt |-> e.attempt, op |-> op, value |-> value,
                 started |-> FALSE, orphan |-> FALSE]
<1> USE DEF Awaits
<1>1. CASE Active(s, e.attempt)
  <2>1. ep' = [ep EXCEPT ![s] = d] /\ pool' = Append(pool, c)
    BY <1>1 DEF Await
  <2>2. d \in Episodes /\ d.pc = op /\ d.ready = FALSE /\ d.attempt = e.attempt
    BY DEF Episodes
  <2>3. c \in Call
    BY DEF Call
  <2>4. EpisodeFits(d, disk[s][d.attempt])
    BY <2>2
  <2>5. c.sample = s /\ c.attempt = e.attempt /\ c.op = op /\ c.value = value /\ ~c.started /\ ~c.orphan
    OBVIOUS
  <2> HIDE DEF d, c
  <2>6. /\ ep' \in [Sample -> Episodes] /\ EpisodeInv' /\ DiskInv'
        /\ disk' \in [Sample -> [Attempt -> Stage]]
        /\ ep'[s] = d /\ \A t \in Sample : t # s => ep'[t] = ep[t]
    BY <2>1, <2>2, <2>4, EpisodeStep
  <2>7. \A i \in DOMAIN pool : /\ OwnedBy(pool[i], ep'[pool[i].sample])
                               /\ CallFits(pool[i], disk'[pool[i].sample][pool[i].attempt])
                               /\ pool[i].sample = c.sample => pool[i].orphan
    <3>1. ASSUME NEW i \in DOMAIN pool
          PROVE  /\ OwnedBy(pool[i], ep[pool[i].sample]) /\ pool[i].sample \in Sample
                 /\ CallFits(pool[i], disk[pool[i].sample][pool[i].attempt])
      BY PoolFacts DEF Workflow, PoolInv, CallInv, Stages
    <3> QED
      BY <2>2, <2>5, <2>6, <3>1 DEF Uncalled, Unowned, OwnedBy
  <2>8. OwnedBy(c, ep'[c.sample]) /\ CallFits(c, disk'[c.sample][c.attempt])
    BY <2>2, <2>3, <2>5, <2>6 DEF OwnedBy
  <2>9. pool' \in Seq(Call) /\ PoolInv' /\ CallInv'
    BY <2>1, <2>3, <2>5, <2>7, <2>8, PoolGrows
  <2> QED
    BY <2>6, <2>9 DEF Workflow
<1>2. CASE ~Active(s, e.attempt)
  <2>1. ep' = [ep EXCEPT ![s] = Idle] /\ pool' = pool
    BY <1>2 DEF Await, Raise
  <2>2. /\ ep' \in [Sample -> Episodes] /\ EpisodeInv' /\ DiskInv'
        /\ disk' \in [Sample -> [Attempt -> Stage]]
        /\ ep'[s] = Idle /\ \A t \in Sample : t # s => ep'[t] = ep[t]
    BY <2>1, Empties, EpisodeStep
  <2>3. \A i \in DOMAIN pool : OwnedBy(pool[i], ep'[pool[i].sample])
    <3>1. \A i \in DOMAIN pool : OwnedBy(pool[i], ep[pool[i].sample]) /\ pool[i].sample \in Sample
      BY PoolFacts DEF Workflow, PoolInv
    <3> QED
      BY <2>2, <3>1, Empties DEF Uncalled, Unowned, OwnedBy
  <2>4. pool' \in Seq(Call) /\ PoolInv' /\ CallInv'
    BY <2>1, <2>3, PoolStays
  <2> QED
    BY <2>2, <2>4 DEF Workflow
<1> QED
  BY <1>1, <1>2

(* An episode without a call goes on, or ends. *)
LEMMA StepAlone ==
    ASSUME Workflow, UNCHANGED <<disk, pool>>, NEW s \in Sample, NEW e \in Episodes,
           ep' = [ep EXCEPT ![s] = e], EpisodeFits(e, disk[s][e.attempt]),
           Uncalled(s) \/ (Unowned(s) /\ e.pc = "idle")
    PROVE  Workflow'
<1>1. /\ ep' \in [Sample -> Episodes] /\ EpisodeInv' /\ DiskInv'
      /\ disk' \in [Sample -> [Attempt -> Stage]]
      /\ ep'[s] = e /\ \A t \in Sample : t # s => ep'[t] = ep[t]
  BY EpisodeStep
<1>2. \A i \in DOMAIN pool : OwnedBy(pool[i], ep[pool[i].sample]) /\ pool[i].sample \in Sample
  BY PoolFacts DEF Workflow, PoolInv
<1>3. \A i \in DOMAIN pool : OwnedBy(pool[i], ep'[pool[i].sample])
  BY <1>1, <1>2 DEF Uncalled, Unowned, OwnedBy
<1>4. pool' \in Seq(Call) /\ PoolInv' /\ CallInv'
  BY <1>3, PoolStays
<1> QED
  BY <1>1, <1>4 DEF Workflow

(* A call of the thread that is not begun, and its episode is sent away. *)
LEMMA StepRefuse ==
    ASSUME Workflow, NEW i \in DOMAIN pool, RefuseCall(i)
    PROVE  Workflow'
<1> DEFINE s == pool[i].sample
<1>1. ~pool[i].orphan /\ s \in Sample
  BY CallFacts DEF RefuseCall
<1>2. ep' = [ep EXCEPT ![s] = Idle] /\ UNCHANGED disk /\ pool' = RemoveAt(pool, i)
  BY DEF RefuseCall, Raise
<1> HIDE DEF s
<1>3. /\ ep' \in [Sample -> Episodes] /\ EpisodeInv' /\ DiskInv'
      /\ disk' \in [Sample -> [Attempt -> Stage]]
      /\ ep'[s] = Idle /\ \A t \in Sample : t # s => ep'[t] = ep[t]
  BY <1>1, <1>2, Empties, EpisodeStep
<1>4. ASSUME NEW k \in DOMAIN pool \ {i}
      PROVE  /\ OwnedBy(pool[k], ep'[pool[k].sample])
             /\ CallFits(pool[k], disk'[pool[k].sample][pool[k].attempt])
  <2>1. pool[k].sample = s => pool[k].orphan
    BY <1>1 DEF s, Workflow, PoolInv
  <2> QED
    BY <1>2, <1>3, <2>1, CallFacts, Empties DEF OwnedBy, Stages
<1>5. pool' \in Seq(Call) /\ PoolInv' /\ CallInv'
  BY <1>2, <1>4, PoolShrinks
<1> QED
  BY <1>3, <1>5 DEF Workflow

(* The call the thread is at, with other flags *)
LEMMA PoolMarked ==
    ASSUME Workflow, NEW i \in DOMAIN pool, NEW c \in Call, pool' = [pool EXCEPT ![i] = c],
           i = 1, c.op \in Puts, c.started, c.sample = pool[i].sample, c.attempt = pool[i].attempt,
           c.op = pool[i].op, c.value = pool[i].value, c.orphan \/ ~pool[i].orphan,
           \A k \in DOMAIN pool \ {i} : OwnedBy(pool[k], ep'[pool[k].sample]),
           OwnedBy(c, ep'[c.sample]), UNCHANGED disk
    PROVE  pool' \in Seq(Call) /\ PoolInv' /\ CallInv'
<1>1. /\ pool \in Seq(Call) /\ DOMAIN pool = 1 .. Len(pool)
  BY PoolFacts
<1>2. pool' \in Seq(Call) /\ Len(pool') = Len(pool)
  BY <1>1, ExceptSeq
<1>3. DOMAIN pool' = DOMAIN pool /\ pool'[i] = c /\ \A k \in DOMAIN pool \ {i} : pool'[k] = pool[k]
  BY <1>1
<1>4. ASSUME NEW k \in DOMAIN pool'
      PROVE  /\ OwnedBy(pool'[k], ep'[pool'[k].sample])
             /\ CallFits(pool'[k], disk'[pool'[k].sample][pool'[k].attempt])
             /\ pool'[k].started => k = 1 /\ pool'[k].op \in Puts
  <2>1. CASE k = i
    <3>1. CallFits(pool[i], disk'[pool[i].sample][pool[i].attempt])
      BY CallFacts DEF Stages
    <3>2. CallFits(c, disk'[c.sample][c.attempt])
      BY <3>1 DEF CallFits
    <3> QED
      BY <1>3, <2>1, <3>2
  <2>2. CASE k # i
    <3>1. k \in DOMAIN pool \ {i} /\ pool'[k] = pool[k]
      BY <1>3, <2>2
    <3> QED
      BY <3>1, CallFacts DEF Stages
  <2> QED
    BY <2>1, <2>2
<1>5. ASSUME NEW k \in DOMAIN pool', NEW l \in DOMAIN pool',
             pool'[k].sample = pool'[l].sample, ~pool'[k].orphan, ~pool'[l].orphan
      PROVE  k = l
  BY <1>3, <1>5 DEF Workflow, PoolInv
<1>6. PoolInv'
  BY <1>4, <1>5 DEF PoolInv
<1> QED
  BY <1>2, <1>4, <1>6 DEF CallInv, Stages

LEMMA StepStart ==
    ASSUME Workflow, NEW i \in DOMAIN pool, StartPut(i)
    PROVE  Workflow'
<1> DEFINE c == [pool[i] EXCEPT !.started = TRUE]
<1>1. /\ c \in Call /\ c.op = pool[i].op /\ c.started = TRUE /\ c.sample = pool[i].sample
      /\ c.attempt = pool[i].attempt /\ c.value = pool[i].value /\ c.orphan = pool[i].orphan
  BY CallFacts DEF Call
<1>2. pool' = [pool EXCEPT ![i] = c] /\ i = 1 /\ pool[i].op \in Puts /\ UNCHANGED <<ep, disk>>
  BY DEF StartPut, Takes
<1> HIDE DEF c
<1>3. \A k \in DOMAIN pool : OwnedBy(pool[k], ep'[pool[k].sample])
  BY <1>2, CallFacts
<1>4. OwnedBy(c, ep'[c.sample])
  BY <1>1, <1>3 DEF OwnedBy
<1>5. pool' \in Seq(Call) /\ PoolInv' /\ CallInv'
  BY <1>1, <1>2, <1>3, <1>4, PoolMarked
<1> QED
  BY <1>2, <1>5 DEF Workflow, EpisodeInv, DiskInv

(* A cancelled episode leaves a call that is begun to itself. *)
LEMMA StepCancel ==
    ASSUME Workflow, NEW s \in Sample, Cancel(s)
    PROVE  Workflow'
<1>1. ep' = [ep EXCEPT ![s] = Idle] /\ UNCHANGED disk
  BY DEF Cancel, Raise
<1>2. /\ ep' \in [Sample -> Episodes] /\ EpisodeInv' /\ DiskInv'
      /\ disk' \in [Sample -> [Attempt -> Stage]]
      /\ ep'[s] = Idle /\ \A t \in Sample : t # s => ep'[t] = ep[t]
  BY <1>1, Empties, EpisodeStep
<1>3. \A k \in DOMAIN pool : k \notin Mine(s) => OwnedBy(pool[k], ep'[pool[k].sample])
  BY <1>2, CallFacts, Empties DEF Mine, OwnedBy
<1>4. ASSUME Mine(s) = {}, pool' = pool
      PROVE  pool' \in Seq(Call) /\ PoolInv' /\ CallInv'
  BY <1>1, <1>3, <1>4, PoolStays
<1>5. ASSUME NEW i \in Mine(s),
             pool' = IF pool[i].started THEN [pool EXCEPT ![i].orphan = TRUE] ELSE RemoveAt(pool, i)
      PROVE  pool' \in Seq(Call) /\ PoolInv' /\ CallInv'
  <2>1. i \in DOMAIN pool /\ pool[i].sample = s /\ ~pool[i].orphan
    BY DEF Mine
  <2>2. \A k \in DOMAIN pool \ {i} : k \notin Mine(s)
    BY <2>1 DEF Mine, Workflow, PoolInv
  <2>3. \A k \in DOMAIN pool \ {i} : /\ OwnedBy(pool[k], ep'[pool[k].sample])
                                     /\ CallFits(pool[k], disk'[pool[k].sample][pool[k].attempt])
    BY <1>1, <1>3, <2>2, CallFacts DEF Stages
  <2>4. CASE pool[i].started
    <3> DEFINE c == [pool[i] EXCEPT !.orphan = TRUE]
    <3>1. /\ c \in Call /\ c.op = pool[i].op /\ c.started = pool[i].started /\ c.sample = s
          /\ c.attempt = pool[i].attempt /\ c.value = pool[i].value /\ c.orphan = TRUE
      BY <2>1, CallFacts DEF Call
    <3>2. pool' = [pool EXCEPT ![i] = c]
      BY <1>5, <2>4
    <3>3. i = 1 /\ pool[i].op \in Puts
      BY <2>1, <2>4, CallFacts
    <3> HIDE DEF c
    <3>4. OwnedBy(c, ep'[c.sample])
      BY <1>2, <2>4, <3>1, Empties DEF OwnedBy
    <3> QED
      BY <1>1, <2>1, <2>3, <2>4, <3>1, <3>2, <3>3, <3>4, PoolMarked
  <2>5. CASE ~pool[i].started
    <3>1. pool' = RemoveAt(pool, i)
      BY <1>5, <2>5
    <3> QED
      BY <2>1, <2>3, <3>1, PoolShrinks
  <2> QED
    BY <2>4, <2>5
<1>6. pool' \in Seq(Call) /\ PoolInv' /\ CallInv'
  BY <1>4, <1>5 DEF Cancel
<1> QED
  BY <1>2, <1>6 DEF Workflow

(* A put fits: it finds its place free, or what it brings. *)
LEMMA LinkFacts ==
    ASSUME NEW c \in Call, c.op \in Puts, Stages(c) \in Stage, Chained(Stages(c)),
           CallFits(c, Stages(c))
    PROVE  /\ ~Conflict(c) /\ Linked(c) \in Stage /\ Chained(Linked(c))
           /\ Stages(c).tensor # None => Linked(c) = Stages(c)
           /\ Stages(c).response # None => Linked(c).response # None
           /\ c.op = "put response" => Linked(c).response # None
           /\ c.op = "put reward" => Linked(c).reward # None
           /\ c.op = "persist" => Linked(c).reward # None /\ Linked(c).tensor # None
<1> DEFINE st == Stages(c)
<1>1. /\ st.response = None => st.reward = None
      /\ st.reward = None => st.tensor = None
      /\ st.response # None => st.response \in Text
      /\ st.reward # None => st.reward \in Score
      /\ st.tensor # None => st.tensor \in Built
  BY StageOrder
<1>2. st = [response |-> st.response, reward |-> st.reward, tensor |-> st.tensor]
  BY DEF Stage
<1> HIDE DEF st
<1>3. CASE c.op = "put response"
  <2>1. c.value \in Text /\ st.response = None /\ st.reward = None /\ st.tensor = None
    BY <1>1, <1>3 DEF CallFits, st
  <2>2. Slot(c) = st.response
    BY <1>3 DEF Slot, st
  <2>3. Linked(c) = [response |-> c.value, reward |-> None, tensor |-> None]
    BY <1>2, <1>3, <2>1 DEF Linked, st
  <2>4. ~Conflict(c)
    BY <2>1, <2>2 DEF Conflict
  <2>5. Linked(c) \in Stage /\ Chained(Linked(c)) /\ Linked(c).response # None
    BY <2>1, <2>3, NoneFacts DEF Stage, Chained
  <2>6. Stages(c).tensor = None /\ Stages(c).response = None
    BY <2>1 DEF st
  <2> QED
    BY <1>3, <2>4, <2>5, <2>6
<1>4. CASE c.op = "put reward"
  <2>1. /\ c.value \in Score /\ c.value.response = st.response /\ st.reward = None /\ st.tensor = None
    BY <1>1, <1>4 DEF CallFits, st
  <2>2. st.response # None
    BY <2>1, NoneFacts DEF Score
  <2>3. Slot(c) = st.reward
    BY <1>4 DEF Slot, st
  <2>4. Linked(c) = [response |-> st.response, reward |-> c.value, tensor |-> None]
    BY <1>2, <1>4, <2>1 DEF Linked, st
  <2>5. ~Conflict(c)
    BY <2>1, <2>3 DEF Conflict
  <2>6. Linked(c) \in Stage /\ Chained(Linked(c))
    BY <1>1, <2>1, <2>2, <2>4 DEF Stage, Chained
  <2>7. Linked(c).response # None /\ Linked(c).reward # None
    BY <2>1, <2>2, <2>4, NoneFacts
  <2>8. Stages(c).tensor = None
    BY <2>1 DEF st
  <2> QED
    BY <1>4, <2>5, <2>6, <2>7, <2>8
<1>5. CASE c.op = "persist"
  <2>1. st.response # None /\ st.reward # None /\ c.value = Tensor(st.response, st.reward)
    BY <1>5 DEF CallFits, st
  <2>2. c.value \in Built
    BY <1>1, <2>1 DEF Tensor, Built
  <2>3. st.tensor # None => st.tensor = c.value
    BY <2>1 DEF Chained, st
  <2>4. Slot(c) = st.tensor
    BY <1>5 DEF Slot, st
  <2>5. Linked(c) = [response |-> st.response, reward |-> st.reward, tensor |-> c.value]
    BY <1>2, <1>5 DEF Linked, st
  <2>6. Linked(c) \in Stage /\ Chained(Linked(c))
    BY <1>1, <2>1, <2>2, <2>5 DEF Stage, Chained, st
  <2>7. st.tensor # None => Linked(c) = st
    BY <1>2, <2>3, <2>5
  <2>8. ~Conflict(c)
    BY <2>3, <2>4 DEF Conflict
  <2>9. Linked(c).response # None /\ Linked(c).reward # None /\ Linked(c).tensor # None
    BY <2>1, <2>2, <2>5, NoneFacts
  <2> QED
    BY <1>5, <2>6, <2>7, <2>8, <2>9 DEF st
<1> QED
  BY <1>3, <1>4, <1>5 DEF Puts

(* What a call that ends leaves on the disk *)
LEMMA DiskStep ==
    ASSUME Workflow, NEW i \in DOMAIN pool, RunCall(i)
    PROVE  LET c == pool[i]
           IN  /\ i = 1 /\ disk' \in [Sample -> [Attempt -> Stage]] /\ DiskInv'
               /\ disk'[c.sample][c.attempt] = IF c.op \in Puts THEN Linked(c) ELSE Stages(c)
               /\ \A t \in Sample : t # c.sample => disk'[t] = disk[t]
               /\ \A b \in Attempt : b # c.attempt => disk'[c.sample][b] = disk[c.sample][b]
<1> DEFINE c == pool[i]
           s == c.sample
           a == c.attempt
<1>1. /\ c \in Call /\ s \in Sample /\ a \in Attempt /\ CallFits(c, Stages(c))
      /\ Stages(c) \in Stage /\ Chained(Stages(c))
      /\ c.started => i = 1
  BY CallFacts, StageFacts DEF Stages
<1>2. c.started \/ i = 1
  BY DEF RunCall, Takes
<1>3. disk' = IF c.op \in Puts /\ ~(Conflict(c) \/ (c.op = "accept" /\ Refused(c)))
              THEN [disk EXCEPT ![s][a] = Linked(c)] ELSE disk
  BY DEF RunCall
<1>4. Stages(c) = disk[s][a]
  BY DEF Stages
<1>5. disk \in [Sample -> [Attempt -> Stage]] /\ DiskInv
  BY DEF Workflow
<1> HIDE DEF c, s, a
<1>6. i = 1
  BY <1>1, <1>2
<1>7. ASSUME c.op \in Puts
      PROVE  ~Conflict(c) /\ c.op # "accept" /\ Linked(c) \in Stage /\ Chained(Linked(c))
  <2>1. ~Conflict(c) /\ Linked(c) \in Stage /\ Chained(Linked(c))
    BY <1>1, <1>7, LinkFacts
  <2> QED
    BY <1>7, <2>1 DEF Puts
<1>8. CASE c.op \in Puts
  <2>1. disk' = [disk EXCEPT ![s] = [disk[s] EXCEPT ![a] = Linked(c)]]
    BY <1>3, <1>7, <1>8
  <2>2. [disk[s] EXCEPT ![a] = Linked(c)] \in [Attempt -> Stage]
    BY <1>1, <1>5, <1>7, <1>8
  <2>3. /\ disk' \in [Sample -> [Attempt -> Stage]]
        /\ \A t \in Sample : t # s => disk'[t] = disk[t]
        /\ disk'[s] = [disk[s] EXCEPT ![a] = Linked(c)]
    BY <1>1, <1>5, <2>1, <2>2
  <2>4. /\ disk'[s][a] = Linked(c)
        /\ \A b \in Attempt : b # a => disk'[s][b] = disk[s][b]
    BY <1>1, <1>5, <2>3
  <2>5. DiskInv'
    BY <1>5, <1>7, <1>8, <2>3, <2>4 DEF DiskInv
  <2> QED
    BY <1>6, <1>8, <2>3, <2>4, <2>5 DEF c, s, a
<1>9. CASE c.op \notin Puts
  <2>1. disk' = disk
    BY <1>3, <1>9
  <2> QED
    BY <1>4, <1>5, <1>6, <1>9, <2>1 DEF c, s, a, DiskInv
<1> QED
  BY <1>8, <1>9

(* An episode that has been answered knows what is published. *)
LEMMA Answered ==
    ASSUME NEW e \in Episodes, NEW st \in Stage, NEW new \in Stage, EpisodeFits(e, st),
           e.pc \in Op, e.ready = FALSE, e.pc \notin Puts => new = st,
           st.response # None => new.response # None,
           e.pc = "put response" => new.response # None,
           e.pc = "put reward" => new.response # None /\ new.reward # None,
           e.pc = "persist" => new.response # None /\ new.reward # None /\ new.tensor # None
    PROVE  EpisodeFits([e EXCEPT !.ready = TRUE, !.got = new], new)
<1> DEFINE d == [e EXCEPT !.ready = TRUE, !.got = new]
<1>1. d.pc = e.pc /\ d.ready = TRUE /\ d.got = new /\ d.attempt = e.attempt
  BY DEF Episodes
<1>2. e.pc \notin {"idle", "engine", "scorer"}
  BY DEF Op
<1>3. e.pc \in {"find reward", "find both", "load tensor", "accept"} => e.got = st /\ new = st
  BY DEF EpisodeFits, Past, Puts
<1> HIDE DEF d
<1>4. d.attempt # None
  BY <1>1, <1>2 DEF EpisodeFits
<1>5. d.pc \in {"find reward", "scorer", "put reward", "find both", "persist"} => d.got.response # None
  BY <1>1, <1>2, <1>3 DEF EpisodeFits
<1>6. d.pc \in {"find both", "persist"} => d.got.reward # None
  BY <1>1, <1>3 DEF EpisodeFits
<1>7. d.pc \in {"load tensor", "accept"} => d.got.tensor # None
  BY <1>1, <1>3 DEF EpisodeFits
<1> QED
  BY <1>1, <1>2, <1>4, <1>5, <1>6, <1>7 DEF EpisodeFits, d

LEMMA StepRun ==
    ASSUME Workflow, NEW i \in DOMAIN pool, RunCall(i)
    PROVE  Workflow'
<1> DEFINE c == pool[i]
           s == c.sample
           a == c.attempt
           e == ep[s]
           new == disk'[s][a]
<1>1. /\ c \in Call /\ s \in Sample /\ a \in Attempt /\ c.op \in Op
      /\ CallFits(c, Stages(c)) /\ OwnedBy(c, e) /\ Stages(c) \in Stage /\ Chained(Stages(c))
      /\ e \in Episodes /\ EpisodeFits(e, disk[s][e.attempt])
  BY CallFacts, StageFacts DEF Stages
<1>2. /\ disk' \in [Sample -> [Attempt -> Stage]] /\ DiskInv' /\ i = 1
      /\ new = IF c.op \in Puts THEN Linked(c) ELSE Stages(c)
      /\ \A t \in Sample : t # s => disk'[t] = disk[t]
      /\ \A b \in Attempt : b # a => disk'[s][b] = disk[s][b]
  BY DiskStep
<1>3. /\ pool' = RemoveAt(pool, i)
      /\ ep' = IF c.orphan THEN ep
               ELSE [ep EXCEPT ![s] = IF Conflict(c) \/ (c.op = "accept" /\ Refused(c)) THEN Idle
                                      ELSE [e EXCEPT !.ready = TRUE, !.got = new]]
  <2>1. ep' = IF c.orphan THEN ep
              ELSE [ep EXCEPT ![s] = IF Conflict(c) \/ (c.op = "accept" /\ Refused(c)) THEN Idle
                                     ELSE [@ EXCEPT !.ready = TRUE, !.got = new]]
    BY DEF RunCall
  <2>2. pool' = RemoveAt(pool, i)
    BY DEF RunCall
  <2> QED
    BY <2>1, <2>2
<1>4. Stages(c) = disk[s][a] /\ ep \in [Sample -> Episodes]
  BY DEF Stages, Workflow
<1>5. ASSUME NEW k \in DOMAIN pool \ {i}
      PROVE  /\ pool[k].sample = s => c.orphan /\ pool[k].op = "load"
             /\ OwnedBy(pool[k], ep[pool[k].sample]) /\ pool[k].sample \in Sample
             /\ CallFits(pool[k], disk[pool[k].sample][pool[k].attempt]) /\ ~pool[k].orphan
  <2>1. /\ OwnedBy(pool[k], ep[pool[k].sample]) /\ pool[k].sample \in Sample /\ pool[k].op \in Op
        /\ CallFits(pool[k], disk[pool[k].sample][pool[k].attempt])
    BY CallFacts DEF Stages
  <2>2. ~pool[k].orphan
    BY <1>2, CallFacts
  <2>3. pool[k].sample = s => c.orphan
    BY <2>2 DEF Workflow, PoolInv
  <2>4. pool[k].sample = s => pool[k].op = "load"
    BY <1>1, <2>1, <2>2, <2>3 DEF OwnedBy, Op
  <2> QED
    BY <2>1, <2>2, <2>3, <2>4
<1> HIDE DEF c, s, a, e, new
<1>6. /\ new \in Stage
      /\ c.op \notin Puts => new = Stages(c)
      /\ Stages(c).response # None => new.response # None
      /\ c.op = "put response" => new.response # None
      /\ c.op = "put reward" => new.reward # None
      /\ c.op = "persist" => new.reward # None /\ new.tensor # None
  <2>1. CASE c.op \in Puts
    <3>1. new = Linked(c)
      BY <1>2, <2>1
    <3> QED
      BY <1>1, <2>1, <3>1, LinkFacts
  <2>2. CASE c.op \notin Puts
    <3>1. new = Stages(c)
      BY <1>2, <2>2
    <3> QED
      BY <1>1, <2>2, <3>1 DEF Puts
  <2> QED
    BY <2>1, <2>2
<1>7. ASSUME NEW x \in Episodes, ep' = [ep EXCEPT ![s] = x], EpisodeFits(x, disk'[s][x.attempt])
      PROVE  ep' \in [Sample -> Episodes] /\ EpisodeInv' /\ \A t \in Sample : t # s => ep'[t] = ep[t]
  <2>1. ep' \in [Sample -> Episodes] /\ ep'[s] = x /\ \A t \in Sample : t # s => ep'[t] = ep[t]
    BY <1>1, <1>4, <1>7
  <2>2. ASSUME NEW t \in Sample
        PROVE  EpisodeFits(ep'[t], disk'[t][ep'[t].attempt])
    BY <1>2, <1>7, <2>1, StageFacts
  <2> QED
    BY <2>1, <2>2 DEF EpisodeInv
<1>8. ASSUME ~c.orphan
      PROVE  ep' \in [Sample -> Episodes] /\ EpisodeInv' /\ \A t \in Sample : t # s => ep'[t] = ep[t]
  <2>1. e.pc = c.op /\ e.ready = FALSE /\ e.attempt = a
    BY <1>1, <1>8 DEF OwnedBy, a, Episodes
  <2>2. CASE Conflict(c) \/ (c.op = "accept" /\ Refused(c))
    BY <1>3, <1>7, <1>8, <2>2, Empties
  <2>3. CASE ~(Conflict(c) \/ (c.op = "accept" /\ Refused(c)))
    <3> DEFINE d == [e EXCEPT !.ready = TRUE, !.got = new]
    <3>1. d \in Episodes /\ d.attempt = a
      BY <1>1, <1>6, <2>1 DEF Episodes
    <3>2. EpisodeFits(d, new)
      <4>1. e.pc \in {"put reward", "persist"} => Stages(c).response # None
        BY <1>1, <2>1, NoneFacts DEF CallFits, Score
      <4>2. EpisodeFits(e, Stages(c))
        BY <1>1, <1>4, <2>1
      <4>3. e.pc = "put reward" => new.response # None /\ new.reward # None
        BY <1>6, <2>1, <4>1
      <4>4. e.pc = "persist" => new.response # None /\ new.reward # None /\ new.tensor # None
        BY <1>6, <2>1, <4>1
      <4> QED
        BY <1>1, <1>6, <2>1, <4>2, <4>3, <4>4, Answered
    <3>3. ep' = [ep EXCEPT ![s] = d]
      BY <1>3, <1>8, <2>3
    <3> HIDE DEF d
    <3>4. EpisodeFits(d, disk'[s][d.attempt])
      BY <3>1, <3>2 DEF new
    <3> QED
      BY <1>7, <3>1, <3>3, <3>4
  <2> QED
    BY <2>2, <2>3
<1>9. ASSUME c.orphan
      PROVE  ep' = ep /\ ep' \in [Sample -> Episodes] /\ EpisodeInv'
  <2>1. ep' = ep
    BY <1>3, <1>9
  <2>2. e.pc = "idle" \/ (e.pc = "load" /\ ~e.ready)
    BY <1>1, <1>9 DEF OwnedBy
  <2>3. \A st : EpisodeFits(e, st)
    BY <1>1, <2>2 DEF EpisodeFits, Past
  <2>4. ASSUME NEW t \in Sample
        PROVE  EpisodeFits(ep[t], disk'[t][ep[t].attempt])
    BY <1>2, <2>3, StageFacts DEF e
  <2> QED
    BY <1>4, <2>1, <2>4 DEF EpisodeInv
<1>10. ASSUME NEW k \in DOMAIN pool \ {i}
       PROVE  /\ OwnedBy(pool[k], ep'[pool[k].sample])
              /\ CallFits(pool[k], disk'[pool[k].sample][pool[k].attempt])
  <2>1. CASE pool[k].sample = s
    <3>1. ep' = ep /\ pool[k].op = "load"
      BY <1>5, <1>9, <2>1
    <3> QED
      BY <1>5, <3>1 DEF CallFits
  <2>2. CASE pool[k].sample # s
    <3>1. ep'[pool[k].sample] = ep[pool[k].sample]
      BY <1>5, <1>8, <1>9, <2>2
    <3> QED
      BY <1>2, <1>5, <2>2, <3>1
  <2> QED
    BY <2>1, <2>2
<1>11. pool' \in Seq(Call) /\ PoolInv' /\ CallInv'
  BY <1>3, <1>10, PoolShrinks
<1> QED
  BY <1>2, <1>8, <1>9, <1>11 DEF Workflow

(* An episode that goes on from a call has no other and has seen what is published. *)
LEMMA ResumeFacts ==
    ASSUME Workflow, NEW s \in Sample,
           ep[s].pc \in {"engine", "scorer"} \/ (ep[s].ready /\ ep[s].pc # "idle")
    PROVE  /\ Uncalled(s) /\ ep[s] \in Episodes /\ ep[s].attempt \in Attempt
           /\ ep[s].got = disk[s][ep[s].attempt] /\ ep[s].got \in Stage /\ Chained(ep[s].got)
           /\ EpisodeFits(ep[s], ep[s].got)
<1>1. Uncalled(s)
  BY NotCalled
<1>2. ep[s] \in Episodes /\ EpisodeFits(ep[s], disk[s][ep[s].attempt])
  BY StageFacts
<1>3. ep[s].attempt \in Attempt /\ ep[s].got = disk[s][ep[s].attempt]
  BY <1>2 DEF EpisodeFits, Past, Episodes
<1> QED
  BY <1>1, <1>2, <1>3, StageFacts

LEMMA StepBegin ==
    ASSUME Workflow, NEW s \in Sample, Begin(s), allowed[s] \in Attempt
    PROVE  Workflow'
<1> DEFINE e == [Idle EXCEPT !.attempt = allowed[s]]
<1>1. e \in Episodes /\ e.attempt = allowed[s]
  BY Empties, NoneFacts DEF Idle, Episodes
<1>2. EpisodeFits([e EXCEPT !.pc = "load", !.ready = FALSE], disk[s][e.attempt])
  BY NoneFacts DEF Idle, EpisodeFits, Past
<1>3. Uncalled(s) \/ (Unowned(s) /\ "load" = "load")
  BY NotCalled DEF Begin, Op
<1>4. \A c \in Call : c.op = "load" /\ c.value = None => CallFits(c, disk[s][e.attempt])
  BY DEF CallFits
<1>5. Await(s, e, "load", None) /\ UNCHANGED disk
  BY DEF Begin
<1>6. Awaits(s, e, "load", None, disk[s][e.attempt])
  BY <1>1, <1>2, <1>3, <1>4 DEF Awaits, Op, Begin
<1> HIDE DEF e
<1> QED
  BY <1>5, <1>6, StepAwait

LEMMA StepLoaded ==
    ASSUME Workflow, NEW s \in Sample, Loaded(s) \/ LoadedTensor(s), UNCHANGED disk
    PROVE  Workflow'
<1> DEFINE e == ep[s]
<1>1. e.pc \in {"load", "load tensor"} /\ e.ready
  BY DEF Loaded, LoadedTensor, Resumes
<1>2. /\ Uncalled(s) /\ e \in Episodes /\ e.attempt \in Attempt
      /\ e.got = disk[s][e.attempt] /\ e.got \in Stage /\ Chained(e.got) /\ EpisodeFits(e, e.got)
  BY <1>1, ResumeFacts
<1>3. /\ e.got.response \in Text \union {None} /\ e.got.tensor \in Built \union {None}
  BY <1>2 DEF Stage
<1>4. ASSUME Loaded(s), e.got.tensor # None
      PROVE  Workflow'
  <2>1. Await(s, e, "load tensor", None)
    BY <1>4 DEF Loaded
  <2>2. EpisodeFits([e EXCEPT !.pc = "load tensor", !.ready = FALSE], e.got)
    BY <1>2, <1>4, NoneFacts DEF EpisodeFits, Past, Episodes
  <2>3. \A c \in Call : c.op = "load tensor" => CallFits(c, e.got)
    BY DEF CallFits
  <2>4. Awaits(s, e, "load tensor", None, disk[s][e.attempt])
    BY <1>2, <2>2, <2>3 DEF Awaits, Op
  <2> HIDE DEF e
  <2> QED
    BY <2>1, <2>4, StepAwait
<1>5. ASSUME Loaded(s), e.got.tensor = None
      PROVE  Workflow'
  <2>1. Await(s, e, "find response", None)
    BY <1>5 DEF Loaded
  <2>2. EpisodeFits([e EXCEPT !.pc = "find response", !.ready = FALSE], e.got)
    BY <1>2, NoneFacts DEF EpisodeFits, Past, Episodes
  <2>3. \A c \in Call : c.op = "find response" => CallFits(c, e.got)
    BY DEF CallFits
  <2>4. Awaits(s, e, "find response", None, disk[s][e.attempt])
    BY <1>2, <2>2, <2>3 DEF Awaits, Op
  <2> HIDE DEF e
  <2> QED
    BY <2>1, <2>4, StepAwait
<1>6. ASSUME LoadedTensor(s)
      PROVE  Workflow'
  <2>1. Await(s, e, "accept", e.got) /\ e.pc = "load tensor"
    BY <1>2, <1>6 DEF LoadedTensor, Resumes
  <2>2. e.got.tensor # None
    BY <1>2, <2>1 DEF EpisodeFits
  <2>3. EpisodeFits([e EXCEPT !.pc = "accept", !.ready = FALSE], e.got)
    BY <1>2, <2>2, NoneFacts DEF EpisodeFits, Past, Episodes
  <2>4. \A c \in Call : c.op = "accept" /\ c.value = e.got => CallFits(c, e.got)
    BY <2>2 DEF CallFits
  <2>5. Awaits(s, e, "accept", e.got, disk[s][e.attempt])
    BY <1>2, <2>3, <2>4 DEF Awaits, Op
  <2> HIDE DEF e
  <2> QED
    BY <2>1, <2>5, StepAwait
<1> QED
  BY <1>4, <1>5, <1>6

(* An episode that ends without having returned *)
LEMMA StepRaise ==
    ASSUME Workflow, NEW s \in Sample, Uncalled(s), UNCHANGED <<disk, pool>>, Raise(s)
    PROVE  Workflow'
BY StepAlone, Empties DEF Raise

(* An episode, now e, that has seen what is published and gives nothing to publish *)
LEMMA StepRead ==
    ASSUME Workflow, UNCHANGED disk, NEW s \in Sample, NEW e \in Episodes,
           NEW op \in Op \ (Puts \union {"accept"}), Uncalled(s), e.attempt \in Attempt,
           EpisodeFits([e EXCEPT !.pc = op, !.ready = FALSE], disk[s][e.attempt]),
           Await(s, e, op, None)
    PROVE  Workflow'
<1>1. \A c \in Call : c.op = op => CallFits(c, disk[s][e.attempt])
  BY DEF CallFits, Puts
<1>2. Awaits(s, e, op, None, disk[s][e.attempt])
  BY <1>1 DEF Awaits
<1> QED
  BY <1>2, StepAwait

LEMMA StepFoundResponse ==
    ASSUME Workflow, NEW s \in Sample, FoundResponse(s), UNCHANGED disk
    PROVE  Workflow'
<1> DEFINE e == ep[s]
           st == e.got
<1>1. e.pc = "find response" /\ e.ready
  BY DEF FoundResponse, Resumes
<1>2. /\ Uncalled(s) /\ e \in Episodes /\ e.attempt \in Attempt
      /\ st = disk[s][e.attempt] /\ st \in Stage /\ Chained(st) /\ EpisodeFits(e, st)
  BY <1>1, ResumeFacts
<1>3. st.response \in Text \union {None}
  BY <1>2 DEF Stage
<1>4. ASSUME st.response # None
      PROVE  Workflow'
  <2> DEFINE d == [e EXCEPT !.response = st.response]
  <2>1. Await(s, d, "find reward", None)
    BY <1>4 DEF FoundResponse
  <2>2. d \in Episodes /\ d.attempt = e.attempt
    BY <1>2, <1>3 DEF Episodes
  <2>3. EpisodeFits([d EXCEPT !.pc = "find reward", !.ready = FALSE], st)
    BY <1>2, <1>4, NoneFacts DEF EpisodeFits, Past, Episodes
  <2>4. "find reward" \in Op \ (Puts \union {"accept"})
    BY DEF Op, Puts
  <2> HIDE DEF e, d
  <2> QED
    BY <1>2, <2>1, <2>2, <2>3, <2>4, StepRead
<1>5. ASSUME st.response = None
      PROVE  Workflow'
  <2>1. /\ pool' = pool
        /\ \/ ep' = [ep EXCEPT ![s].pc = "engine", ![s].ready = FALSE]
           \/ Raise(s)
    BY <1>5 DEF FoundResponse
  <2> DEFINE d == [e EXCEPT !.pc = "engine", !.ready = FALSE]
  <2>2. ASSUME ep' = [ep EXCEPT ![s].pc = "engine", ![s].ready = FALSE]
        PROVE  Workflow'
    <3>1. ep' = [ep EXCEPT ![s] = d]
      BY <2>2 DEF Workflow
    <3>2. d \in Episodes /\ d.attempt = e.attempt
      BY <1>2 DEF Episodes
    <3>3. EpisodeFits(d, st)
      BY <1>2, <1>5, NoneFacts DEF EpisodeFits, Past, Episodes
    <3> HIDE DEF d
    <3> QED
      BY <1>2, <2>1, <3>1, <3>2, <3>3, StepAlone
  <2> QED
    BY <1>2, <2>1, <2>2, StepRaise
<1> QED
  BY <1>4, <1>5

LEMMA StepGenerated ==
    ASSUME Workflow, NEW s \in Sample, Generated(s), UNCHANGED disk
    PROVE  Workflow'
<1> DEFINE e == ep[s]
           st == e.got
<1>1. e.pc = "engine"
  BY DEF Generated
<1>2. /\ Uncalled(s) /\ e \in Episodes /\ e.attempt \in Attempt
      /\ st = disk[s][e.attempt] /\ st \in Stage /\ Chained(st) /\ EpisodeFits(e, st)
  BY <1>1, ResumeFacts
<1>3. st.response = None
  BY <1>1, <1>2 DEF EpisodeFits
<1>4. ASSUME NEW t \in Text, Await(s, [e EXCEPT !.response = t], "put response", t)
      PROVE  Workflow'
  <2> DEFINE d == [e EXCEPT !.response = t]
  <2>1. d \in Episodes /\ d.attempt = e.attempt
    BY <1>2 DEF Episodes
  <2>2. EpisodeFits([d EXCEPT !.pc = "put response", !.ready = FALSE], st)
    BY <1>2, <1>3, NoneFacts DEF EpisodeFits, Past, Episodes
  <2>3. \A c \in Call : c.op = "put response" /\ c.value = t => CallFits(c, st)
    BY <1>3 DEF CallFits
  <2>4. Await(s, d, "put response", t)
    BY <1>4
  <2> HIDE DEF d, e
  <2>5. Awaits(s, d, "put response", t, disk[s][d.attempt])
    BY <1>2, <2>1, <2>2, <2>3 DEF Awaits, Op
  <2> QED
    BY <2>4, <2>5, StepAwait
<1> QED
  BY <1>2, <1>4, StepRaise DEF Generated

LEMMA StepPut ==
    ASSUME Workflow, NEW s \in Sample, PutResponse(s) \/ PutReward(s), UNCHANGED disk
    PROVE  Workflow'
<1> DEFINE e == ep[s]
<1>1. \/ e.pc = "put response" /\ e.ready /\ Await(s, e, "find reward", None)
      \/ e.pc = "put reward" /\ e.ready /\ Await(s, e, "find both", None)
  BY DEF PutResponse, PutReward, Resumes
<1>2. /\ Uncalled(s) /\ e \in Episodes /\ e.attempt \in Attempt
      /\ e.got = disk[s][e.attempt] /\ e.got \in Stage /\ Chained(e.got) /\ EpisodeFits(e, e.got)
  BY <1>1, ResumeFacts
<1>3. \A op \in {"find reward", "find both"} : op \in Op \ (Puts \union {"accept"})
  BY DEF Op, Puts
<1>4. ASSUME e.pc = "put response", e.ready, Await(s, e, "find reward", None)
      PROVE  Workflow'
  <2>1. EpisodeFits([e EXCEPT !.pc = "find reward", !.ready = FALSE], e.got)
    BY <1>2, <1>4, NoneFacts DEF EpisodeFits, Past, Episodes
  <2> HIDE DEF e
  <2> QED
    BY <1>2, <1>3, <1>4, <2>1, StepRead
<1>5. ASSUME e.pc = "put reward", e.ready, Await(s, e, "find both", None)
      PROVE  Workflow'
  <2>1. EpisodeFits([e EXCEPT !.pc = "find both", !.ready = FALSE], e.got)
    BY <1>2, <1>5, NoneFacts DEF EpisodeFits, Past, Episodes
  <2> HIDE DEF e
  <2> QED
    BY <1>2, <1>3, <1>5, <2>1, StepRead
<1> QED
  BY <1>1, <1>4, <1>5

LEMMA StepFoundReward ==
    ASSUME Workflow, NEW s \in Sample, FoundReward(s), UNCHANGED disk
    PROVE  Workflow'
<1> DEFINE e == ep[s]
           st == e.got
<1>1. e.pc = "find reward" /\ e.ready
  BY DEF FoundReward, Resumes
<1>2. /\ Uncalled(s) /\ e \in Episodes /\ e.attempt \in Attempt
      /\ st = disk[s][e.attempt] /\ st \in Stage /\ Chained(st) /\ EpisodeFits(e, st)
  BY <1>1, ResumeFacts
<1>3. st.response # None /\ (st.reward # None => st.reward.score \in {0, 1})
  <2>1. st.reward # None => st.reward \in Score
    BY <1>2, StageOrder
  <2>2. st.response # None
    BY <1>1, <1>2 DEF EpisodeFits
  <2>3. \A r \in Score : r.score \in {0, 1}
    BY DEF Score
  <2> QED
    BY <2>1, <2>2, <2>3
<1>4. ASSUME st.reward # None, Chained(st)
      PROVE  Workflow'
  <2> DEFINE d == [e EXCEPT !.score = st.reward.score]
  <2>1. Await(s, d, "find both", None)
    BY <1>4 DEF FoundReward
  <2>2. d \in Episodes /\ d.attempt = e.attempt
    BY <1>2, <1>3, <1>4 DEF Episodes
  <2>3. EpisodeFits([d EXCEPT !.pc = "find both", !.ready = FALSE], st)
    BY <1>2, <1>3, <1>4, NoneFacts DEF EpisodeFits, Past, Episodes
  <2>4. "find both" \in Op \ (Puts \union {"accept"})
    BY DEF Op, Puts
  <2> HIDE DEF e, d
  <2> QED
    BY <1>2, <2>1, <2>2, <2>3, <2>4, StepRead
<1>5. ASSUME st.reward = None
      PROVE  Workflow'
  <2>1. /\ pool' = pool
        /\ \/ ep' = [ep EXCEPT ![s].pc = "scorer", ![s].ready = FALSE]
           \/ Raise(s)
    BY <1>5 DEF FoundReward
  <2> DEFINE d == [e EXCEPT !.pc = "scorer", !.ready = FALSE]
  <2>2. ASSUME ep' = [ep EXCEPT ![s].pc = "scorer", ![s].ready = FALSE]
        PROVE  Workflow'
    <3>1. ep' = [ep EXCEPT ![s] = d]
      BY <2>2 DEF Workflow
    <3>2. d \in Episodes /\ d.attempt = e.attempt
      BY <1>2 DEF Episodes
    <3>3. EpisodeFits(d, st)
      BY <1>2, <1>3, <1>5, NoneFacts DEF EpisodeFits, Past, Episodes
    <3> HIDE DEF d
    <3> QED
      BY <1>2, <2>1, <3>1, <3>2, <3>3, StepAlone
  <2> QED
    BY <1>2, <2>1, <2>2, StepRaise
<1> QED
  BY <1>2, <1>4, <1>5

LEMMA StepScored ==
    ASSUME Workflow, NEW s \in Sample, Scored(s), UNCHANGED disk
    PROVE  Workflow'
<1> DEFINE e == ep[s]
           st == e.got
<1>1. e.pc = "scorer"
  BY DEF Scored
<1>2. /\ Uncalled(s) /\ e \in Episodes /\ e.attempt \in Attempt
      /\ st = disk[s][e.attempt] /\ st \in Stage /\ Chained(st) /\ EpisodeFits(e, st)
  BY <1>1, ResumeFacts
<1>3. st.reward = None /\ st.response # None /\ st.response \in Text
  BY <1>1, <1>2 DEF EpisodeFits, Stage
<1>4. ASSUME NEW v \in 0 .. 1,
             Await(s, [e EXCEPT !.score = v], "put reward", [response |-> st.response, score |-> v])
      PROVE  Workflow'
  <2> DEFINE d == [e EXCEPT !.score = v]
             reward == [response |-> st.response, score |-> v]
  <2>1. d \in Episodes /\ d.attempt = e.attempt
    BY <1>2 DEF Episodes
  <2>2. EpisodeFits([d EXCEPT !.pc = "put reward", !.ready = FALSE], st)
    BY <1>2, <1>3, NoneFacts DEF EpisodeFits, Past, Episodes
  <2>3. reward \in Score /\ reward.response = st.response
    BY <1>3 DEF Score
  <2>4. Await(s, d, "put reward", reward)
    BY <1>4
  <2> HIDE DEF reward
  <2>5. \A c \in Call : c.op = "put reward" /\ c.value = reward => CallFits(c, st)
    BY <1>3, <2>3 DEF CallFits
  <2> HIDE DEF d, e
  <2>6. Awaits(s, d, "put reward", reward, disk[s][d.attempt])
    BY <1>2, <2>1, <2>2, <2>3, <2>5 DEF Awaits, Op
  <2> QED
    BY <2>4, <2>6, StepAwait
<1> QED
  BY <1>2, <1>4, StepRaise DEF Scored

LEMMA StepFoundBoth ==
    ASSUME Workflow, NEW s \in Sample, FoundBoth(s), UNCHANGED disk
    PROVE  Workflow'
<1> DEFINE e == ep[s]
           st == e.got
           built == Tensor(st.response, st.reward)
<1>1. e.pc = "find both" /\ e.ready
  BY DEF FoundBoth, Resumes
<1>2. /\ Uncalled(s) /\ e \in Episodes /\ e.attempt \in Attempt
      /\ st = disk[s][e.attempt] /\ st \in Stage /\ Chained(st) /\ EpisodeFits(e, st)
  BY <1>1, ResumeFacts
<1>3. st.response # None /\ st.reward # None
  BY <1>1, <1>2 DEF EpisodeFits
<1>4. built \in Built
  BY <1>2, <1>3, StageOrder DEF Built, Tensor
<1>5. ASSUME Await(s, e, "persist", built)
      PROVE  Workflow'
  <2>1. EpisodeFits([e EXCEPT !.pc = "persist", !.ready = FALSE], st)
    BY <1>2, <1>3, NoneFacts DEF EpisodeFits, Past, Episodes
  <2>2. \A c \in Call : c.op = "persist" /\ c.value = built => CallFits(c, st)
    BY <1>3 DEF CallFits
  <2> HIDE DEF e, built
  <2>3. Awaits(s, e, "persist", built, disk[s][e.attempt])
    BY <1>2, <1>4, <2>1, <2>2 DEF Awaits, Op
  <2> QED
    BY <1>5, <2>3, StepAwait
<1> QED
  BY <1>2, <1>5, StepRaise DEF FoundBoth

LEMMA StepPersisted ==
    ASSUME Workflow, NEW s \in Sample, Persisted(s), UNCHANGED disk
    PROVE  Workflow'
<1> DEFINE e == ep[s]
<1>1. e.pc = "persist" /\ e.ready /\ Await(s, e, "accept", e.got)
  BY DEF Persisted, Resumes
<1>2. /\ Uncalled(s) /\ e \in Episodes /\ e.attempt \in Attempt
      /\ e.got = disk[s][e.attempt] /\ e.got \in Stage /\ Chained(e.got) /\ EpisodeFits(e, e.got)
  BY <1>1, ResumeFacts
<1>3. e.got.tensor # None
  BY <1>1, <1>2 DEF EpisodeFits
<1>4. EpisodeFits([e EXCEPT !.pc = "accept", !.ready = FALSE], e.got)
  BY <1>2, <1>3, NoneFacts DEF EpisodeFits, Past, Episodes
<1>5. \A c \in Call : c.op = "accept" /\ c.value = e.got => CallFits(c, e.got)
  BY <1>3 DEF CallFits
<1> HIDE DEF e
<1>6. Awaits(s, e, "accept", e.got, disk[s][e.attempt])
  BY <1>2, <1>4, <1>5 DEF Awaits, Op
<1> QED
  BY <1>1, <1>6, StepAwait

LEMMA StepReturn ==
    ASSUME Workflow, NEW s \in Sample, Return(s)
    PROVE  Workflow'
<1>1. Uncalled(s)
  BY NotCalled DEF Return, Resumes
<1> QED
  BY <1>1, StepRaise DEF Return

LEMMA StepTakeover ==
    ASSUME Workflow, Takeover
    PROVE  Workflow'
<1>1. ep' = [s \in Sample |-> Idle] /\ pool' = <<>> /\ UNCHANGED disk
  BY DEF Takeover
<1>2. pool' \in Seq(Call) /\ DOMAIN pool' = {}
  BY <1>1
<1>3. PoolInv' /\ CallInv'
  BY <1>2 DEF PoolInv, CallInv
<1>4. ep' \in [Sample -> Episodes] /\ EpisodeInv'
  BY <1>1, Empties DEF EpisodeInv
<1> QED
  BY <1>1, <1>2, <1>3, <1>4 DEF Workflow, DiskInv

LEMMA WorkflowStep ==
    ASSUME TypeOK, Workflow, [Next]_vars
    PROVE  Workflow'
<1>1. ASSUME UNCHANGED <<disk, ep, pool>>
      PROVE  Workflow'
  BY <1>1 DEF Workflow, PoolInv, EpisodeInv, CallInv, DiskInv, Stages
<1>2. ASSUME NEW s \in Sample, Authorize(s) \/ Supersede(s)
      PROVE  Workflow'
  BY <1>1, <1>2 DEF Authorize, Supersede
<1>3. ASSUME NEW s \in Sample, Begin(s)
      PROVE  Workflow'
  BY <1>3, StepBegin DEF TypeOK, Begin
<1>4. ASSUME NEW s \in Sample, Resume(s)
      PROVE  Workflow'
  BY <1>4, StepLoaded, StepFoundResponse, StepGenerated, StepPut, StepFoundReward, StepScored,
     StepFoundBoth, StepPersisted DEF Resume
<1>5. ASSUME NEW i \in DOMAIN pool, RefuseCall(i) \/ StartPut(i) \/ RunCall(i)
      PROVE  Workflow'
  BY <1>5, StepRefuse, StepStart, StepRun
<1>6. ASSUME NEW j \in attaching, Attach(j) \/ Deliver(j)
      PROVE  Workflow'
  BY <1>1, <1>6 DEF Attach, Deliver
<1>7. ASSUME NEW batch, BeginUpdate(batch) \/ JudgeMicrobatch(batch)
      PROVE  Workflow'
  BY <1>1, <1>7 DEF BeginUpdate, JudgeMicrobatch
<1>8. ASSUME PublishIntent
      PROVE  Workflow'
  BY <1>1, <1>8 DEF PublishIntent
<1>9. ASSUME UNCHANGED vars
      PROVE  Workflow'
  BY <1>1, <1>9 DEF vars
<1> QED
  BY <1>2, <1>3, <1>4, <1>5, <1>6, <1>7, <1>8, <1>9, StepTakeover, StepCancel, StepReturn DEF Next

-----------------------------------------------------------------------------
(* What an attempt has a tensor of does not change any more. *)
LEMMA TensorsStay ==
    ASSUME TypeOK, Workflow, [Next]_vars, NEW s \in Sample, NEW a \in Attempt,
           disk[s][a].tensor # None
    PROVE  disk'[s][a] = disk[s][a]
<1>1. ASSUME NEW i \in DOMAIN pool, RunCall(i)
      PROVE  disk'[s][a] = disk[s][a]
  <2> DEFINE c == pool[i]
  <2>1. /\ disk'[c.sample][c.attempt] = IF c.op \in Puts THEN Linked(c) ELSE Stages(c)
        /\ \A t \in Sample : t # c.sample => disk'[t] = disk[t]
        /\ \A b \in Attempt : b # c.attempt => disk'[c.sample][b] = disk[c.sample][b]
    BY <1>1, DiskStep
  <2>2. /\ c \in Call /\ CallFits(c, Stages(c)) /\ Stages(c) \in Stage /\ Chained(Stages(c))
        /\ Stages(c) = disk[c.sample][c.attempt]
    BY CallFacts, StageFacts DEF Stages
  <2> HIDE DEF c
  <2>3. CASE s = c.sample /\ a = c.attempt
    <3>1. c.op \in Puts => Linked(c) = Stages(c)
      BY <2>2, <2>3, LinkFacts
    <3> QED
      BY <2>1, <2>2, <2>3, <3>1
  <2> QED
    BY <2>1, <2>3
<1>2. CASE UNCHANGED disk
  BY <1>2
<1>3. ASSUME NEW t \in Sample,
             Authorize(t) \/ Supersede(t) \/ Cancel(t) \/ Begin(t) \/ Resume(t) \/ Return(t)
      PROVE  UNCHANGED disk
  BY <1>3 DEF Authorize, Supersede, Cancel, Begin, Resume, Return
<1>4. ASSUME NEW i \in DOMAIN pool, RefuseCall(i) \/ StartPut(i)
      PROVE  UNCHANGED disk
  BY <1>4 DEF RefuseCall, StartPut
<1>5. ASSUME NEW j \in attaching, Attach(j) \/ Deliver(j)
      PROVE  UNCHANGED disk
  BY <1>5 DEF Attach, Deliver
<1>6. ASSUME NEW batch, BeginUpdate(batch) \/ JudgeMicrobatch(batch)
      PROVE  UNCHANGED disk
  BY <1>6 DEF BeginUpdate, JudgeMicrobatch
<1>7. Takeover \/ PublishIntent \/ UNCHANGED vars => UNCHANGED disk
  BY DEF Takeover, PublishIntent, vars
<1> QED
  BY <1>1, <1>2, <1>3, <1>4, <1>5, <1>6, <1>7 DEF Next

(* Who changes the authority, and how *)
Grants(s) == /\ control.attempts[s] = None \/ control.attempts[s].id < MaxAttempt
             /\ control' = Authorized(s, Fresh(s))
Accepts(c) == /\ c.op = "accept" /\ ~Refused(c)
              /\ control' = [control EXCEPT !.accepted[c.sample] = Receipt(c)]

LEMMA ControlSteps ==
    ASSUME [Next]_vars
    PROVE  \/ UNCHANGED control
           \/ Takeover
           \/ \E s \in Sample : Grants(s) /\ UNCHANGED <<disk, rows, intent, returned>>
           \/ \E i \in DOMAIN pool : RunCall(i) /\ Accepts(pool[i])
<1>1. ASSUME NEW s \in Sample, Authorize(s) \/ Supersede(s)
      PROVE  UNCHANGED control \/ (Grants(s) /\ UNCHANGED <<disk, rows, intent, returned>>)
  BY <1>1 DEF Authorize, Supersede, Grants
<1>2. ASSUME NEW s \in Sample, Cancel(s) \/ Begin(s) \/ Resume(s) \/ Return(s)
      PROVE  UNCHANGED control
  BY <1>2 DEF Cancel, Begin, Resume, Return
<1>3. ASSUME NEW i \in DOMAIN pool, RefuseCall(i) \/ StartPut(i)
      PROVE  UNCHANGED control
  BY <1>3 DEF RefuseCall, StartPut
<1>4. ASSUME NEW i \in DOMAIN pool, RunCall(i)
      PROVE  UNCHANGED control \/ Accepts(pool[i])
  BY <1>4 DEF RunCall, Accepts
<1>5. ASSUME NEW j \in attaching, Attach(j) \/ Deliver(j)
      PROVE  UNCHANGED control
  BY <1>5 DEF Attach, Deliver
<1>6. ASSUME NEW batch, BeginUpdate(batch) \/ JudgeMicrobatch(batch)
      PROVE  UNCHANGED control
  BY <1>6 DEF BeginUpdate, JudgeMicrobatch
<1>7. PublishIntent \/ UNCHANGED vars => UNCHANGED control
  BY DEF PublishIntent, vars
<1> QED
  BY <1>1, <1>2, <1>3, <1>4, <1>5, <1>6, <1>7 DEF Next

Authority == [epoch : 1..MaxEpoch, attempts : [Sample -> Attempt \union {None}],
              accepted : [Sample -> Accepted \union {None}]]

LEMMA GrantFacts ==
    ASSUME TypeOK, NEW s \in Sample, Grants(s)
    PROVE  /\ control' \in Authority /\ control'.epoch = control.epoch
           /\ control'.attempts[s] \in Attempt /\ control'.accepted[s] = None
           /\ control.attempts[s] # None => control.attempts[s].id < control'.attempts[s].id
           /\ \A t \in Sample : t # s => /\ control'.attempts[t] = control.attempts[t]
                                         /\ control'.accepted[t] = control.accepted[t]
<1>1. control \in Authority
  BY DEF TypeOK, Authority
<1>2. \A a \in Attempt : a.id \in Nat /\ 1 <= a.id /\ a.id <= MaxAttempt
  BY NoneFacts DEF Attempt
<1>3. control.attempts[s] \in Attempt \union {None} /\ control.epoch \in 1 .. MaxEpoch
  BY <1>1 DEF Authority
<1>4. /\ Fresh(s) \in Attempt
      /\ control.attempts[s] # None => control.attempts[s].id < Fresh(s).id
  <2> DEFINE id == IF control.attempts[s] = None THEN 1 ELSE control.attempts[s].id + 1
  <2>1. id \in 1 .. MaxAttempt
    BY <1>2, <1>3, NoneFacts DEF Grants
  <2>2. control.attempts[s] # None => control.attempts[s].id < id
    BY <1>2, <1>3
  <2>3. Fresh(s) = [id |-> id, epoch |-> control.epoch]
    BY DEF Fresh
  <2> HIDE DEF id
  <2>4. Fresh(s) \in Attempt /\ Fresh(s).id = id
    BY <1>3, <2>1, <2>3 DEF Attempt
  <2> QED
    BY <2>2, <2>4
<1> DEFINE a == Fresh(s)
<1>5. control' = [control EXCEPT !.attempts[s] = a, !.accepted[s] = None]
  BY DEF Grants, Authorized
<1> HIDE DEF a
<1>6. control' = [control EXCEPT !.attempts = [control.attempts EXCEPT ![s] = a],
                                 !.accepted = [control.accepted EXCEPT ![s] = None]]
  BY <1>1, <1>5 DEF Authority
<1>7. /\ control.attempts \in [Sample -> Attempt \union {None}]
      /\ control.accepted \in [Sample -> Accepted \union {None}]
  BY <1>1 DEF Authority
<1>8. /\ control'.epoch = control.epoch
      /\ control'.attempts = [control.attempts EXCEPT ![s] = a]
      /\ control'.accepted = [control.accepted EXCEPT ![s] = None]
      /\ control' \in [epoch : {control.epoch}, attempts : {control'.attempts}, accepted : {control'.accepted}]
  BY <1>1, <1>6 DEF Authority
<1>9. a \in Attempt
  BY <1>4 DEF a
<1>10. /\ control'.attempts \in [Sample -> Attempt \union {None}] /\ control'.attempts[s] = a
       /\ control'.accepted \in [Sample -> Accepted \union {None}] /\ control'.accepted[s] = None
       /\ \A t \in Sample : t # s => /\ control'.attempts[t] = control.attempts[t]
                                     /\ control'.accepted[t] = control.accepted[t]
  BY <1>7, <1>8, <1>9
<1>11. control' \in Authority
  BY <1>3, <1>8, <1>10 DEF Authority
<1> QED
  BY <1>4, <1>8, <1>9, <1>10, <1>11 DEF a

LEMMA AcceptFacts ==
    ASSUME TypeOK, Workflow, NEW i \in DOMAIN pool, Accepts(pool[i]), RunCall(i)
    PROVE  LET s == pool[i].sample
           IN  /\ s \in Sample /\ control' \in Authority /\ UNCHANGED <<rows, intent, returned>>
               /\ control'.epoch = control.epoch /\ control'.attempts = control.attempts
               /\ control.attempts[s] \in Attempt
               /\ control'.accepted[s].attempt = control.attempts[s]
               /\ control'.accepted[s].payload = disk[s][control.attempts[s]]
               /\ control'.accepted[s].payload.tensor # None
               /\ control.accepted[s] \in {None, control'.accepted[s]}
               /\ \A t \in Sample : t # s => control'.accepted[t] = control.accepted[t]
<1> DEFINE c == pool[i]
           s == c.sample
           r == Receipt(c)
<1>1. /\ s \in Sample /\ c.attempt \in Attempt /\ c.op = "accept" /\ CallFits(c, Stages(c))
      /\ Stages(c) \in Stage /\ Stages(c) = disk[s][c.attempt]
  BY CallFacts, StageFacts DEF Stages, Accepts
<1>2. /\ r.attempt = c.attempt /\ r.payload = disk[s][c.attempt] /\ r.payload.tensor # None
      /\ r \in Accepted
  <2>1. c.value = disk[s][c.attempt] /\ disk[s][c.attempt] \in Stage /\ c.value.tensor # None
    BY <1>1 DEF CallFits
  <2>2. r = [attempt |-> c.attempt, payload |-> c.value]
    BY DEF Receipt
  <2> HIDE DEF r
  <2> QED
    BY <1>1, <2>1, <2>2 DEF Accepted
<1>3. /\ control.attempts[s] = c.attempt /\ control.accepted[s] \in {None, r}
      /\ control' = [control EXCEPT !.accepted[s] = r]
  BY DEF Accepts, Refused, Active
<1>4. control \in Authority
  BY DEF TypeOK, Authority
<1>5. UNCHANGED <<rows, intent, returned>>
  BY DEF RunCall
<1> HIDE DEF c, s, r
<1>6. control' = [control EXCEPT !.accepted = [control.accepted EXCEPT ![s] = r]]
  BY <1>3, <1>4 DEF Authority
<1>7. /\ control.attempts \in [Sample -> Attempt \union {None}] /\ control.epoch \in 1 .. MaxEpoch
      /\ control.accepted \in [Sample -> Accepted \union {None}]
  BY <1>4 DEF Authority
<1>8. /\ control'.epoch = control.epoch /\ control'.attempts = control.attempts
      /\ control'.accepted = [control.accepted EXCEPT ![s] = r]
      /\ control' \in [epoch : {control.epoch}, attempts : {control'.attempts}, accepted : {control'.accepted}]
  BY <1>4, <1>6 DEF Authority
<1>9. /\ control'.accepted \in [Sample -> Accepted \union {None}] /\ control'.accepted[s] = r
      /\ \A t \in Sample : t # s => control'.accepted[t] = control.accepted[t]
  BY <1>1, <1>2, <1>7, <1>8
<1>10. control' \in Authority
  BY <1>7, <1>8, <1>9 DEF Authority
<1>11. /\ control'.accepted[s].attempt = control.attempts[s]
       /\ control'.accepted[s].payload = disk[s][control.attempts[s]]
       /\ control'.accepted[s].payload.tensor # None
       /\ control.accepted[s] \in {None, control'.accepted[s]} /\ control.attempts[s] \in Attempt
  BY <1>1, <1>2, <1>3, <1>9
<1> QED
  BY <1>1, <1>5, <1>8, <1>9, <1>10, <1>11 DEF s, c

(* An episode returns what is published of its attempt. *)
LEMMA ReturnFacts ==
    ASSUME TypeOK, Workflow, NEW s \in Sample, Return(s)
    PROVE  LET e == ep[s]
           IN  /\ UNCHANGED <<control, disk, rows, intent, allowed, cancels>>
               /\ e.attempt \in Attempt /\ e.got.tensor \in Built
               /\ disk[s][e.attempt].tensor = e.got.tensor
               /\ \/ UNCHANGED <<attaching, returned>>
                  \/ /\ returned' = returned \union
                              {[sample |-> s, attempt |-> e.attempt, tensor |-> e.got.tensor]}
                     /\ attaching' = attaching \union
                              {[sample |-> s, tensor |-> e.got.tensor, receipt |-> None]}
<1> DEFINE e == ep[s]
<1>1. e.pc = "accept" /\ e.ready
  BY DEF Return, Resumes
<1>2. /\ e.attempt \in Attempt /\ e.got = disk[s][e.attempt] /\ e.got \in Stage /\ Chained(e.got)
      /\ EpisodeFits(e, e.got)
  BY <1>1, ResumeFacts
<1>3. e.got.tensor \in Built
  BY <1>1, <1>2, StageOrder DEF EpisodeFits
<1>4. UNCHANGED <<control, disk, rows, intent, allowed, cancels>>
  BY DEF Return
<1>5. \/ UNCHANGED <<attaching, returned>>
      \/ /\ returned' = returned \union
                  {[sample |-> s, attempt |-> e.attempt, tensor |-> e.got.tensor]}
         /\ attaching' = attaching \union
                  {[sample |-> s, tensor |-> e.got.tensor, receipt |-> None]}
  BY DEF Return
<1> QED
  BY <1>2, <1>3, <1>4, <1>5

LEMMA ReturnedSteps ==
    ASSUME [Next]_vars
    PROVE  returned' = returned \/ \E s \in Sample : Return(s)
<1>1. ASSUME NEW s \in Sample, Authorize(s) \/ Supersede(s) \/ Cancel(s) \/ Begin(s) \/ Resume(s)
      PROVE  returned' = returned
  BY <1>1 DEF Authorize, Supersede, Cancel, Begin, Resume
<1>2. ASSUME NEW i \in DOMAIN pool, RefuseCall(i) \/ StartPut(i) \/ RunCall(i)
      PROVE  returned' = returned
  BY <1>2 DEF RefuseCall, StartPut, RunCall
<1>3. ASSUME NEW j \in attaching, Attach(j) \/ Deliver(j)
      PROVE  returned' = returned
  BY <1>3 DEF Attach, Deliver
<1>4. ASSUME NEW batch, BeginUpdate(batch) \/ JudgeMicrobatch(batch)
      PROVE  returned' = returned
  BY <1>4 DEF BeginUpdate, JudgeMicrobatch
<1>5. Takeover \/ PublishIntent \/ UNCHANGED vars => returned' = returned
  BY DEF Takeover, PublishIntent, vars
<1> QED
  BY <1>1, <1>2, <1>3, <1>4, <1>5 DEF Next

LEMMA ResultStep ==
    ASSUME TypeOK, Workflow, ResultInv, [Next]_vars
    PROVE  ResultInv'
<1>1. \A q \in returned : q.sample \in Sample /\ q.attempt \in Attempt /\ q.tensor # None
  BY NoneFacts DEF TypeOK
<1>2. ASSUME NEW q \in returned
      PROVE  disk'[q.sample][q.attempt].tensor = q.tensor
  BY <1>1, TensorsStay DEF ResultInv
<1>3. ASSUME NEW q \in returned'
      PROVE  disk'[q.sample][q.attempt].tensor = q.tensor
  <2>1. ASSUME NEW s \in Sample, Return(s), q \notin returned
        PROVE  disk'[q.sample][q.attempt].tensor = q.tensor
    <3>1. /\ q = [sample |-> s, attempt |-> ep[s].attempt, tensor |-> ep[s].got.tensor]
          /\ disk[s][ep[s].attempt].tensor = ep[s].got.tensor /\ UNCHANGED disk
      BY <1>3, <2>1, ReturnFacts
    <3> QED
      BY <3>1
  <2> QED
    BY <1>2, <1>3, <2>1, ReturnedSteps
<1> DEFINE Fitting(s) == control.accepted[s] # None =>
              /\ control.accepted[s].attempt = control.attempts[s]
              /\ control.accepted[s].payload = disk[s][control.accepted[s].attempt]
              /\ control.accepted[s].payload.tensor # None
<1>4. ASSUME NEW s \in Sample, control'.attempts[s] = control.attempts[s],
             control'.accepted[s] = control.accepted[s]
      PROVE  Fitting(s)'
  <2>1. CASE control.accepted[s] # None
    <3>1. /\ control.accepted[s].attempt = control.attempts[s]
          /\ control.accepted[s].payload = disk[s][control.accepted[s].attempt]
          /\ control.accepted[s].payload.tensor # None
      BY <2>1 DEF ResultInv
    <3>2. control.accepted[s].attempt \in Attempt
      <4>1. control.accepted[s] \in Accepted
        BY <2>1 DEF TypeOK
      <4> QED
        BY <4>1 DEF Accepted
    <3>3. disk'[s][control.accepted[s].attempt] = disk[s][control.accepted[s].attempt]
      BY <3>1, <3>2, TensorsStay
    <3> QED
      BY <1>4, <3>1, <3>3
  <2> QED
    BY <1>4, <2>1
<1>5. ASSUME NEW s \in Sample
      PROVE  Fitting(s)'
  <2>1. CASE UNCHANGED control \/ Takeover
    <3>1. control'.attempts = control.attempts /\ control'.accepted = control.accepted
      BY <2>1 DEF Takeover, TypeOK
    <3> HIDE DEF Fitting
    <3> QED
      BY <1>4, <3>1
  <2>2. ASSUME NEW t \in Sample, Grants(t)
        PROVE  Fitting(s)'
    <3>1. CASE s = t
      BY <2>2, <3>1, GrantFacts
    <3>2. CASE s # t
      <4>1. control'.attempts[s] = control.attempts[s] /\ control'.accepted[s] = control.accepted[s]
        BY <2>2, <3>2, GrantFacts
      <4> HIDE DEF Fitting
      <4> QED
        BY <1>4, <4>1
    <3> QED
      BY <3>1, <3>2
  <2>3. ASSUME NEW i \in DOMAIN pool, RunCall(i), Accepts(pool[i])
        PROVE  Fitting(s)'
    <3> DEFINE t == pool[i].sample
    <3>1. /\ t \in Sample /\ control'.attempts = control.attempts
          /\ control'.accepted[t].attempt = control.attempts[t]
          /\ control'.accepted[t].payload = disk[t][control.attempts[t]]
          /\ control'.accepted[t].payload.tensor # None /\ control.attempts[t] \in Attempt
          /\ \A u \in Sample : u # t => control'.accepted[u] = control.accepted[u]
      BY <2>3, AcceptFacts
    <3> HIDE DEF t
    <3>2. disk'[t][control.attempts[t]] = disk[t][control.attempts[t]]
      BY <3>1, TensorsStay
    <3>3. CASE s = t
      BY <3>1, <3>2, <3>3
    <3>4. CASE s # t
      <4>1. control'.attempts[s] = control.attempts[s] /\ control'.accepted[s] = control.accepted[s]
        BY <3>1, <3>4
      <4> HIDE DEF Fitting
      <4> QED
        BY <1>4, <4>1
    <3> QED
      BY <3>3, <3>4
  <2> QED
    BY <2>1, <2>2, <2>3, ControlSteps
<1> QED
  BY <1>3, <1>5 DEF ResultInv

-----------------------------------------------------------------------------
(* Who changes the rows and the intent, and how *)
Delivers(j) == /\ Current(j.sample, j.receipt) /\ j.receipt # None
               /\ rows' = rows \union {[sample |-> j.sample, receipt |-> j.receipt]}
               /\ UNCHANGED <<control, intent>>

LEMMA RowSteps ==
    ASSUME [Next]_vars
    PROVE  \/ UNCHANGED <<rows, intent>>
           \/ Takeover
           \/ \E j \in attaching : Delivers(j)
           \/ /\ UNCHANGED <<control, rows>>
              /\ intent'.rows \subseteq rows /\ Whole(intent'.rows) /\ Distinct(intent'.rows)
              /\ intent' = [NoIntent EXCEPT !.rows = intent'.rows]
           \/ /\ UNCHANGED <<control, rows>>
              /\ \E micro \in SUBSET intent.rows : intent' = [intent EXCEPT !.micro = micro]
           \/ UNCHANGED <<control, rows>> /\ PublishIntent
<1>1. ASSUME NEW s \in Sample, \/ Authorize(s) \/ Supersede(s) \/ Cancel(s) \/ Begin(s)
                               \/ Resume(s) \/ Return(s)
      PROVE  UNCHANGED <<rows, intent>>
  BY <1>1 DEF Authorize, Supersede, Cancel, Begin, Resume, Return
<1>2. ASSUME NEW i \in DOMAIN pool, RefuseCall(i) \/ StartPut(i) \/ RunCall(i)
      PROVE  UNCHANGED <<rows, intent>>
  BY <1>2 DEF RefuseCall, StartPut, RunCall
<1>3. ASSUME NEW j \in attaching, Attach(j)
      PROVE  UNCHANGED <<rows, intent>>
  BY <1>3 DEF Attach
<1>4. ASSUME NEW j \in attaching, Deliver(j)
      PROVE  UNCHANGED <<rows, intent>> \/ Delivers(j)
  BY <1>4 DEF Deliver, Delivers
<1>5. ASSUME NEW batch \in SUBSET rows, BeginUpdate(batch)
      PROVE  /\ UNCHANGED <<control, rows>>
             /\ intent'.rows \subseteq rows /\ Whole(intent'.rows) /\ Distinct(intent'.rows)
             /\ intent' = [NoIntent EXCEPT !.rows = intent'.rows]
  <2>1. /\ Whole(batch) /\ Distinct(batch) /\ intent' = [NoIntent EXCEPT !.rows = batch]
        /\ UNCHANGED <<control, rows>>
    BY <1>5 DEF BeginUpdate
  <2>2. intent'.rows = batch
    BY <2>1 DEF NoIntent
  <2> QED
    BY <2>1, <2>2
<1>6. ASSUME NEW micro \in SUBSET intent.rows, JudgeMicrobatch(micro)
      PROVE  UNCHANGED <<control, rows>> /\ intent' = [intent EXCEPT !.micro = micro]
  BY <1>6 DEF JudgeMicrobatch
<1>7. PublishIntent => UNCHANGED <<control, rows>>
  BY DEF PublishIntent
<1>8. UNCHANGED vars => UNCHANGED <<rows, intent>>
  BY DEF vars
<1> QED
  BY <1>1, <1>2, <1>3, <1>4, <1>5, <1>6, <1>7, <1>8 DEF Next

(* A row that fits goes on to. *)
LEMMA RowStays ==
    ASSUME TypeOK, Workflow, [Next]_vars, ~Takeover, NEW r \in Row, RowFits(r)
    PROVE  RowFits(r)'
<1> DEFINE s == r.sample
<1>1. s \in Sample /\ r.receipt \in Accepted /\ r.receipt.attempt \in Attempt
  BY DEF Row, Accepted
<1>2. \A a \in Attempt : a.id \in Nat
  BY NoneFacts DEF Attempt
<1>3. control.attempts[s] \in Attempt
  BY <1>1 DEF RowFits, TypeOK
<1>4. ASSUME NEW t \in Sample, Grants(t)
      PROVE  RowFits(r)'
  <2>1. CASE s = t
    <3>1. control'.attempts[s] \in Attempt /\ control.attempts[s].id < control'.attempts[s].id
      BY <1>3, <1>4, <2>1, GrantFacts, NoneFacts
    <3>2. r.receipt.attempt.id < control'.attempts[s].id
      BY <1>1, <1>2, <1>3, <3>1 DEF RowFits
    <3> QED
      BY <1>1, <1>2, <3>1, <3>2, NoneFacts DEF RowFits
  <2>2. CASE s # t
    <3>1. control'.attempts[s] = control.attempts[s] /\ control'.accepted[s] = control.accepted[s]
      BY <1>1, <1>4, <2>2, GrantFacts
    <3> QED
      BY <3>1 DEF RowFits
  <2> QED
    BY <2>1, <2>2
<1>5. ASSUME NEW i \in DOMAIN pool, RunCall(i), Accepts(pool[i])
      PROVE  RowFits(r)'
  <2> DEFINE t == pool[i].sample
  <2>1. /\ control'.attempts = control.attempts
        /\ control.accepted[t] \in {None, control'.accepted[t]}
        /\ \A u \in Sample : u # t => control'.accepted[u] = control.accepted[u]
    BY <1>5, AcceptFacts
  <2> HIDE DEF t
  <2>2. control.accepted[s] # None => control'.accepted[s] = control.accepted[s]
    BY <1>1, <2>1
  <2>3. r.receipt # None
    BY <1>1, NoneFacts
  <2> QED
    BY <2>1, <2>2, <2>3 DEF RowFits
<1>6. CASE UNCHANGED control
  BY <1>6 DEF RowFits
<1> QED
  BY <1>4, <1>5, <1>6, ControlSteps

LEMMA RowStep ==
    ASSUME TypeOK, Workflow, RowInv, [Next]_vars
    PROVE  RowInv'
<1>1. CASE Takeover
  <2>1. rows' = {} /\ intent'.rows = {}
    BY <1>1 DEF Takeover, NoIntent
  <2> QED
    BY <2>1 DEF RowInv, Whole, Distinct
<1>2. ASSUME ~Takeover
      PROVE  RowInv'
  <2>1. \A r \in rows \union intent.rows : r \in Row
    BY DEF TypeOK
  <2>2. \A r \in rows \union intent.rows : RowFits(r)'
    BY <1>2, <2>1, RowStays DEF RowInv
  <2>3. CASE UNCHANGED <<rows, intent>>
    BY <2>2, <2>3 DEF RowInv, Whole, Distinct
  <2>4. ASSUME NEW j \in attaching, Delivers(j)
        PROVE  RowInv'
    <3> DEFINE r == [sample |-> j.sample, receipt |-> j.receipt]
    <3>1. j.receipt \in Accepted /\ j.receipt.attempt \in Attempt
      <4>1. j.receipt \in Accepted
        BY <2>4 DEF TypeOK, Delivers
      <4> QED
        BY <4>1 DEF Accepted
    <3>2. /\ control'.attempts[r.sample] = r.receipt.attempt
          /\ control'.accepted[r.sample] = r.receipt
      BY <2>4 DEF Delivers, Current, Active
    <3>3. r.receipt.attempt.id <= r.receipt.attempt.id
      BY <3>1, NoneFacts DEF Attempt
    <3>4. RowFits(r)'
      BY <3>1, <3>2, <3>3, NoneFacts DEF RowFits
    <3>5. rows' = rows \union {r} /\ intent' = intent
      BY <2>4 DEF Delivers
    <3> HIDE DEF r
    <3>6. \A q \in rows' \union intent'.rows : RowFits(q)'
      BY <2>2, <3>4, <3>5
    <3> QED
      BY <3>5, <3>6 DEF RowInv, Whole, Distinct
  <2>5. ASSUME UNCHANGED rows, intent'.rows \subseteq rows, Whole(intent'.rows), Distinct(intent'.rows)
        PROVE  RowInv'
    BY <2>2, <2>5 DEF RowInv, Whole, Distinct
  <2>6. ASSUME UNCHANGED rows, intent'.rows = intent.rows
        PROVE  RowInv'
    BY <2>2, <2>6 DEF RowInv, Whole, Distinct
  <2>7. PublishIntent => intent'.rows = intent.rows
    BY DEF PublishIntent, TypeOK
  <2>8. \A micro : intent' = [intent EXCEPT !.micro = micro] => intent'.rows = intent.rows
    BY DEF TypeOK
  <2> QED
    BY <1>2, <2>3, <2>4, <2>5, <2>6, <2>7, <2>8, RowSteps
<1> QED
  BY <1>1, <1>2

-----------------------------------------------------------------------------
Job == [sample : Sample, tensor : Built, receipt : Accepted \union {None}]

LEMMA TypeStep ==
    ASSUME TypeOK, Workflow, [Next]_vars
    PROVE  TypeOK'
<1>1. control' \in Authority
  <2>1. control \in Authority
    BY DEF TypeOK, Authority
  <2>2. CASE Takeover
    <3>1. control' = [control EXCEPT !.epoch = @ + 1] /\ control.epoch < MaxEpoch
      BY <2>2 DEF Takeover
    <3> QED
      BY <2>1, <3>1, NoneFacts DEF Authority
  <2>3. ASSUME NEW s \in Sample, Grants(s)
        PROVE  control' \in Authority
    BY <2>3, GrantFacts
  <2>4. ASSUME NEW i \in DOMAIN pool, RunCall(i), Accepts(pool[i])
        PROVE  control' \in Authority
    BY <2>4, AcceptFacts
  <2> QED
    BY <2>1, <2>2, <2>3, <2>4, ControlSteps
<1>2. rows' \subseteq Row /\ intent' \in [rows : SUBSET Row, micro : SUBSET Row, published : SUBSET Row]
  <2>1. rows \subseteq Row /\ intent \in [rows : SUBSET Row, micro : SUBSET Row, published : SUBSET Row]
    BY DEF TypeOK
  <2>2. NoIntent \in [rows : SUBSET Row, micro : SUBSET Row, published : SUBSET Row]
    BY DEF NoIntent
  <2>3. CASE Takeover
    BY <2>2, <2>3 DEF Takeover
  <2>4. ASSUME NEW j \in attaching, Delivers(j)
        PROVE  rows' \subseteq Row
    <3>1. j.sample \in Sample /\ j.receipt \in Accepted
      BY <2>4 DEF TypeOK, Delivers
    <3> QED
      BY <2>1, <2>4, <3>1 DEF Delivers, Row
  <2>5. ASSUME intent'.rows \subseteq rows, intent' = [NoIntent EXCEPT !.rows = intent'.rows]
        PROVE  intent' \in [rows : SUBSET Row, micro : SUBSET Row, published : SUBSET Row]
    BY <2>1, <2>5 DEF NoIntent
  <2>6. ASSUME NEW micro \in SUBSET intent.rows, intent' = [intent EXCEPT !.micro = micro]
        PROVE  intent' \in [rows : SUBSET Row, micro : SUBSET Row, published : SUBSET Row]
    BY <2>1, <2>6
  <2>7. CASE PublishIntent
    <3>1. PICK p \in {intent.micro, intent.published} :
                  intent' = [intent EXCEPT !.micro = {}, !.published = p]
      BY <2>7 DEF PublishIntent
    <3> QED
      BY <2>1, <2>7, <3>1 DEF PublishIntent
  <2>8. (\E j \in attaching : Delivers(j)) => rows' \subseteq Row /\ UNCHANGED intent
    BY <2>4 DEF Delivers
  <2> QED
    BY <2>1, <2>3, <2>5, <2>6, <2>7, <2>8, RowSteps
<1>3. /\ allowed' \in [Sample -> Attempt \union {None}] /\ cancels' \in 0 .. MaxCancel
      /\ attaching' \subseteq Job
  <2>1. /\ allowed \in [Sample -> Attempt \union {None}] /\ cancels \in 0 .. MaxCancel
        /\ attaching \subseteq Job
    BY DEF TypeOK, Job
  <2>2. CASE Takeover
    BY <2>1, <2>2 DEF Takeover
  <2>3. ASSUME NEW s \in Sample, Authorize(s)
        PROVE  allowed' \in [Sample -> Attempt \union {None}] /\ UNCHANGED <<attaching, cancels>>
    <3>1. control.attempts[s] \in Attempt \union {None}
      BY DEF TypeOK
    <3> DEFINE a == IF control.attempts[s] = None THEN Fresh(s) ELSE control.attempts[s]
    <3>2. /\ allowed' = [allowed EXCEPT ![s] = a] /\ UNCHANGED <<attaching, cancels>>
          /\ a.epoch = control.epoch
      BY <2>3 DEF Authorize
    <3>3. a \in Attempt
      <4>1. CASE control.attempts[s] = None
        <5>1. Fresh(s) = [id |-> 1, epoch |-> control.epoch] /\ control.epoch \in 1 .. MaxEpoch
          BY <4>1 DEF Fresh, TypeOK
        <5>2. 1 \in 1 .. MaxAttempt
          BY NoneFacts
        <5> QED
          BY <4>1, <5>1, <5>2 DEF Attempt
      <4> QED
        BY <3>1, <4>1
    <3> HIDE DEF a
    <3> QED
      BY <2>1, <3>2, <3>3
  <2>4. ASSUME NEW s \in Sample, Cancel(s)
        PROVE  cancels' \in 0 .. MaxCancel /\ UNCHANGED <<allowed, attaching>>
    <3>1. cancels' = cancels + 1 /\ cancels < MaxCancel /\ UNCHANGED <<allowed, attaching>>
      BY <2>4 DEF Cancel
    <3> QED
      BY <2>1, <3>1, NoneFacts
  <2>5. ASSUME NEW s \in Sample, Return(s)
        PROVE  attaching' \subseteq Job /\ UNCHANGED <<allowed, cancels>>
    BY <2>1, <2>5, ReturnFacts DEF Job
  <2>6. ASSUME NEW j \in attaching, Attach(j)
        PROVE  attaching' \subseteq Job /\ UNCHANGED <<allowed, cancels>>
    <3> DEFINE receipt == control.accepted[j.sample]
    <3>1. j \in Job
      BY <2>1
    <3>2. receipt \in Accepted \union {None}
      BY <3>1 DEF TypeOK, Job
    <3>3. [j EXCEPT !.receipt = receipt] \in Job
      BY <3>1, <3>2 DEF Job
    <3>4. UNCHANGED <<allowed, cancels>> /\ attaching' \subseteq attaching \union {[j EXCEPT !.receipt = receipt]}
      BY <2>6 DEF Attach
    <3> QED
      BY <2>1, <3>3, <3>4
  <2>7. ASSUME NEW j \in attaching, Deliver(j)
        PROVE  attaching' \subseteq Job /\ UNCHANGED <<allowed, cancels>>
    BY <2>1, <2>7 DEF Deliver
  <2>8. ASSUME NEW s \in Sample, Supersede(s) \/ Begin(s) \/ Resume(s)
        PROVE  UNCHANGED <<allowed, attaching, cancels>>
    BY <2>8 DEF Supersede, Begin, Resume
  <2>9. ASSUME NEW i \in DOMAIN pool, RefuseCall(i) \/ StartPut(i) \/ RunCall(i)
        PROVE  UNCHANGED <<allowed, attaching, cancels>>
    BY <2>9 DEF RefuseCall, StartPut, RunCall
  <2>10. ASSUME NEW batch, BeginUpdate(batch) \/ JudgeMicrobatch(batch)
         PROVE  UNCHANGED <<allowed, attaching, cancels>>
    BY <2>10 DEF BeginUpdate, JudgeMicrobatch
  <2>11. PublishIntent \/ UNCHANGED vars => UNCHANGED <<allowed, attaching, cancels>>
    BY DEF PublishIntent, vars
  <2> QED
    BY <2>1, <2>2, <2>3, <2>4, <2>5, <2>6, <2>7, <2>8, <2>9, <2>10, <2>11 DEF Next
<1>4. returned' \subseteq [sample : Sample, attempt : Attempt, tensor : Built]
  BY ReturnedSteps, ReturnFacts DEF TypeOK
<1>5. /\ disk' \in [Sample -> [Attempt -> Stage]]
      /\ ep' \in [Sample -> Episodes] /\ pool' \in Seq(Call)
  BY WorkflowStep DEF Workflow
<1> QED
  BY <1>1, <1>2, <1>3, <1>4, <1>5 DEF TypeOK, Authority, Job

-----------------------------------------------------------------------------
LEMMA InitInv ==
    ASSUME Init
    PROVE  EpisodeInvs
<1>1. /\ disk \in [Sample -> [Attempt -> Stage]] /\ ep \in [Sample -> Episodes]
      /\ DiskInv /\ EpisodeInv
  BY Empties DEF Init, DiskInv, EpisodeInv
<1>2. pool \in Seq(Call) /\ PoolInv /\ CallInv
  BY DEF Init, PoolInv, CallInv
<1>3. ResultInv /\ RowInv
  BY DEF Init, ResultInv, RowInv, NoIntent, Whole, Distinct
<1>4. TypeOK
  BY <1>1, <1>2, NoneFacts DEF Init, TypeOK, NoIntent
<1> QED
  BY <1>1, <1>2, <1>3, <1>4 DEF EpisodeInvs, Workflow

LEMMA NextInv ==
    ASSUME EpisodeInvs, [Next]_vars
    PROVE  EpisodeInvs'
BY WorkflowStep, ResultStep, RowStep, TypeStep DEF EpisodeInvs

(* The invariant that the properties follow from: the pool, the episodes, the disk and
   the authority fit together in every state that cancellations, superseded attempts and
   new owners leave.                                                                    *)
THEOREM EpisodeInvariant == Spec => []EpisodeInvs
<1>1. Init => EpisodeInvs
  BY InitInv
<1>2. EpisodeInvs /\ [Next]_vars => EpisodeInvs'
  BY NextInv
<1> QED
  BY <1>1, <1>2, PTL DEF Spec

(* Everything keeps its shape. *)
THEOREM TypeCorrect == Spec => []TypeOK
<1>1. EpisodeInvs => TypeOK
  BY DEF EpisodeInvs
<1> QED
  BY <1>1, EpisodeInvariant, PTL

(* A call that outlives its cancelled episode cannot spoil what the next one publishes:
   the pool's one thread runs it first, and the next episode reads before it writes.    *)
THEOREM PutsNeverConflict == Spec => []NoConflict
<1>1. EpisodeInvs => NoConflict
  <2> SUFFICES ASSUME EpisodeInvs PROVE NoConflict
    OBVIOUS
  <2>1. Workflow /\ DiskInv
    BY DEF EpisodeInvs, Workflow
  <2>2. ASSUME NEW i \in DOMAIN pool, pool[i].started
        PROVE  ~Conflict(pool[i])
    <3> DEFINE c == pool[i]
    <3>1. /\ c \in Call /\ c.op \in Puts /\ CallFits(c, Stages(c))
          /\ Stages(c) \in Stage /\ Chained(Stages(c))
      BY <2>1, <2>2, CallFacts, StageFacts DEF Stages
    <3> HIDE DEF c
    <3>2. ~Conflict(c)
      BY <3>1, LinkFacts
    <3> QED
      BY <3>2 DEF c
  <2> QED
    BY <2>1, <2>2 DEF NoConflict, DiskInv
<1> QED
  BY <1>1, EpisodeInvariant, PTL

(* Whatever is retried, an attempt has one result, and what the authority accepted is
   that result.                                                                         *)
THEOREM OneResultOfAnAttempt == Spec => []OneResult
<1>1. EpisodeInvs => OneResult
  BY DEF EpisodeInvs, ResultInv, OneResult
<1> QED
  BY <1>1, EpisodeInvariant, PTL

(* The rows of an update were checked when the batch was formed; the attempts only grow,
   so the check of the attempts alone, under the lock, finds the accepted results.      *)
THEOREM PublishedIntent == Spec => IntentIsCurrent
<1> DEFINE Step == intent'.published \notin {{}, intent.published} =>
                      /\ Whole(intent.rows) /\ Distinct(intent.rows)
                      /\ \A r \in intent.rows : /\ control.attempts[r.sample] = r.receipt.attempt
                                               /\ control.accepted[r.sample] = r.receipt
<1>1. EpisodeInvs /\ [Next]_vars => Step
  <2> SUFFICES ASSUME EpisodeInvs, [Next]_vars PROVE Step
    OBVIOUS
  <2>1. CASE PublishIntent
    <3>1. CASE AllAuthorized(intent.rows)
      BY <3>1 DEF AllAuthorized, EpisodeInvs, RowInv, RowFits
    <3>2. CASE ~AllAuthorized(intent.rows)
      <4>1. intent'.published = intent.published
        BY <2>1, <3>2 DEF PublishIntent, EpisodeInvs, TypeOK
      <4> QED
        BY <4>1
    <3> QED
      BY <3>1, <3>2
  <2>2. CASE Takeover
    BY <2>2 DEF Takeover, NoIntent
  <2>3. CASE UNCHANGED intent
    BY <2>3
  <2>4. CASE intent' = [NoIntent EXCEPT !.rows = intent'.rows]
    BY <2>4 DEF NoIntent
  <2>5. ASSUME NEW micro, intent' = [intent EXCEPT !.micro = micro]
        PROVE  Step
    <3>1. intent'.published = intent.published
      BY <2>5 DEF EpisodeInvs, TypeOK
    <3> QED
      BY <3>1
  <2> QED
    BY <2>1, <2>2, <2>3, <2>4, <2>5, RowSteps DEF Delivers
<1>2. Spec => [][Step]_vars
  BY <1>1, EpisodeInvariant, PTL DEF Spec
<1> QED
  BY <1>2 DEF IntentIsCurrent

=============================================================================
