---------------------------- MODULE VerdictProofs ----------------------------
(***************************************************************************)
(* The verdicts that must not be given in error.  First the success of a   *)
(* run and its certificate, which the control plane never leaves after a   *)
(* failure, closing the components from the bottom up.  Then the gate of   *)
(* the paper, which passes the directory of a trace campaign exactly when  *)
(* it was earned.  Last the oracle of a trial, exact for every log of      *)
(* events, and the trials, all of which it can judge.                      *)
(***************************************************************************)
EXTENDS Supervisor, TraceGates, FiniteSetTheorems, TLAPS

(* Entries of the supervisor and what the components have done *)
EntryInv ==
    /\ ~failed => \A c \in Component : done[c] = 0 <=> state[c] = "none"
    /\ \A c \in req : ~Finished(c)
    /\ \A c \in Component : state[c] \in {"EXIT_PERMITTED", "OFFLINE_CONFIRMED"} =>
          c \in Expected /\ Finished(c)
    /\ \A c \in Component : life[c] = "exited" => c \in Expected /\ Finished(c)
    /\ \A c \in Component : state[c] = "OFFLINE_CONFIRMED" => Evidence(c)

(* A component that has passed a confirmation has seen its target go *)
OrderInv ==
    ~failed => /\ done["rm_host"] >= 2 => state["worker"] = "OFFLINE_CONFIRMED"
               /\ done["driver"] >= 2 => state["rm_host"] = "OFFLINE_CONFIRMED"

(* What a decision and the certificate stand for *)
VerdictInv ==
    /\ heard => failed
    /\ final /\ ~failed => \A c \in Expected : state[c] = "OFFLINE_CONFIRMED"
    /\ shutdown /\ ~failed => final
    /\ cert => shutdown /\ ~failed
    /\ success => server = "exit0" /\ cert

SInv == TypeOK /\ EntryInv /\ OrderInv /\ VerdictInv /\ ClosesBottomUp

-----------------------------------------------------------------------------
(* What the proofs need to know of the i-th call of a component: its permit is the
   last one, and the launcher asks for none.                                   *)
CallFacts(c, i) ==
    /\ Script[c][i].op \in {"register", "begin", "end", "close", "confirm", "finalize",
                            "shutdown"}
    /\ Script[c][i].op = "begin" => Script[c][i].arg \in {"cancel", "export"}
    /\ Script[c][i].op = "close" => i = Len(Script[c]) /\ c # "launcher"

LEMMA CallFields ==
    ASSUME NEW o, NEW a
    PROVE  Call(o, a).op = o /\ Call(o, a).arg = a
BY DEF Call

(* The calls a component makes: it registers first, its permit is its last call,
   and the driver and the reward host confirm before that.                     *)
LEMMA ScriptFacts ==
    /\ \A c \in Component :
          /\ Len(Script[c]) \in 2 .. 6
          /\ Script[c][1].op = "register"
          /\ \A i \in 1 .. Len(Script[c]) : CallFacts(c, i)
    /\ Len(Script["rm_host"]) = 3
    /\ Script["rm_host"][2] = Call("confirm", "worker")
    /\ Len(Script["driver"]) = 3
    /\ Script["driver"][2] = Call("confirm", "rm_host")
<1>1. Len(Script["rm_host"]) = 3 /\ Script["rm_host"][2] = Call("confirm", "worker")
  BY DEF Script, Component, Call
<1>2. Len(Script["driver"]) = 3 /\ Script["driver"][2] = Call("confirm", "rm_host")
  BY DEF Script, Component, Call, DriverCalls
<1>3. ASSUME NEW c \in Component
      PROVE  /\ Len(Script[c]) \in 2 .. 6
             /\ Script[c][1].op = "register"
             /\ \A i \in 1 .. Len(Script[c]) : CallFacts(c, i)
  <2>1. CASE c = "launcher"
    <3>1. Len(Script[c]) = 5
      BY <2>1 DEF Script, Component
    <3>2. /\ Script[c][1] = Call("register", "none")
          /\ Script[c][2] = Call("confirm", "driver")
          /\ Script[c][3] = Call("confirm", "evaluator")
          /\ Script[c][4] = Call("finalize", "none")
          /\ Script[c][5] = Call("shutdown", "none")
      BY <2>1 DEF Script, Component
    <3>3. ASSUME NEW i \in 1 .. Len(Script[c]) PROVE CallFacts(c, i)
      <4>1. i = 1 \/ i = 2 \/ i = 3 \/ i = 4 \/ i = 5
        BY <3>1
      <4> QED
        BY <4>1, <3>1, <3>2, CallFields, <2>1 DEF CallFacts
    <3> QED
      BY <3>1, <3>2, <3>3, CallFields
  <2>2. CASE c = "driver"
    <3>1. Len(Script[c]) = 3
      BY <2>2 DEF Script, Component, DriverCalls
    <3>2. /\ Script[c][1] = Call("register", "none")
          /\ Script[c][2] = Call("confirm", "rm_host")
          /\ Script[c][3] = Call("close", "none")
      BY <2>2 DEF Script, Component, DriverCalls
    <3>3. ASSUME NEW i \in 1 .. Len(Script[c]) PROVE CallFacts(c, i)
      <4>1. i = 1 \/ i = 2 \/ i = 3
        BY <3>1
      <4> QED
        BY <4>1, <3>1, <3>2, CallFields, <2>2 DEF CallFacts
    <3> QED
      BY <3>1, <3>2, <3>3, CallFields
  <2>3. CASE c = "rm_host"
    <3>1. Len(Script[c]) = 3
      BY <2>3 DEF Script, Component
    <3>2. /\ Script[c][1] = Call("register", "none")
          /\ Script[c][2] = Call("confirm", "worker")
          /\ Script[c][3] = Call("close", "none")
      BY <2>3 DEF Script, Component
    <3>3. ASSUME NEW i \in 1 .. Len(Script[c]) PROVE CallFacts(c, i)
      <4>1. i = 1 \/ i = 2 \/ i = 3
        BY <3>1
      <4> QED
        BY <4>1, <3>1, <3>2, CallFields, <2>3 DEF CallFacts
    <3> QED
      BY <3>1, <3>2, <3>3, CallFields
  <2>4. CASE c = "worker"
    <3>1. Len(Script[c]) = 6
      BY <2>4 DEF Script, Component
    <3>2. /\ Script[c][1] = Call("register", "none")
          /\ Script[c][2] = Call("begin", "cancel")
          /\ Script[c][3] = Call("end", "cancel")
          /\ Script[c][4] = Call("begin", "export")
          /\ Script[c][5] = Call("end", "export")
          /\ Script[c][6] = Call("close", "none")
      BY <2>4 DEF Script, Component
    <3>3. ASSUME NEW i \in 1 .. Len(Script[c]) PROVE CallFacts(c, i)
      <4>1. i = 1 \/ i = 2 \/ i = 3 \/ i = 4 \/ i = 5 \/ i = 6
        BY <3>1
      <4> QED
        BY <4>1, <3>1, <3>2, CallFields, <2>4 DEF CallFacts
    <3> QED
      BY <3>1, <3>2, <3>3, CallFields
  <2>5. CASE c = "evaluator"
    <3>1. Len(Script[c]) = 2
      BY <2>5 DEF Script, Component
    <3>2. /\ Script[c][1] = Call("register", "none")
          /\ Script[c][2] = Call("close", "none")
      BY <2>5 DEF Script, Component
    <3>3. ASSUME NEW i \in 1 .. Len(Script[c]) PROVE CallFacts(c, i)
      <4>1. i = 1 \/ i = 2
        BY <3>1
      <4> QED
        BY <4>1, <3>1, <3>2, CallFields, <2>5 DEF CallFacts
    <3> QED
      BY <3>1, <3>2, <3>3, CallFields
  <2> QED
    BY <2>1, <2>2, <2>3, <2>4, <2>5 DEF Component
<1> QED
  BY <1>1, <1>2, <1>3

-----------------------------------------------------------------------------
(* A failure keeps the invariant, whatever else the step does to the messages *)
LEMMA FailKeeps ==
    ASSUME SInv, Fail, ServerRuns,
           UNCHANGED <<server, life, done, success>>,
           ack' \in BOOLEAN, heard' \in BOOLEAN,
           req' \subseteq req, closed' \subseteq Component, alarm' \subseteq Component
    PROVE  SInv'
<1> USE DEF SInv
<1>1. failed' = TRUE /\ cert' = FALSE /\ shutdown' = shutdown
  <2>1. CASE failed
    BY <2>1, Zenon DEF Fail, control, VerdictInv, TypeOK
  <2>2. CASE ~failed
    BY <2>2, Zenon DEF Fail
  <2> QED
    BY <2>1, <2>2
<1>2. \/ state' = state
      \/ \A c \in Component : /\ state'[c] \in {"none", "FAILED"}
                              /\ state'[c] = "none" <=> state[c] = "none"
  BY DEF Fail, control, Registered
<1>3. TypeOK'
  <2>1. state' \in [Component -> {"none", "ACTIVE", "EXIT_PERMITTED", "OFFLINE_CONFIRMED", "FAILED"}]
    BY DEF Fail, control, TypeOK, Registered
  <2>2. phase' = phase /\ evalDue' = evalDue
    BY DEF Fail, control
  <2>3. final' \in BOOLEAN
    BY DEF Fail, control, TypeOK
  <2>4. {failed', final', shutdown', evalDue', cert', ack', heard', success'} \subseteq BOOLEAN
    BY <1>1, <2>2, <2>3 DEF TypeOK
  <2> QED
    BY <2>1, <2>2, <2>4 DEF TypeOK
<1>4. EntryInv'
  BY <1>1, <1>2 DEF EntryInv, TypeOK, Evidence, Finished
<1>5. OrderInv'
  BY <1>1 DEF OrderInv
<1>6. ~success
  BY DEF VerdictInv, ServerRuns
<1>7. VerdictInv'
  BY <1>1, <1>6 DEF VerdictInv
<1>8. ClosesBottomUp'
  BY <1>2 DEF ClosesBottomUp, Alive, TypeOK
<1> QED
  BY <1>3, <1>4, <1>5, <1>7, <1>8


-----------------------------------------------------------------------------
(* An accepted request: what holds of every call, then the calls one by one *)
LEMMA AcceptedFrame ==
    ASSUME SInv, NEW c \in Component, HandleAccepted(c)
    PROVE  /\ done[c] + 1 \in 1 .. Len(Script[c])
           /\ done' = [done EXCEPT ![c] = @ + 1]
           /\ NextCall(c) = Script[c][done[c] + 1]
           /\ CallFacts(c, done[c] + 1)
           /\ life[c] # "none"
           /\ \A t \in req' : ~Finished(t)'
           /\ \A t \in Component : Finished(t) => Finished(t)'
<1> USE DEF SInv, TypeOK
<1>1. c \in req /\ req' = req \ {c} /\ done' = [done EXCEPT ![c] = @ + 1]
  BY DEF HandleAccepted, Answered
<1>2. done[c] \in Nat /\ Len(Script[c]) \in 2 .. 6 /\ done[c] # Len(Script[c]) /\ done[c] <= Len(Script[c])
  BY <1>1, ScriptFacts DEF EntryInv, Finished
<1>3. done[c] + 1 \in 1 .. Len(Script[c])
  BY <1>2
<1>4. CallFacts(c, done[c] + 1)
  BY <1>3, ScriptFacts
<1>5. \A t \in req' : t # c /\ t \in Component /\ ~Finished(t)'
  BY <1>1 DEF EntryInv, Finished
<1>6. \A t \in Component : Finished(t) => Finished(t)'
  BY <1>1, <1>2 DEF Finished
<1> QED
  BY <1>1, <1>3, <1>4, <1>5, <1>6 DEF NextCall

(* The parts of the type invariant a request does not touch *)
LEMMA AcceptedType ==
    ASSUME SInv, NEW c \in Component, HandleAccepted(c),
           state' \in [Component -> {"none", "ACTIVE", "EXIT_PERMITTED", "OFFLINE_CONFIRMED", "FAILED"}],
           phase' \in [Component -> {"none", "cancel", "export"}],
           {failed', final', shutdown', evalDue', cert'} \subseteq BOOLEAN
    PROVE  TypeOK'
<1>1. done' \in [Component -> Nat]
  BY AcceptedFrame DEF SInv, TypeOK
<1>2. \A t \in Component : done'[t] <= Len(Script[t])
  BY AcceptedFrame DEF SInv, TypeOK
<1>3. UNCHANGED <<ack, server, life, alarm, heard, success>> /\ req' \subseteq req
  BY DEF HandleAccepted
<1>4. closed' \subseteq Component
  BY DEF HandleAccepted, Answered, SInv, TypeOK
<1>5. \A t \in Component : done'[t] > 0 \/ t \in req' => life'[t] # "none"
  BY AcceptedFrame, <1>3 DEF SInv, TypeOK
<1> QED
  BY <1>1, <1>2, <1>3, <1>4, <1>5 DEF SInv, TypeOK

(* The reward host and the driver go on after they have confirmed *)
LEMMA AcceptedOrder ==
    ASSUME SInv, NEW c \in Component, HandleAccepted(c), NextCall(c).op # "confirm",
           failed' = failed,
           \A t \in Component : state[t] = "OFFLINE_CONFIRMED" => state'[t] = "OFFLINE_CONFIRMED"
    PROVE  OrderInv'
<1>1. done[c] \in Nat /\ done' = [done EXCEPT ![c] = @ + 1] /\ ~failed
  BY AcceptedFrame DEF SInv, TypeOK, HandleAccepted
<1>2. \A t \in {"rm_host", "driver"} : t = c => done[c] # 1
  BY AcceptedFrame, ScriptFacts, CallFields
<1>3. \A t \in {"rm_host", "driver"} : done'[t] >= 2 => done[t] >= 2
  BY <1>1, <1>2 DEF SInv, TypeOK, Component
<1> QED
  BY <1>1, <1>3 DEF SInv, OrderInv, Component

LEMMA RegisterKeeps ==
    ASSUME SInv, NEW c \in Component, HandleAccepted(c), NextCall(c).op = "register"
    PROVE  SInv'
<1>1. state[c] = "none" /\ ~failed /\ Register(c) /\ ServerRuns
  BY DEF HandleAccepted, Valid, Effect
<1>2. done[c] = 0 /\ done' = [done EXCEPT ![c] = 1]
  BY <1>1, AcceptedFrame DEF SInv, EntryInv
<1>3. UNCHANGED <<server, life, success, heard>>
  BY DEF HandleAccepted
<1>4. state' = [state EXCEPT ![c] = "ACTIVE"] /\ UNCHANGED <<phase, failed, final, shutdown, cert>>
  BY <1>1 DEF Register
<1>5. TypeOK'
  <2>1. evalDue' \in BOOLEAN
    BY <1>1 DEF Register
  <2> QED
    BY <1>4, <2>1, AcceptedType DEF SInv, TypeOK
<1>6. EntryInv'
  <2>1. \A t \in Component : done'[t] = 0 <=> state'[t] = "none"
    BY <1>1, <1>2, <1>4 DEF SInv, TypeOK, EntryInv
  <2>2. \A t \in Component : state'[t] \in {"EXIT_PERMITTED", "OFFLINE_CONFIRMED"} =>
           t \in Expected /\ Finished(t)'
    BY <1>4, AcceptedFrame DEF SInv, TypeOK, EntryInv
  <2>3. \A t \in Component : life'[t] = "exited" => t \in Expected /\ Finished(t)'
    BY <1>3, AcceptedFrame DEF SInv, EntryInv
  <2>4. \A t \in Component : state'[t] = "OFFLINE_CONFIRMED" => Evidence(t)'
    BY <1>3, <1>4 DEF SInv, TypeOK, EntryInv, Evidence
  <2> QED
    BY <2>1, <2>2, <2>3, <2>4, AcceptedFrame DEF EntryInv
<1>7. OrderInv'
  BY <1>1, <1>4, AcceptedOrder DEF SInv, TypeOK
<1>8. VerdictInv'
  BY <1>1, <1>3, <1>4 DEF SInv, TypeOK, VerdictInv, Expected
<1>9. ClosesBottomUp'
  BY <1>1, <1>3, <1>4 DEF SInv, TypeOK, ClosesBottomUp, Alive
<1> QED
  BY <1>5, <1>6, <1>7, <1>8, <1>9 DEF SInv

LEMMA PhaseKeeps ==
    ASSUME SInv, NEW c \in Component, HandleAccepted(c), NextCall(c).op \in {"begin", "end"}
    PROVE  SInv'
<1>1. state[c] = "ACTIVE" /\ ~failed /\ Phase(c, NextCall(c)) /\ ServerRuns
  BY DEF HandleAccepted, Valid, Effect, PhaseOK
<1>2. UNCHANGED <<server, life, success, heard>>
  BY DEF HandleAccepted
<1>3. UNCHANGED <<state, failed, final, shutdown, evalDue, cert>>
  BY <1>1 DEF Phase
<1>4. phase' \in [Component -> {"none", "cancel", "export"}]
  BY <1>1, AcceptedFrame DEF Phase, CallFacts, SInv, TypeOK
<1>5. TypeOK'
  BY <1>3, <1>4, AcceptedType DEF SInv, TypeOK
<1>6. EntryInv'
  BY <1>1, <1>2, <1>3, AcceptedFrame DEF SInv, TypeOK, EntryInv, Evidence
<1>7. OrderInv'
  BY <1>3, AcceptedOrder
<1>8. VerdictInv'
  BY <1>2, <1>3 DEF SInv, VerdictInv
<1>9. ClosesBottomUp'
  BY <1>2, <1>3 DEF SInv, ClosesBottomUp, Alive
<1> QED
  BY <1>5, <1>6, <1>7, <1>8, <1>9 DEF SInv

LEMMA CloseKeeps ==
    ASSUME SInv, NEW c \in Component, HandleAccepted(c), NextCall(c).op = "close"
    PROVE  SInv'
<1>1. state[c] = "ACTIVE" /\ ~failed /\ PrepareClose(c) /\ ServerRuns
  BY DEF HandleAccepted, Valid, Effect, CloseOK
<1>2. UNCHANGED <<server, life, success, heard>>
  BY DEF HandleAccepted
<1>3. /\ state' = [state EXCEPT ![c] = "EXIT_PERMITTED"]
      /\ UNCHANGED <<phase, failed, final, shutdown, evalDue, cert>>
  BY <1>1 DEF PrepareClose
<1>4. done[c] + 1 = Len(Script[c]) /\ c # "launcher" /\ done[c] \in Nat
  BY AcceptedFrame DEF CallFacts, SInv, TypeOK
<1>5. TypeOK'
  BY <1>3, AcceptedType DEF SInv, TypeOK
<1>6. EntryInv'
  <2>1. Finished(c)'
    BY <1>4, AcceptedFrame DEF Finished, SInv, TypeOK
  <2> QED
    BY <1>1, <1>2, <1>3, <1>4, <2>1, AcceptedFrame DEF SInv, TypeOK, EntryInv, Evidence, Expected
<1>7. OrderInv'
  BY <1>1, <1>3, AcceptedOrder DEF SInv, TypeOK
<1>8. VerdictInv'
  BY <1>1, <1>2, <1>3 DEF SInv, TypeOK, VerdictInv, Expected
<1>9. ClosesBottomUp'
  <2>1. \A t \in Allowed[c] : state[t] = "OFFLINE_CONFIRMED"
    <3>1. ASSUME c \in {"rm_host", "driver"} PROVE done[c] >= 2
      <4>1. Len(Script[c]) = 3
        <5>1. c = "rm_host" \/ c = "driver"
          BY <3>1
        <5> QED
          BY <5>1, ScriptFacts, Zenon
      <4>2. done[c] \in Nat /\ done[c] + 1 = 3
        BY <1>4, <4>1, Zenon
      <4> QED
        BY <4>2
    <3> QED
      BY <1>1, <1>4, <3>1 DEF SInv, OrderInv, Allowed, Component
  <2> QED
    BY <1>1, <1>2, <1>3, <2>1 DEF SInv, TypeOK, ClosesBottomUp, Alive, Allowed, Component, Expected
<1> QED
  BY <1>5, <1>6, <1>7, <1>8, <1>9 DEF SInv


LEMMA ConfirmKeeps ==
    ASSUME SInv, NEW c \in Component, HandleAccepted(c), NextCall(c).op = "confirm"
    PROVE  SInv'
<1> DEFINE t == NextCall(c).arg
<1>1. ConfirmOK(c, t) /\ ~failed /\ Confirm(t) /\ ServerRuns
  BY DEF HandleAccepted, Valid, Effect
<1>2. UNCHANGED <<server, life, success, heard>>
  BY DEF HandleAccepted
<1>3. state' = [state EXCEPT ![t] = "OFFLINE_CONFIRMED"] /\ UNCHANGED <<phase, failed, final, shutdown, cert>>
  BY <1>1 DEF Confirm
<1>4. t \in Expected /\ state[c] = "ACTIVE" /\ state[t] = "EXIT_PERMITTED" /\ Evidence(t)
  BY <1>1 DEF ConfirmOK, Allowed, Component, Expected
<1> HIDE DEF t
<1>5. TypeOK'
  <2>1. evalDue' \in BOOLEAN
    <3>1. evalDue' = (evalDue \/ (/\ \A u \in Training \cap Registered : state'[u] = "OFFLINE_CONFIRMED"
                                  /\ state["evaluator"] = "none"))
      BY <1>1, Zenon DEF Confirm
    <3> QED
      BY <3>1
  <2>2. state' \in [Component -> {"none", "ACTIVE", "EXIT_PERMITTED", "OFFLINE_CONFIRMED", "FAILED"}]
    BY <1>3 DEF SInv, TypeOK
  <2> QED
    BY <1>3, <2>1, <2>2, AcceptedType DEF SInv, TypeOK
<1>6. EntryInv'
  <2>1. \A u \in Component : done'[u] = 0 <=> state'[u] = "none"
    BY <1>1, <1>3, <1>4, AcceptedFrame DEF SInv, TypeOK, EntryInv, Expected
  <2>2. \A u \in Component : state'[u] \in {"EXIT_PERMITTED", "OFFLINE_CONFIRMED"} =>
           u \in Expected /\ Finished(u)'
    BY <1>3, <1>4, AcceptedFrame DEF SInv, TypeOK, EntryInv
  <2>3. \A u \in Component : life'[u] = "exited" => u \in Expected /\ Finished(u)'
    BY <1>2, AcceptedFrame DEF SInv, EntryInv
  <2>4. \A u \in Component : state'[u] = "OFFLINE_CONFIRMED" => Evidence(u)'
    BY <1>2, <1>3, <1>4 DEF SInv, TypeOK, EntryInv, Evidence
  <2> QED
    BY <2>1, <2>2, <2>3, <2>4, AcceptedFrame DEF EntryInv
<1>7. OrderInv'
  <2>1. done[c] \in Nat /\ done' = [done EXCEPT ![c] = @ + 1] /\ NextCall(c) = Script[c][done[c] + 1]
    BY AcceptedFrame DEF SInv, TypeOK
  <2>2. c = "rm_host" /\ done[c] = 1 => t = "worker"
    BY <2>1, ScriptFacts, CallFields DEF t
  <2>3. c = "driver" /\ done[c] = 1 => t = "rm_host"
    BY <2>1, ScriptFacts, CallFields DEF t
  <2>4. state'["worker"] = "OFFLINE_CONFIRMED" <=> state["worker"] = "OFFLINE_CONFIRMED" \/ t = "worker"
    BY <1>3, <1>4 DEF SInv, TypeOK, Component
  <2>5. state'["rm_host"] = "OFFLINE_CONFIRMED" <=> state["rm_host"] = "OFFLINE_CONFIRMED" \/ t = "rm_host"
    BY <1>3, <1>4 DEF SInv, TypeOK, Component
  <2>6. done'["rm_host"] >= 2 => done["rm_host"] >= 2 \/ t = "worker"
    BY <2>1, <2>2 DEF SInv, TypeOK, Component
  <2>7. done'["driver"] >= 2 => done["driver"] >= 2 \/ t = "rm_host"
    BY <2>1, <2>3 DEF SInv, TypeOK, Component
  <2> QED
    BY <1>1, <2>4, <2>5, <2>6, <2>7 DEF SInv, OrderInv
<1>8. VerdictInv'
  BY <1>1, <1>2, <1>3 DEF SInv, TypeOK, VerdictInv, Expected
<1>9. ClosesBottomUp'
  BY <1>2, <1>3, <1>4 DEF SInv, TypeOK, ClosesBottomUp, Alive, Evidence, Allowed, Component, Expected
<1> QED
  BY <1>5, <1>6, <1>7, <1>8, <1>9 DEF SInv

(* The decision and the close permit: no entry changes *)
LEMMA VerdictKeeps ==
    ASSUME SInv, NEW c \in Component, HandleAccepted(c), NextCall(c).op \in {"finalize", "shutdown"}
    PROVE  SInv'
<1>1. ~failed /\ ServerRuns /\ UNCHANGED <<server, life, success, heard>>
  BY DEF HandleAccepted
<1>2. \/ FinalizeOK(c) /\ Finalize
      \/ final /\ Shutdown
  BY DEF HandleAccepted, Valid, Effect
<1>3. UNCHANGED <<state, phase, failed, evalDue>>
  BY <1>2 DEF Finalize, Shutdown
<1>4. state[c] # "none"
  <2>1. done[c] # 0
    BY AcceptedFrame, ScriptFacts DEF SInv, TypeOK
  <2> QED
    BY <1>1, <2>1 DEF SInv, EntryInv
<1>5. TypeOK'
  <2>1. {final', shutdown', cert'} \subseteq BOOLEAN
    BY <1>2 DEF Finalize, Shutdown, SInv, TypeOK
  <2> QED
    BY <1>3, <2>1, AcceptedType DEF SInv, TypeOK
<1>6. EntryInv'
  <2>1. \A t \in Component : done'[t] = 0 <=> done[t] = 0
    BY <1>1, <1>4, AcceptedFrame DEF SInv, TypeOK, EntryInv
  <2> QED
    BY <1>1, <1>3, <2>1, AcceptedFrame DEF SInv, EntryInv, Evidence
<1>7. OrderInv'
  BY <1>3, AcceptedOrder
<1>8. VerdictInv'
  <2>1. CASE FinalizeOK(c) /\ Finalize
    <3>1. \A t \in Expected : state[t] = "OFFLINE_CONFIRMED"
      BY <2>1 DEF FinalizeOK
    <3>2. final' = TRUE /\ UNCHANGED <<state, failed, shutdown, cert>>
      BY <2>1 DEF Finalize
    <3> QED
      BY <1>1, <3>1, <3>2 DEF SInv, VerdictInv
  <2>2. CASE final /\ Shutdown
    <3>1. shutdown' = TRUE /\ cert' = TRUE /\ UNCHANGED <<state, failed, final>>
      BY <2>2 DEF Shutdown
    <3> QED
      BY <1>1, <2>2, <3>1 DEF SInv, VerdictInv
  <2> QED
    BY <1>2, <2>1, <2>2
<1>9. ClosesBottomUp'
  BY <1>1, <1>3 DEF SInv, ClosesBottomUp, Alive
<1> QED
  BY <1>5, <1>6, <1>7, <1>8, <1>9 DEF SInv

LEMMA AcceptedKeeps ==
    ASSUME SInv, NEW c \in Component, HandleAccepted(c)
    PROVE  SInv'
<1>1. NextCall(c).op \in {"register", "begin", "end", "close", "confirm", "finalize", "shutdown"}
  BY AcceptedFrame DEF CallFacts
<1> QED
  BY <1>1, RegisterKeeps, PhaseKeeps, CloseKeeps, ConfirmKeeps, VerdictKeeps


-----------------------------------------------------------------------------
(* A record that cannot be written: there is no certificate yet *)
LEMMA RecordFailsKeeps ==
    ASSUME SInv, NEW c \in Component, RecordFails(c)
    PROVE  SInv'
<1> DEFINE call == NextCall(c)
<1> DEFINE t == IF call.op = "confirm" THEN call.arg ELSE c
<1>1. failed' = TRUE /\ ~shutdown /\ req' \subseteq req /\ closed' \subseteq Component
  BY DEF RecordFails, SInv, TypeOK
<1>2. UNCHANGED <<evalDue, cert, ack, server, life, done, alarm, heard, success>>
  BY DEF RecordFails
<1>3. CallFacts(c, done[c] + 1) /\ call = Script[c][done[c] + 1]
  <2>1. done[c] + 1 \in 1 .. Len(Script[c])
    <3>1. c \in req /\ Len(Script[c]) \in 2 .. 6
      BY ScriptFacts DEF RecordFails
    <3> QED
      BY <3>1 DEF SInv, TypeOK, EntryInv, Finished
  <2> QED
    BY <2>1, ScriptFacts DEF NextCall
<1>4. ConfirmOK(c, call.arg) \/ call.op # "confirm"
  BY DEF RecordFails, Valid
<1>5. state[c] = "none" \/ call.op # "register"
  BY DEF RecordFails, Valid
<1>6. \A u \in Component :
         \/ state'[u] = state[u]
         \/ state'[u] = "ACTIVE"
         \/ state'[u] = "OFFLINE_CONFIRMED" /\ u \in Expected /\ state[u] = "EXIT_PERMITTED" /\ Evidence(u)
  BY <1>4 DEF RecordFails, SInv, TypeOK, ConfirmOK, Allowed, Component, Expected
<1>7. \A u \in Component : state[u] = "OFFLINE_CONFIRMED" => state'[u] = "OFFLINE_CONFIRMED"
  BY <1>4, <1>5 DEF RecordFails, SInv, TypeOK, ConfirmOK, Allowed, Component, Expected
<1>8. TypeOK'
  <2>1. state' \in [Component -> {"none", "ACTIVE", "EXIT_PERMITTED", "OFFLINE_CONFIRMED", "FAILED"}]
    BY DEF RecordFails, SInv, TypeOK
  <2>2. phase' \in [Component -> {"none", "cancel", "export"}]
    BY <1>3 DEF RecordFails, SInv, TypeOK, CallFacts
  <2>3. final' \in BOOLEAN /\ shutdown' \in BOOLEAN
    <3>1. final' = (final \/ call.op = "finalize") /\ shutdown' = (call.op = "shutdown")
      BY Zenon DEF RecordFails
    <3> QED
      BY <3>1
  <2> QED
    BY <1>1, <1>2, <2>1, <2>2, <2>3 DEF SInv, TypeOK
<1>9. EntryInv'
  BY <1>1, <1>2, <1>6 DEF SInv, EntryInv, Evidence, Finished
<1>10. OrderInv'
  BY <1>1 DEF OrderInv
<1>11. VerdictInv'
  <2>1. ~cert
    BY <1>1, Zenon DEF SInv, VerdictInv
  <2> QED
    BY <1>1, <1>2, <2>1 DEF SInv, VerdictInv
<1>12. ClosesBottomUp'
  BY <1>2, <1>6, <1>7 DEF SInv, TypeOK, ClosesBottomUp, Alive, Evidence, Allowed, Component, Expected
<1> QED
  BY <1>8, <1>9, <1>10, <1>11, <1>12 DEF SInv

(* The supervisor answers, returns and ends *)
LEMMA ServerKeeps ==
    ASSUME SInv, UNCHANGED <<control, clients, alarm, heard, success>>,
           ack' \in BOOLEAN, server' \in {"up", "ok", "bad", "exit0", "exit1"},
           server = "exit0" => server' = "exit0"
    PROVE  SInv'
<1>1. TypeOK'
  BY DEF SInv, TypeOK, control, clients
<1>2. EntryInv'
  BY DEF SInv, EntryInv, Evidence, Finished, control, clients
<1>3. OrderInv'
  BY DEF SInv, OrderInv, control, clients
<1>4. VerdictInv'
  BY DEF SInv, VerdictInv, control, clients
<1>5. ClosesBottomUp'
  BY DEF SInv, ClosesBottomUp, Alive, control, clients
<1> QED
  BY <1>1, <1>2, <1>3, <1>4, <1>5 DEF SInv

(* Components send and report, and fail to *)
LEMMA MessagesKeep ==
    ASSUME SInv, UNCHANGED <<control, ack, server, life, done, heard, success>>,
           closed' \subseteq Component, alarm' \subseteq Component,
           \/ req' = req
           \/ \E c \in Component : Alive(c) /\ ~Finished(c) /\ req' = req \cup {c}
    PROVE  SInv'
<1>1. TypeOK'
  BY DEF SInv, TypeOK, control, Alive
<1>2. EntryInv'
  BY DEF SInv, EntryInv, Evidence, Finished, control
<1>3. OrderInv'
  BY DEF SInv, OrderInv, control
<1>4. VerdictInv'
  BY DEF SInv, VerdictInv, control
<1>5. ClosesBottomUp'
  BY DEF SInv, ClosesBottomUp, Alive, control
<1> QED
  BY <1>1, <1>2, <1>3, <1>4, <1>5 DEF SInv

(* Components start, end and die *)
LEMMA LifeKeeps ==
    ASSUME SInv, UNCHANGED <<control, ack, server, done, req, heard, success>>,
           closed' \subseteq Component, alarm' \subseteq Component,
           life' \in [Component -> {"alive", "exited", "failed", "none"}],
           \A c \in Component :
              \/ life'[c] = life[c]
              \/ life[c] = "none" /\ life'[c] = "alive" /\ done[c] = 0
              \/ life[c] = "alive" /\ life'[c] = "failed"
              \/ life[c] = "alive" /\ life'[c] = "exited" /\ c # "launcher" /\ Finished(c)
    PROVE  SInv'
<1>1. TypeOK'
  BY DEF SInv, TypeOK, control
<1>2. EntryInv'
  BY DEF SInv, TypeOK, EntryInv, Evidence, Finished, Expected, control
<1>3. OrderInv'
  BY DEF SInv, OrderInv, control
<1>4. VerdictInv'
  BY DEF SInv, VerdictInv, control
<1>5. ClosesBottomUp'
  BY DEF SInv, TypeOK, EntryInv, Evidence, ClosesBottomUp, Alive, control
<1> QED
  BY <1>1, <1>2, <1>3, <1>4, <1>5 DEF SInv

LEMMA NothingToCancelKeeps ==
    ASSUME SInv, NothingToCancel
    PROVE  SInv'
<1>1. /\ done["worker"] = 1 /\ done' = [done EXCEPT !["worker"] = 3] /\ Alive("worker")
      /\ UNCHANGED <<control, ack, server, life, req, closed, alarm, heard, success>>
      /\ "worker" \notin req
  BY DEF NothingToCancel
<1>2. Len(Script["worker"]) = 6 /\ "worker" \in Component
  BY DEF Script, Component
<1>3. TypeOK'
  <2>1. done' \in [Component -> Nat] /\ \A c \in Component : done'[c] <= Len(Script[c])
    <3>1. done' \in [Component -> Nat]
      BY <1>1 DEF SInv, TypeOK
    <3>2. \A c \in Component : c # "worker" => done'[c] = done[c]
      BY <1>1 DEF SInv, TypeOK
    <3>3. done'["worker"] = 3
      BY <1>1, <1>2 DEF SInv, TypeOK
    <3>4. \A c \in Component : done[c] <= Len(Script[c])
      BY DEF SInv, TypeOK
    <3> QED
      BY <1>2, <3>1, <3>2, <3>3, <3>4
  <2>2. \A c \in Component : done'[c] > 0 \/ c \in req => life[c] # "none"
    BY <1>1 DEF SInv, TypeOK, Alive
  <2> QED
    BY <1>1, <2>1, <2>2 DEF SInv, TypeOK, control
<1>4. EntryInv'
  <2>1. \A c \in Component : done'[c] = 0 <=> done[c] = 0
    BY <1>1, <1>2 DEF SInv, TypeOK
  <2>2. \A c \in Component : c # "worker" => (Finished(c)' <=> Finished(c))
    BY <1>1 DEF SInv, TypeOK, Finished
  <2>3. ~Finished("worker") /\ life["worker"] = "alive"
    BY <1>1, <1>2 DEF Finished, Alive
  <2> QED
    BY <1>1, <1>2, <2>1, <2>2, <2>3 DEF SInv, TypeOK, EntryInv, Evidence, control
<1>5. OrderInv'
  BY <1>1 DEF SInv, TypeOK, OrderInv, control
<1>6. VerdictInv'
  BY <1>1 DEF SInv, VerdictInv, control
<1>7. ClosesBottomUp'
  BY <1>1 DEF SInv, ClosesBottomUp, Alive, control
<1> QED
  BY <1>3, <1>4, <1>5, <1>6, <1>7 DEF SInv

LEMMA SucceedKeeps ==
    ASSUME SInv, Succeed
    PROVE  SInv'
<1>1. /\ success' = TRUE /\ server = "exit0" /\ cert
      /\ UNCHANGED <<control, ack, server, clients, alarm, heard>>
  BY DEF Succeed, Certified
<1>2. TypeOK'
  BY <1>1 DEF SInv, TypeOK, control, clients
<1>3. EntryInv'
  BY <1>1 DEF SInv, EntryInv, Evidence, Finished, control, clients
<1>4. OrderInv'
  BY <1>1 DEF SInv, OrderInv, control, clients
<1>5. VerdictInv'
  BY <1>1 DEF SInv, VerdictInv, control, clients
<1>6. ClosesBottomUp'
  BY <1>1 DEF SInv, ClosesBottomUp, Alive, control, clients
<1> QED
  BY <1>2, <1>3, <1>4, <1>5, <1>6 DEF SInv


-----------------------------------------------------------------------------
LEMMA InitInv == Init => SInv
<1> SUFFICES ASSUME Init PROVE SInv
  OBVIOUS
<1>1. TypeOK
  <2>1. \A c \in Component : done[c] = 0 /\ 0 <= Len(Script[c])
    <3>1. \A c \in Component : Len(Script[c]) \in 2 .. 6
      BY ScriptFacts, Zenon
    <3>2. \A c \in Component : done[c] = 0
      BY DEF Init
    <3>3. ASSUME NEW c \in Component PROVE 0 <= Len(Script[c])
      <4>1. Len(Script[c]) \in 2 .. 6
        BY <3>1
      <4> QED
        BY <4>1
    <3> QED
      BY <3>2, <3>3
  <2>2. done \in [Component -> Nat] /\ req = {}
    BY DEF Init
  <2>3. {failed, final, shutdown, evalDue, cert, ack, heard, success} \subseteq BOOLEAN
    BY DEF Init
  <2> QED
    BY <2>1, <2>2, <2>3 DEF Init, TypeOK
<1>2. EntryInv
  BY ScriptFacts DEF Init, EntryInv
<1>3. OrderInv
  BY DEF Init, OrderInv, Component
<1>4. VerdictInv
  BY DEF Init, VerdictInv
<1>5. ClosesBottomUp
  BY DEF Init, ClosesBottomUp
<1> QED
  BY <1>1, <1>2, <1>3, <1>4, <1>5 DEF SInv

(* One step of the supervisor, of a component or of the launcher *)
LEMMA StepInv == SInv /\ [Next]_vars => SInv'
<1> SUFFICES ASSUME SInv, [Next]_vars PROVE SInv'
  OBVIOUS
<1>1. ack \in BOOLEAN /\ heard \in BOOLEAN /\ closed \subseteq Component /\ alarm \subseteq Component
  BY DEF SInv, TypeOK
<1>2. ASSUME NEW c \in Component, Handles(c) PROVE SInv'
  <2>1. CASE HandleAccepted(c)
    BY <2>1, AcceptedKeeps
  <2>2. CASE HandleRefused(c)
    BY <2>2, <1>1, FailKeeps DEF HandleRefused
  <2>3. CASE RecordFails(c)
    BY <2>3, RecordFailsKeeps
  <2> QED
    BY <1>2, <2>1, <2>2, <2>3 DEF Handles
<1>3. ASSUME NEW c \in Component, HandleEof(c) PROVE SInv'
  BY <1>3, <1>1, FailKeeps DEF HandleEof, clients
<1>4. ASSUME NEW c \in Component, HandleFatal(c) PROVE SInv'
  BY <1>4, <1>1, FailKeeps DEF HandleFatal, clients
<1>5. ASSUME Watches, Tick PROVE SInv'
  BY <1>5, <1>1, FailKeeps DEF Tick, Watches, ServerRuns, clients
<1>6. ASSUME NEW c \in Component, Expires(c) \/ HeartbeatTimeout(c) PROVE SInv'
  BY <1>5, <1>6 DEF Expires, HeartbeatTimeout, PhaseTimeout, ExitTimeout
<1>7. ASSUME EvaluationTimeout PROVE SInv'
  BY <1>5, <1>7 DEF EvaluationTimeout
<1>8. ASSUME NEW c \in Component, Send(c) \/ HeartbeatFails(c) \/ ReportFatal(c) \/ LoseFatal(c)
      PROVE  SInv'
  BY <1>8, <1>1, MessagesKeep DEF Send, HeartbeatFails, ReportFatal, LoseFatal, clients
<1>9. ASSUME NEW c \in Component, Start(c) PROVE SInv'
  <2>1. done[c] = 0
    BY <1>9 DEF Start, SInv, TypeOK
  <2> QED
    BY <1>9, <1>1, <2>1, LifeKeeps DEF Start, SInv, TypeOK
<1>10. ASSUME NEW c \in Component, Exit(c) PROVE SInv'
  BY <1>10, <1>1, LifeKeeps DEF Exit, Alive, SInv, TypeOK
<1>11. ASSUME NEW c \in Component, Die(c) PROVE SInv'
  <2>1. DiesWith(c) \subseteq Component /\ \A t \in DiesWith(c) : life[t] = "alive"
    BY <1>11 DEF Die, DiesWith, Alive, Component
  <2>2. closed' \subseteq Component /\ alarm' \subseteq Component
    BY <1>11, <1>1, <2>1 DEF Die
  <2>3. /\ life' \in [Component -> {"alive", "exited", "failed", "none"}]
        /\ \A t \in Component : \/ life'[t] = life[t]
                                \/ life[t] = "alive" /\ life'[t] = "failed"
    BY <1>11, <2>1 DEF Die, SInv, TypeOK
  <2> QED
    BY <1>11, <2>2, <2>3, LifeKeeps DEF Die
<1>12. ASSUME Acknowledge PROVE SInv'
  <2>1. CASE "launcher" \notin closed
    BY <1>12, <2>1, ServerKeeps DEF Acknowledge, SInv, TypeOK
  <2>2. CASE "launcher" \in closed
    BY <1>12, <2>2, <1>1, FailKeeps DEF Acknowledge, clients
  <2> QED
    BY <2>1, <2>2
<1>13. ASSUME ServeReturns \/ ServerExits \/ ServerDies PROVE SInv'
  BY <1>13, <1>1, ServerKeeps DEF ServeReturns, ServerExits, ServerDies, ServerRuns
<1>14. CASE UNCHANGED vars
  BY <1>14, <1>1, ServerKeeps DEF vars, SInv, TypeOK
<1>15. ASSUME NEW c \in Component, Proceeds(c) PROVE SInv'
  BY <1>8, <1>9, <1>10, <1>15 DEF Proceeds
<1> QED
  BY <1>2, <1>3, <1>4, <1>6, <1>7, <1>8, <1>11, <1>12, <1>13, <1>14, <1>15,
     NothingToCancelKeeps, SucceedKeeps DEF Next

(* The inductive invariant of the control plane *)
THEOREM ControlInvariant == Spec => []SInv
<1>1. Init => SInv
  BY InitInv
<1>2. SInv /\ [Next]_vars => SInv'
  BY StepInv
<1> QED
  BY <1>1, <1>2, PTL DEF Spec

(* The variables keep their types, and no component is heard that was not started
   or past the end of its calls.                                              *)
THEOREM TypeCorrect == Spec => []TypeOK
<1>1. SInv => TypeOK
  BY DEF SInv
<1> QED
  BY <1>1, ControlInvariant, PTL

LEMMA CertificateMeans ==
    ASSUME SInv, cert
    PROVE  /\ ~heard
           /\ \A c \in Expected : /\ Finished(c)
                                  /\ life[c] = "exited" \/ (c = "worker" /\ life[c] = "failed")
<1>1. ~failed /\ ~heard /\ \A c \in Expected : state[c] = "OFFLINE_CONFIRMED"
  BY Zenon DEF SInv, VerdictInv
<1> QED
  BY <1>1 DEF SInv, EntryInv, Evidence, Expected

(* A certificate on disk means that no fatal message was handled and that everybody
   but the launcher is gone with its permit.                                  *)
THEOREM CertificateSound == Spec => []CertificateHolds
<1>1. SInv => CertificateHolds
  <2>1. ASSUME SInv, cert
        PROVE  ~heard /\ \A c \in Expected : Finished(c) /\ life[c] \notin {"none", "alive"}
    BY <2>1, CertificateMeans
  <2> QED
    BY <2>1, Zenon DEF CertificateHolds
<1> QED
  BY <1>1, ControlInvariant, PTL

(* A successful run had a supervisor that ended well, heard of no failure, and all
   processes ended normally.                                                  *)
THEOREM SuccessSound == Spec => []SuccessIsClean
<1>1. SInv => SuccessIsClean
  <2> SUFFICES ASSUME SInv, success PROVE SuccessIsClean
    BY Zenon DEF SuccessIsClean
  <2>1. server = "exit0" /\ cert
    BY Zenon DEF SInv, VerdictInv
  <2>2. /\ ~heard
        /\ \A c \in Expected : /\ Finished(c)
                               /\ life[c] = "exited" \/ (c = "worker" /\ life[c] = "failed")
    BY <2>1, CertificateMeans
  <2>3. \A c \in Expected : /\ Finished(c) /\ life[c] # "alive"
                            /\ c # "worker" => life[c] = "exited"
    BY <2>2
  <2> QED
    BY <2>1, <2>2, <2>3, Zenon DEF SuccessIsClean
<1> QED
  BY <1>1, ControlInvariant, PTL

(* Permits are given from the bottom up, and nobody is confirmed gone who runs *)
THEOREM ClosedInOrder == Spec => []ClosesBottomUp
<1>1. SInv => ClosesBottomUp
  BY DEF SInv
<1> QED
  BY <1>1, ControlInvariant, PTL

-----------------------------------------------------------------------------
(* The trace campaign and its gate.  What directories, verdict files and runners are
   made of.                                                                          *)
Fields == {"by", "events", "verdicts", "torn", "config", "meta", "report", "verdict", "exit", "manifest"}
JobFields == {"mode", "seed", "commit", "clean", "dir", "next", "failed", "rc"}
Modes == {"formal", "smoke"}
Listing(q) == Len(q) \in Nat /\ q = [i \in 1 .. Len(q) |-> q[i]]

(* What a directory, a verdict file and the state of a runner are made of *)
Shapes ==
    /\ tree \in [commit : Nat, clean : BOOLEAN, edits : Nat]
    /\ path = Len(dirs) /\ Listing(dirs)
    /\ \A i \in DOMAIN dirs : DOMAIN dirs[i] = Fields /\ Listing(dirs[i].verdicts)
    /\ pc = [r \in Runner |-> pc[r]] /\ job = [r \in Runner |-> job[r]]
    /\ \A r \in Runner : DOMAIN job[r] = JobFields

(* A runner holds the logs of a directory from its start on, and a formal one only from
   a clean checkout.                                                                   *)
JobFits(r) ==
    /\ job[r].dir \in 0 .. path /\ job[r].next \in Nat \ {0}
    /\ job[r].commit \in 0 .. tree.commit
    /\ pc[r] # "idle" => path # 0 /\ job[r].mode \in Modes
    /\ pc[r] \in {"idle", "identify", "open"} => job[r].dir = 0
    /\ pc[r] = "trials" => job[r].dir # 0 /\ ~job[r].failed
    /\ job[r].dir = 0 => job[r].next = 1 /\ ~job[r].failed
    /\ job[r].dir # 0 => /\ job[r].mode \in Modes
                         /\ job[r].mode = "formal" => job[r].clean
JobInv == \A r \in Runner : JobFits(r)

KeyAt(i, n) == Key(dirs[i].verdicts[n].of)
Due(r, n) == <<CutAt(job[r].mode, n), TrialAt(job[r].mode, n)>>
First == <<Cuts[1], 0>>

(* Some runner has written verdicts in a directory. *)
Ran(r, i) == job[r].dir = i /\ job[r].next > 1

(* Everybody begins with the same trial: where two have written, it is there twice, and
   where one has, there is what its schedule says.                                     *)
MixInv == \A i \in DOMAIN dirs :
    /\ \A r \in Runner : Ran(r, i) => \E n \in DOMAIN dirs[i].verdicts : KeyAt(i, n) = First
    /\ \A r, q \in Runner : r # q /\ Ran(r, i) /\ Ran(q, i) =>
          \E m, n \in DOMAIN dirs[i].verdicts : m # n /\ KeyAt(i, m) = First /\ KeyAt(i, n) = First
    /\ \A r \in Runner : Ran(r, i) /\ (\A q \in Runner : Ran(q, i) => q = r) =>
          /\ Len(dirs[i].verdicts) = job[r].next - 1
          /\ \A n \in DOMAIN dirs[i].verdicts : KeyAt(i, n) = Due(r, n)
    /\ (\A r \in Runner : ~Ran(r, i)) => dirs[i].verdicts = <<>>
    /\ \A r \in Runner : job[r].dir = i /\ job[r].failed =>
          \E n \in DOMAIN dirs[i].verdicts : ~TrialPasses(dirs[i].verdicts[n].of)

(* A report says what some runner did that is over with its trials. *)
IsReportOf(r, report) ==
    /\ pc[r] \in {"verdict", "exit", "manifest", "done", "dead"}
    /\ report.mode = job[r].mode /\ report.commit = job[r].commit
    /\ report.n = job[r].next - 1
    /\ report.failures = IF job[r].failed THEN 1 ELSE 0
ReportInv == \A i \in DOMAIN dirs :
    dirs[i].report # Absent => \E r \in Runner : IsReportOf(r, dirs[i].report)

(* The runner that made a directory took its identity after those who hold the logs of
   an earlier one, and holds that one or a later one.                                  *)
MakerInv == \A i \in DOMAIN dirs, r \in Runner : dirs[i].by = r =>
    /\ job[r].dir # 0 => i <= job[r].dir
    /\ pc[r] = "open" \/ job[r].dir # 0 =>
          \A q \in Runner : job[q].dir \in 1 .. i - 1 => job[q].commit <= job[r].commit

TraceInv == Shapes /\ JobInv /\ MixInv /\ ReportInv /\ MakerInv

-----------------------------------------------------------------------------

LEMMA ListingIsSeq ==
    ASSUME NEW q, Listing(q)
    PROVE  DOMAIN q = 1 .. Len(q) /\ q \in Seq(Range(q))
<1>1. DOMAIN q = 1 .. Len(q)
  BY DEF Listing
<1>2. \A i \in 1 .. Len(q) : q[i] \in Range(q)
  BY <1>1 DEF Range
<1> QED
  BY <1>1, <1>2 DEF Listing

LEMMA AppendListing ==
    ASSUME NEW q, Listing(q), NEW x
    PROVE  /\ Listing(Append(q, x)) /\ Len(Append(q, x)) = Len(q) + 1
           /\ DOMAIN Append(q, x) = 1 .. Len(q) + 1
           /\ \A i \in 1 .. Len(q) : Append(q, x)[i] = q[i]
           /\ Append(q, x)[Len(q) + 1] = x
<1> DEFINE S == Range(q) \union {x}
<1>1. q \in Seq(S) /\ x \in S /\ Len(q) \in Nat
  <2>1. DOMAIN q = 1 .. Len(q) /\ \A i \in 1 .. Len(q) : q[i] \in S
    BY ListingIsSeq DEF Range, Listing
  <2> QED
    BY <2>1 DEF Listing
<1> HIDE DEF S
<1>2. /\ Append(q, x) \in Seq(S) /\ Len(Append(q, x)) = Len(q) + 1
      /\ \A i \in 1 .. Len(q) : Append(q, x)[i] = q[i]
      /\ Append(q, x)[Len(q) + 1] = x
  BY <1>1
<1> DEFINE a == Append(q, x)
<1>3. a = [i \in 1 .. Len(a) |-> a[i]]
  <2> HIDE DEF a
  <2> SUFFICES ASSUME a \in Seq(S) PROVE a = [i \in 1 .. Len(a) |-> a[i]]
    BY <1>2 DEF a
  <2> QED
    OBVIOUS
<1> QED
  BY <1>1, <1>2, <1>3 DEF Listing

(* A field of one of the directories is written. *)
Put(ds, p, f, v) == [ds EXCEPT ![p] = [@ EXCEPT ![f] = v]]

Files(ds) == Listing(ds) /\ \A i \in DOMAIN ds : DOMAIN ds[i] = Fields
Updated(ds, es, p, f, v) ==
    /\ Len(es) = Len(ds) /\ DOMAIN es = DOMAIN ds
    /\ \A i \in DOMAIN ds : /\ i # p => es[i] = ds[i]
                            /\ \A g \in Fields : g # f => es[i][g] = ds[i][g]
    /\ p \in DOMAIN ds => es[p][f] = v

LEMMA FieldWritten ==
    ASSUME NEW ds, Files(ds), NEW p, NEW f \in Fields, NEW v
    PROVE  Files(Put(ds, p, f, v)) /\ Updated(ds, Put(ds, p, f, v), p, f, v)
<1> DEFINE es == Put(ds, p, f, v)
<1> USE DEF Put, Files, Updated
<1>1. DOMAIN es = DOMAIN ds /\ es = [i \in DOMAIN ds |-> es[i]]
  OBVIOUS
<1>2. \A i \in DOMAIN ds : es[i] = IF i = p THEN [ds[i] EXCEPT ![f] = v] ELSE ds[i]
  OBVIOUS
<1>3. DOMAIN ds = 1 .. Len(ds) /\ Len(ds) \in Nat
  BY ListingIsSeq DEF Listing
<1>4. Len(es) = Len(ds)
  BY <1>1, <1>3
<1> QED
  BY <1>1, <1>2, <1>3, <1>4 DEF Listing

-----------------------------------------------------------------------------
(* What a step does to the directories *)
Keeps(fields) ==
    /\ path' = path /\ Listing(dirs') /\ Len(dirs') = Len(dirs) /\ DOMAIN dirs' = DOMAIN dirs
    /\ \A i \in DOMAIN dirs : /\ DOMAIN dirs'[i] = Fields
                              /\ \A f \in fields : dirs'[i][f] = dirs[i][f]

KeepsAll == Keeps({"by", "events", "verdicts", "report"})

Reports(r) ==
    /\ Keeps({"by", "events", "verdicts"})
    /\ \A i \in DOMAIN dirs : i # path => dirs'[i].report = dirs[i].report
    /\ path \in DOMAIN dirs => \E report : dirs'[path].report = report /\ IsReportOf(r, report)'

Judges(r, t) ==
    /\ Key(t) = Due(r, job[r].next) /\ t.seed = job[r].seed
    /\ job' = [job EXCEPT ![r].next = job[r].next + 1, ![r].failed = ~TrialPasses(t)]
    /\ Keeps({"by", "report"})
    /\ \A i \in DOMAIN dirs : i # job[r].dir =>
          dirs'[i].verdicts = dirs[i].verdicts /\ dirs'[i].events = dirs[i].events
    /\ job[r].dir \in DOMAIN dirs =>
          /\ dirs'[job[r].dir].verdicts
                = Append(dirs[job[r].dir].verdicts, [of |-> t, pass |-> TrialPasses(t)])
          /\ dirs'[job[r].dir].events = Append(dirs[job[r].dir].events, t)

LEMMA OneWritten ==
    ASSUME Shapes, path' = path, NEW p, NEW f \in Fields, NEW v,
           dirs' = Put(dirs, p, f, v),
           NEW kept \in SUBSET Fields, f \notin kept
    PROVE  /\ Keeps(kept)
           /\ \A i \in DOMAIN dirs : i # p => dirs'[i] = dirs[i]
           /\ p \in DOMAIN dirs => dirs'[p][f] = v
<1>1. Files(dirs)
  BY DEF Shapes, Files
<1>2. Files(dirs') /\ Updated(dirs, dirs', p, f, v)
  BY <1>1, FieldWritten
<1> QED
  BY <1>2 DEF Keeps, Files, Updated

LEMMA NothingWritten ==
    ASSUME Shapes, UNCHANGED <<path, dirs>> PROVE KeepsAll
  BY DEF Shapes, KeepsAll, Keeps

LEMMA TwoWritten ==
    ASSUME Shapes, path' = path, NEW p, NEW f \in Fields, NEW v, NEW g \in Fields \ {f}, NEW w,
           dirs' = Put(Put(dirs, p, f, v), p, g, w),
           NEW kept \in SUBSET Fields, f \notin kept, g \notin kept
    PROVE  /\ Keeps(kept)
           /\ \A i \in DOMAIN dirs : i # p => dirs'[i] = dirs[i]
           /\ p \in DOMAIN dirs => dirs'[p][f] = v /\ dirs'[p][g] = w
<1> DEFINE mid == Put(dirs, p, f, v)
<1>1. Files(dirs)
  BY DEF Shapes, Files
<1>2. Files(mid) /\ Updated(dirs, mid, p, f, v)
  BY <1>1, FieldWritten
<1>3. dirs' = Put(mid, p, g, w)
  OBVIOUS
<1> HIDE DEF mid
<1>4. Files(dirs') /\ Updated(mid, dirs', p, g, w)
  BY <1>2, <1>3, FieldWritten
<1> QED
  BY <1>2, <1>4 DEF Keeps, Files, Updated

LEMMA SeveralFields ==
    /\ {"by", "events", "verdicts", "report"} \in SUBSET Fields
    /\ {"by", "events", "verdicts"} \in SUBSET Fields
    /\ {"by", "report"} \in SUBSET Fields
  BY DEF Fields

LEMMA RunTrialJudges ==
    ASSUME Shapes, NEW r \in Runner, RunTrial(r) PROVE \E t : Judges(r, t)
<1> DEFINE d == job[r].dir
<1>1. PICK t : /\ dirs' = [dirs EXCEPT ![d].events = Append(@, t),
                                        ![d].verdicts = Append(@, [of |-> t, pass |-> TrialPasses(t)])]
               /\ path' = path
               /\ job' = [job EXCEPT ![r].next = job[r].next + 1, ![r].failed = ~TrialPasses(t)]
               /\ Key(t) = Due(r, job[r].next) /\ t.seed = job[r].seed
  <2>1. PICK out :
          LET t == TrialOf(job[r].seed, job[r].mode, job[r].next, out)
          IN  /\ dirs' = [dirs EXCEPT ![d].events = Append(@, t),
                                      ![d].verdicts = Append(@, [of |-> t, pass |-> TrialPasses(t)])]
              /\ job' = [job EXCEPT ![r].next = job[r].next + 1, ![r].failed = ~TrialPasses(t)]
              /\ path' = path
    BY DEF RunTrial
  <2>2. /\ Key(TrialOf(job[r].seed, job[r].mode, job[r].next, out)) = Due(r, job[r].next)
        /\ TrialOf(job[r].seed, job[r].mode, job[r].next, out).seed = job[r].seed
    BY DEF TrialOf, Key, Due
  <2> QED
    BY <2>1, <2>2
<1> DEFINE es == Append(dirs[d].events, t)
           vs == Append(dirs[d].verdicts, [of |-> t, pass |-> TrialPasses(t)])
<1>2. CASE d \in DOMAIN dirs
  <2>1. dirs' = Put(Put(dirs, d, "events", es), d, "verdicts", vs)
    BY <1>1, <1>2 DEF Put, Shapes, Fields
  <2>2. "events" \in Fields /\ "verdicts" \in Fields \ {"events"} /\ path' = path
    BY <1>1 DEF Fields
  <2> HIDE DEF d, es, vs
  <2>3. /\ Keeps({"by", "report"})
        /\ \A i \in DOMAIN dirs : i # d => dirs'[i] = dirs[i]
        /\ d \in DOMAIN dirs => dirs'[d]["events"] = es /\ dirs'[d]["verdicts"] = vs
    BY SeveralFields, <2>1, <2>2, TwoWritten
  <2> QED
    BY <1>1, <2>3 DEF Judges, d, es, vs
<1>3. CASE d \notin DOMAIN dirs
  <2>1. dirs' = dirs
    BY <1>1, <1>3 DEF Shapes, Listing
  <2> QED
    BY <1>1, <1>3, <2>1, NothingWritten DEF Judges, KeepsAll, Keeps
<1> QED
  BY <1>2, <1>3

LEMMA DirsStep ==
    ASSUME Shapes, JobInv, [TraceNext]_traceVars
    PROVE  \/ KeepsAll
           \/ \E r \in Runner : Report(r) /\ Reports(r)
           \/ \E r \in Runner : \E t : RunTrial(r) /\ Judges(r, t)
           \/ \E r \in Runner : /\ dirs' = Append(dirs, NewDir(r)) /\ path' = path + 1
                              /\ pc'[r] = "identify" /\ job'[r].dir = 0
<1>1. CASE UNCHANGED traceVars
  BY <1>1, NothingWritten DEF traceVars
<1>2. CASE Edit
  BY <1>2, NothingWritten DEF Edit
<1>3. ASSUME NEW r \in Runner, NEW mode, NEW seed, Prepare(r, mode, seed)
      PROVE  /\ dirs' = Append(dirs, NewDir(r)) /\ path' = path + 1
             /\ pc'[r] = "identify" /\ job'[r].dir = 0
  BY <1>3 DEF Prepare, Shapes, Goto, NoJob
<1>4. ASSUME NEW r \in Runner, Identify(r) PROVE KeepsAll
  <2>1. PICK c, m : dirs' = [dirs EXCEPT ![path].config = c, ![path].meta = m]
    BY <1>4 DEF Identify
  <2>2. dirs' = Put(Put(dirs, path, "config", c), path, "meta", m)
    BY <2>1 DEF Put
  <2>3. "config" \in Fields /\ "meta" \in Fields \ {"config"} /\ path' = path
    BY <1>4 DEF Fields, Identify
  <2>4. Keeps({"by", "events", "verdicts", "report"})
    BY SeveralFields, <2>2, <2>3, TwoWritten
  <2> QED
    BY <2>4 DEF KeepsAll
<1>5. ASSUME NEW r \in Runner, Open(r) \/ EndTrials(r) PROVE KeepsAll
  BY <1>5, NothingWritten DEF Open, EndTrials
<1>6. ASSUME NEW r \in Runner, TrialRaises(r) \/ RunnerDies(r) PROVE KeepsAll
  <2>1. path' = path
    BY <1>6 DEF TrialRaises, RunnerDies
  <2>2. CASE UNCHANGED dirs
    BY <2>1, <2>2, NothingWritten
  <2>3. CASE dirs' = [dirs EXCEPT ![job[r].dir].torn = TRUE]
    <3>1. dirs' = Put(dirs, job[r].dir, "torn", TRUE) /\ "torn" \in Fields
      BY <2>3 DEF Put, Fields
    <3> QED
      BY <2>1, <3>1, SeveralFields, OneWritten DEF KeepsAll
  <2> QED
    BY <1>6, <2>2, <2>3 DEF TrialRaises, RunnerDies
<1>7. ASSUME NEW r \in Runner, Verdict(r) \/ ExitStatus(r) \/ Manifest(r) PROVE KeepsAll
  <2>1. PICK f, v : f \in {"verdict", "exit", "manifest"} /\ AtPath(f, v) /\ path' = path
    BY <1>7 DEF Verdict, ExitStatus, Manifest
  <2>2. dirs' = Put(dirs, path, f, v) /\ f \in Fields /\ f \notin {"by", "events", "verdicts", "report"}
    BY <2>1 DEF AtPath, Put, Fields
  <2> QED
    BY SeveralFields, <2>1, <2>2, OneWritten DEF KeepsAll
<1>8. ASSUME NEW r \in Runner, Report(r) PROVE Reports(r)
  <2> DEFINE v == [mode |-> job[r].mode, seed |-> job[r].seed, commit |-> job[r].commit,
                   n |-> job[r].next - 1, failures |-> IF job[r].failed THEN 1 ELSE 0,
                   pass |-> job[r].rc = 0 /\ ~job[r].failed]
  <2>1. AtPath("report", v) /\ path' = path /\ pc' = [pc EXCEPT ![r] = "verdict"] /\ job' = job
    BY <1>8 DEF Report, Goto
  <2>2. /\ v.mode = job[r].mode /\ v.commit = job[r].commit /\ v.n = job[r].next - 1
        /\ v.failures = IF job[r].failed THEN 1 ELSE 0
    OBVIOUS
  <2> HIDE DEF v
  <2>3. dirs' = Put(dirs, path, "report", v) /\ "report" \in Fields
    BY <2>1 DEF AtPath, Put, Fields
  <2>4. /\ Keeps({"by", "events", "verdicts"})
        /\ \A i \in DOMAIN dirs : i # path => dirs'[i] = dirs[i]
        /\ path \in DOMAIN dirs => dirs'[path].report = v
    BY SeveralFields, <2>1, <2>3, OneWritten
  <2>5. pc'[r] = "verdict"
    BY <2>1 DEF Shapes
  <2> QED
    BY <2>1, <2>2, <2>4, <2>5 DEF Reports, IsReportOf
<1>9. ASSUME NEW r \in Runner, RunTrial(r) PROVE \E t : Judges(r, t)
  BY <1>9, RunTrialJudges
<1> QED
  BY <1>1, <1>2, <1>3, <1>4, <1>5, <1>6, <1>7, <1>8, <1>9 DEF TraceNext

-----------------------------------------------------------------------------
(* What a step does to the runners *)
Late == {"verdict", "exit", "manifest", "done", "dead"}
Same(r, fields) == \A f \in fields : job'[r][f] = job[r][f]

Starts(r) == /\ pc[r] = "idle" /\ pc'[r] = "identify"
             /\ job'[r].mode \in Modes /\ job'[r].commit = 0 /\ job'[r].dir = 0
             /\ job'[r].next = 1 /\ ~job'[r].failed /\ path' # 0 /\ job'[r].seed \in SeedOf[r]
Identifies(r) == /\ pc[r] = "identify" /\ pc'[r] = "open" /\ tree' = tree
                 /\ job'[r].commit = tree.commit
                 /\ Same(r, JobFields \ {"commit", "clean"})
Opens(r) == /\ pc[r] = "open" /\ pc'[r] = "trials"
            /\ job[r].mode = "formal" => job[r].clean
            /\ job'[r].dir = path /\ Same(r, JobFields \ {"dir"})
Judged(r) == /\ pc[r] = "trials" /\ pc'[r] \in {"trials", "report"}
             /\ pc'[r] = "trials" => ~job'[r].failed
             /\ job'[r].next = job[r].next + 1 /\ Same(r, JobFields \ {"next", "failed"})
             /\ RunTrial(r)
Goes(r) == /\ pc[r] # "idle" /\ pc'[r] \in Late \union {"report"}
           /\ pc[r] \in Late => pc'[r] \in Late
           /\ Same(r, JobFields \ {"rc"})

Moves(r) == /\ pc' = [q \in Runner |-> pc'[q]] /\ job' = [q \in Runner |-> job'[q]]
            /\ DOMAIN job'[r] = JobFields
            /\ \A q \in Runner : q # r => pc'[q] = pc[q] /\ job'[q] = job[q]

LEMMA RunTrialMoves ==
    ASSUME Shapes, NEW r \in Runner, RunTrial(r) PROVE Moves(r) /\ Judged(r)
<1> USE DEF Shapes
<1>1. PICK ok \in BOOLEAN :
        /\ job' = [job EXCEPT ![r].next = job[r].next + 1, ![r].failed = ~ok]
        /\ pc[r] = "trials"
        /\ IF ok THEN pc' = pc ELSE pc' = [pc EXCEPT ![r] = "report"]
  <2>1. PICK t : /\ job' = [job EXCEPT ![r].next = job[r].next + 1, ![r].failed = ~TrialPasses(t)]
                 /\ IF TrialPasses(t) THEN UNCHANGED pc ELSE Goto(r, "report")
                 /\ pc[r] = "trials"
    BY DEF RunTrial
  <2>2. CASE TrialPasses(t)
    BY <2>1, <2>2 DEF Goto
  <2>3. CASE ~TrialPasses(t)
    BY <2>1, <2>3 DEF Goto
  <2> QED
    BY <2>2, <2>3
<1> QED
  BY <1>1 DEF Moves, Judged, Same, JobFields

LEMMA RunnersStep ==
    ASSUME Shapes, [TraceNext]_traceVars
    PROVE  \/ UNCHANGED <<pc, job>>
           \/ \E r \in Runner :
                 Moves(r) /\ (Starts(r) \/ Identifies(r) \/ Opens(r) \/ Judged(r) \/ Goes(r))
<1> USE DEF Shapes
<1>1. CASE UNCHANGED traceVars
  BY <1>1 DEF traceVars
<1>2. CASE Edit
  BY <1>2 DEF Edit
<1>3. ASSUME NEW r \in Runner, NEW mode \in Modes, NEW seed \in SeedOf[r], Prepare(r, mode, seed)
      PROVE  Moves(r) /\ Starts(r)
  <2> DEFINE j == [NoJob EXCEPT !.mode = mode, !.seed = seed]
  <2>1. /\ DOMAIN j = JobFields /\ j.mode = mode /\ j.commit = 0 /\ j.dir = 0
        /\ j.next = 1 /\ j.failed = FALSE /\ j.seed = seed
    BY DEF NoJob, JobFields
  <2>2. /\ pc[r] = "idle" /\ pc' = [pc EXCEPT ![r] = "identify"]
        /\ job' = [job EXCEPT ![r] = j]
    BY <1>3 DEF Prepare, Goto
  <2>3. path' # 0
    BY <1>3 DEF Prepare, Listing
  <2> HIDE DEF j
  <2> QED
    BY <2>1, <2>2, <2>3 DEF Moves, Starts
<1>4. ASSUME NEW r \in Runner, Identify(r) PROVE Moves(r) /\ Identifies(r)
  BY <1>4 DEF Identify, Goto, Moves, Identifies, Same, JobFields
<1>5. ASSUME NEW r \in Runner, Open(r) PROVE Moves(r) /\ (Opens(r) \/ Goes(r))
  <2>1. CASE job[r].mode = "formal" /\ ~job[r].clean
    BY <1>5, <2>1 DEF Open, Goto, Moves, Goes, Same, JobFields, Late
  <2>2. CASE ~(job[r].mode = "formal" /\ ~job[r].clean)
    BY <1>5, <2>2 DEF Open, Goto, Moves, Opens, Same, JobFields
  <2> QED
    BY <2>1, <2>2
<1>6. ASSUME NEW r \in Runner, RunTrial(r) PROVE Moves(r) /\ Judged(r)
  BY <1>6, RunTrialMoves
<1>7. ASSUME NEW r \in Runner, EndTrials(r) PROVE Moves(r) /\ Goes(r)
  BY <1>7 DEF EndTrials, Goto, Moves, Goes, Same, JobFields, Late
<1>8. ASSUME NEW r \in Runner, NEW p \in Late \union {"report"}, Goto(r, p), job' = job,
             pc[r] # "idle", pc[r] \in Late => p \in Late
      PROVE  Moves(r) /\ Goes(r)
  BY <1>8 DEF Goto, Moves, Goes, Same
<1>9. ASSUME NEW r \in Runner, TrialRaises(r) \/ RunnerDies(r) PROVE Moves(r) /\ Goes(r)
  BY <1>8, <1>9 DEF TrialRaises, RunnerDies, Late
<1>10. ASSUME NEW r \in Runner, Report(r) \/ Verdict(r) \/ ExitStatus(r) \/ Manifest(r)
       PROVE  Moves(r) /\ Goes(r)
  BY <1>8, <1>10 DEF Report, Verdict, ExitStatus, Manifest, Late
<1> QED
  BY <1>1, <1>2, <1>3, <1>4, <1>5, <1>6, <1>7, <1>9, <1>10 DEF TraceNext, Modes

LEMMA TreeStep ==
    ASSUME Shapes, [TraceNext]_traceVars
    PROVE  tree' \in [commit : Nat, clean : BOOLEAN, edits : Nat] /\ tree.commit <= tree'.commit
<1> DEFINE Trees == [commit : Nat, clean : BOOLEAN, edits : Nat]
<1>1. tree \in Trees
  BY DEF Shapes
<1>2. CASE Edit
  <2>1. PICK c \in Nat, w \in BOOLEAN :
          tree' = [tree EXCEPT !.edits = tree.edits + 1, !.clean = w, !.commit = c] /\ tree.commit <= c
    <3>1. CASE tree' = [tree EXCEPT !.edits = @ + 1, !.clean = ~@]
      <4>1. tree' = [tree EXCEPT !.edits = tree.edits + 1, !.clean = ~tree.clean, !.commit = tree.commit]
        BY <1>1, <3>1
      <4>2. tree.commit \in Nat /\ tree.commit <= tree.commit /\ (~tree.clean) \in BOOLEAN
        BY <1>1
      <4> QED
        BY <4>1, <4>2
    <3>2. CASE tree' = [tree EXCEPT !.edits = @ + 1, !.commit = @ + 1, !.clean = TRUE]
      <4>1. tree' = [tree EXCEPT !.edits = tree.edits + 1, !.clean = TRUE, !.commit = tree.commit + 1]
        BY <1>1, <3>2
      <4>2. tree.commit + 1 \in Nat /\ tree.commit <= tree.commit + 1
        BY <1>1
      <4> QED
        BY <4>1, <4>2
    <3> QED
      BY <1>2, <3>1, <3>2 DEF Edit
  <2>2. tree.edits + 1 \in Nat
    BY <1>1
  <2> QED
    BY <1>1, <2>1, <2>2
<1>3. CASE tree' = tree
  BY <1>1, <1>3
<1> QED
  BY <1>2, <1>3 DEF TraceNext, traceVars, Prepare, Identify, Open, RunTrial, TrialRaises, EndTrials,
     Report, Verdict, ExitStatus, Manifest, RunnerDies

(* The directory a runner makes *)
LEMMA Made ==
    ASSUME NEW r
    PROVE  /\ DOMAIN NewDir(r) = Fields /\ NewDir(r).by = r /\ NewDir(r).verdicts = <<>>
           /\ NewDir(r).events = <<>> /\ NewDir(r).report = Absent
  BY DEF NewDir, Fields

LEMMA Extended ==
    ASSUME Shapes, NEW r, dirs' = Append(dirs, NewDir(r))
    PROVE  /\ Listing(dirs') /\ Len(dirs') = Len(dirs) + 1
           /\ DOMAIN dirs = 1 .. Len(dirs) /\ DOMAIN dirs' = 1 .. Len(dirs) + 1
           /\ \A i \in DOMAIN dirs : dirs'[i] = dirs[i]
           /\ dirs'[Len(dirs) + 1] = NewDir(r)
<1>1. Listing(dirs) /\ DOMAIN dirs = 1 .. Len(dirs)
  BY ListingIsSeq DEF Shapes
<1> QED
  BY <1>1, AppendListing

LEMMA InitTrace == TraceInit => TraceInv
<1> SUFFICES ASSUME TraceInit PROVE TraceInv
  OBVIOUS
<1> USE DEF TraceInit
<1>1. Shapes
  <2>1. Len(dirs) = 0 /\ dirs = [i \in 1 .. 0 |-> dirs[i]] /\ DOMAIN dirs = {}
    OBVIOUS
  <2>2. pc = [r \in Runner |-> pc[r]] /\ job = [r \in Runner |-> job[r]]
    OBVIOUS
  <2>3. \A r \in Runner : DOMAIN job[r] = JobFields
    BY DEF NoJob, JobFields
  <2> QED
    BY <2>1, <2>2, <2>3 DEF Shapes, Listing
<1>2. JobInv
  BY DEF JobInv, JobFits, NoJob
<1>3. DOMAIN dirs = {}
  OBVIOUS
<1> QED
  BY <1>1, <1>2, <1>3 DEF TraceInv, MixInv, ReportInv, MakerInv

LEMMA ShapesKept ==
    ASSUME Shapes, JobInv, [TraceNext]_traceVars PROVE Shapes'
<1>1. /\ path' = Len(dirs') /\ Listing(dirs')
      /\ \A i \in DOMAIN dirs' : DOMAIN dirs'[i] = Fields /\ Listing(dirs'[i].verdicts)
  <2>1. CASE KeepsAll
    BY <2>1 DEF KeepsAll, Keeps, Shapes
  <2>2. ASSUME NEW r \in Runner, Reports(r)
        PROVE  path' = Len(dirs') /\ Listing(dirs')
               /\ \A i \in DOMAIN dirs' : DOMAIN dirs'[i] = Fields /\ Listing(dirs'[i].verdicts)
    BY <2>2 DEF Reports, Keeps, Shapes
  <2>3. ASSUME NEW r \in Runner, NEW t, Judges(r, t)
        PROVE  path' = Len(dirs') /\ Listing(dirs')
               /\ \A i \in DOMAIN dirs' : DOMAIN dirs'[i] = Fields /\ Listing(dirs'[i].verdicts)
    <3>1. path' = Len(dirs') /\ Listing(dirs') /\ DOMAIN dirs' = DOMAIN dirs
          /\ \A i \in DOMAIN dirs' : DOMAIN dirs'[i] = Fields
      BY <2>3 DEF Judges, Keeps, Shapes
    <3>2. ASSUME NEW i \in DOMAIN dirs PROVE Listing(dirs'[i].verdicts)
      <4>1. Listing(dirs[i].verdicts)
        BY DEF Shapes
      <4>2. CASE i = job[r].dir
        <5>1. dirs'[i].verdicts = Append(dirs[i].verdicts, [of |-> t, pass |-> TrialPasses(t)])
          BY <2>3, <4>2 DEF Judges
        <5> QED
          BY <4>1, <5>1, AppendListing
      <4>3. CASE i # job[r].dir
        BY <2>3, <4>1, <4>3 DEF Judges
      <4> QED
        BY <4>2, <4>3
    <3> QED
      BY <3>1, <3>2
  <2>4. ASSUME NEW r \in Runner, dirs' = Append(dirs, NewDir(r)), path' = path + 1
        PROVE  path' = Len(dirs') /\ Listing(dirs')
               /\ \A i \in DOMAIN dirs' : DOMAIN dirs'[i] = Fields /\ Listing(dirs'[i].verdicts)
    <3>1. Listing(<<>>)
      BY DEF Listing
    <3> QED
      BY <2>4, <3>1, Made, Extended DEF Shapes
  <2> QED
    BY <2>1, <2>2, <2>3, <2>4, DirsStep
<1>2. /\ pc' = [r \in Runner |-> pc'[r]] /\ job' = [r \in Runner |-> job'[r]]
      /\ \A r \in Runner : DOMAIN job'[r] = JobFields
  BY RunnersStep DEF Shapes, Moves
<1> QED
  BY <1>1, <1>2, TreeStep DEF Shapes

LEMMA JobKept ==
    ASSUME Shapes, JobInv, [TraceNext]_traceVars PROVE JobInv'
<1>1. path <= path' /\ path \in Nat /\ path' \in Nat
  <2>1. path \in Nat
    BY DEF Shapes, Listing
  <2>2. path' = path \/ path' = path + 1
    BY DirsStep DEF KeepsAll, Keeps, Reports, Judges
  <2> QED
    BY <2>1, <2>2
<1>2. tree'.commit \in Nat /\ tree.commit \in Nat /\ tree.commit <= tree'.commit
  BY TreeStep DEF Shapes
<1>3. ASSUME NEW r \in Runner, job'[r] = job[r], pc'[r] = pc[r] PROVE JobFits(r)'
  BY <1>1, <1>2, <1>3 DEF JobInv, JobFits
<1>4. ASSUME NEW r \in Runner, Starts(r), DOMAIN job'[r] = JobFields PROVE JobFits(r)'
  BY <1>1, <1>2, <1>4 DEF Starts, Modes, JobFits
<1>5. ASSUME NEW r \in Runner, Identifies(r) PROVE JobFits(r)'
  BY <1>1, <1>2, <1>5 DEF Identifies, JobInv, JobFits, Same, JobFields
<1>6. ASSUME NEW r \in Runner, Opens(r) PROVE JobFits(r)'
  BY <1>1, <1>2, <1>6 DEF Opens, JobInv, JobFits, Same, JobFields
<1>7. ASSUME NEW r \in Runner, Judged(r) PROVE JobFits(r)'
  BY <1>1, <1>2, <1>7 DEF Judged, JobInv, JobFits, Same, JobFields
<1>8. ASSUME NEW r \in Runner, Goes(r) PROVE JobFits(r)'
  BY <1>1, <1>2, <1>8 DEF Goes, JobInv, JobFits, Same, JobFields, Late
<1> QED
  BY <1>3, <1>4, <1>5, <1>6, <1>7, <1>8, RunnersStep DEF Moves, JobInv
-----------------------------------------------------------------------------
(* The first trial of every schedule *)
LEMMA DueFirst ==
    ASSUME NEW r, job[r].mode \in Modes PROVE Due(r, 1) = First
<1> DEFINE p == PerCut(job[r].mode)
<1>1. p \in Nat \ {0}
  BY CampaignAssumption DEF PerCut
<1> HIDE DEF p
<1>2. 0 \div p = 0 /\ 0 % p = 0
  BY <1>1
<1> QED
  BY <1>2 DEF Due, First, CutAt, TrialAt, p

(* The verdicts of a directory are the same, and so is what its writers have done. *)
Steady(r, i) ==
    /\ Ran(r, i)' <=> Ran(r, i)
    /\ Ran(r, i) => job'[r].next = job[r].next /\ job'[r].mode = job[r].mode
    /\ job'[r].dir = i /\ job'[r].failed => job[r].dir = i /\ job[r].failed

LEMMA RunnersSteady ==
    ASSUME Shapes, JobInv, [TraceNext]_traceVars, ~\E r \in Runner : RunTrial(r),
           NEW q \in Runner, NEW i \in Nat \ {0}
    PROVE  Steady(q, i)
<1>1. CASE pc'[q] = pc[q] /\ job'[q] = job[q]
  BY <1>1 DEF Steady, Ran
<1>2. CASE Starts(q)
  BY <1>2 DEF Starts, Steady, Ran, JobInv, JobFits
<1>3. CASE Identifies(q)
  BY <1>3 DEF Identifies, Steady, Ran, JobInv, JobFits, Same, JobFields
<1>4. CASE Opens(q)
  BY <1>4 DEF Opens, Steady, Ran, JobInv, JobFits, Same, JobFields
<1>5. CASE Goes(q)
  BY <1>5 DEF Goes, Steady, Ran, Same, JobFields
<1>6. ~Judged(q)
  BY DEF Judged
<1> QED
  BY <1>1, <1>2, <1>3, <1>4, <1>5, <1>6, RunnersStep DEF Moves

MixOf(i) ==
    /\ \A r \in Runner : Ran(r, i) => \E n \in DOMAIN dirs[i].verdicts : KeyAt(i, n) = First
    /\ \A r, q \in Runner : r # q /\ Ran(r, i) /\ Ran(q, i) =>
          \E m, n \in DOMAIN dirs[i].verdicts : m # n /\ KeyAt(i, m) = First /\ KeyAt(i, n) = First
    /\ \A r \in Runner : Ran(r, i) /\ (\A q \in Runner : Ran(q, i) => q = r) =>
          /\ Len(dirs[i].verdicts) = job[r].next - 1
          /\ \A n \in DOMAIN dirs[i].verdicts : KeyAt(i, n) = Due(r, n)
    /\ (\A r \in Runner : ~Ran(r, i)) => dirs[i].verdicts = <<>>
    /\ \A r \in Runner : job[r].dir = i /\ job[r].failed =>
          \E n \in DOMAIN dirs[i].verdicts : ~TrialPasses(dirs[i].verdicts[n].of)

LEMMA MixSteady ==
    ASSUME NEW i, MixOf(i), dirs'[i].verdicts = dirs[i].verdicts, \A r \in Runner : Steady(r, i)
    PROVE  MixOf(i)'
<1>1. \A r \in Runner : Ran(r, i)' <=> Ran(r, i)
  BY DEF Steady
<1>2. \A n \in DOMAIN dirs[i].verdicts : KeyAt(i, n)' = KeyAt(i, n)
  BY DEF KeyAt
<1>3. \A r \in Runner : Ran(r, i) => job'[r].next = job[r].next /\ \A n : Due(r, n)' = Due(r, n)
  BY DEF Steady, Due
<1>4. ASSUME NEW r \in Runner, Ran(r, i)' PROVE \E n \in DOMAIN dirs'[i].verdicts : KeyAt(i, n)' = First
  BY <1>1, <1>2, <1>4 DEF MixOf
<1>5. ASSUME NEW r \in Runner, NEW q \in Runner, r # q, Ran(r, i)', Ran(q, i)'
      PROVE  \E m, n \in DOMAIN dirs'[i].verdicts :
                m # n /\ KeyAt(i, m)' = First /\ KeyAt(i, n)' = First
  BY <1>1, <1>2, <1>5 DEF MixOf
<1>6. ASSUME NEW r \in Runner, Ran(r, i)', \A q \in Runner : Ran(q, i)' => q = r
      PROVE  /\ Len(dirs'[i].verdicts) = job'[r].next - 1
             /\ \A n \in DOMAIN dirs'[i].verdicts : KeyAt(i, n)' = Due(r, n)'
  <2>1. Ran(r, i) /\ \A q \in Runner : Ran(q, i) => q = r
    BY <1>1, <1>6
  <2>2. /\ Len(dirs[i].verdicts) = job[r].next - 1
        /\ \A n \in DOMAIN dirs[i].verdicts : KeyAt(i, n) = Due(r, n)
    BY <2>1 DEF MixOf
  <2> QED
    BY <1>2, <1>3, <2>1, <2>2
<1>7. ASSUME \A r \in Runner : ~Ran(r, i)' PROVE dirs'[i].verdicts = <<>>
  BY <1>1, <1>7 DEF MixOf
<1>8. ASSUME NEW r \in Runner, job'[r].dir = i, job'[r].failed
      PROVE  \E n \in DOMAIN dirs'[i].verdicts : ~TrialPasses(dirs'[i].verdicts[n].of)
  BY <1>8 DEF Steady, MixOf
<1> QED
  BY <1>4, <1>5, <1>6, <1>7, <1>8 DEF MixOf

LEMMA MixKept ==
    ASSUME Shapes, JobInv, MixInv, [TraceNext]_traceVars PROVE MixInv'
<1>0. /\ Listing(dirs) /\ DOMAIN dirs = 1 .. Len(dirs) /\ path = Len(dirs) /\ Len(dirs) \in Nat
      /\ \A i \in DOMAIN dirs : MixOf(i) /\ Listing(dirs[i].verdicts)
  BY ListingIsSeq DEF Shapes, Listing, MixInv, MixOf
<1>1. CASE ~\E r \in Runner : RunTrial(r)
  <2>1. \A r \in Runner, i \in Nat \ {0} : Steady(r, i)
    BY <1>1, RunnersSteady
  <2>2. CASE /\ DOMAIN dirs' = DOMAIN dirs
             /\ \A i \in DOMAIN dirs : dirs'[i].verdicts = dirs[i].verdicts
    <3>1. \A i \in DOMAIN dirs : MixOf(i)'
      BY <1>0, <2>1, <2>2, MixSteady
    <3> QED
      BY <2>2, <3>1 DEF MixInv, MixOf
  <2>3. ASSUME NEW r \in Runner, dirs' = Append(dirs, NewDir(r)) PROVE MixInv'
    <3>1. /\ DOMAIN dirs' = 1 .. Len(dirs) + 1
          /\ \A i \in DOMAIN dirs : dirs'[i].verdicts = dirs[i].verdicts
          /\ dirs'[Len(dirs) + 1].verdicts = <<>>
      BY <2>3, Made, Extended
    <3>2. \A i \in DOMAIN dirs : MixOf(i)'
      BY <1>0, <2>1, <3>1, MixSteady
    <3>k. PICK k : k = Len(dirs) + 1
      OBVIOUS
    <3>3. \A q \in Runner : job[q].dir # k
      BY <1>0, <3>k DEF JobInv, JobFits
    <3>4. \A q \in Runner : ~Ran(q, k)' /\ ~(job'[q].dir = k /\ job'[q].failed)
      BY <1>0, <2>1, <3>k, <3>3 DEF Steady, Ran
    <3>5. MixOf(k)'
      <4>1. dirs'[k].verdicts = <<>>
        BY <3>1, <3>k
      <4> QED
        BY <3>4, <4>1 DEF MixOf
    <3>6. DOMAIN dirs' = DOMAIN dirs \union {k}
      BY <1>0, <3>1, <3>k
    <3> QED
      BY <3>2, <3>5, <3>6 DEF MixInv, MixOf
  <2>4. CASE \E r \in Runner : \E t : RunTrial(r) /\ Judges(r, t)
    BY <1>1, <2>4
  <2> QED
    BY <2>2, <2>3, <2>4, DirsStep DEF KeepsAll, Keeps, Reports
<1>2. ASSUME NEW r \in Runner, RunTrial(r) PROVE MixInv'
  <2>1. PICK t : Judges(r, t)
    BY <1>2, RunTrialJudges
  <2>2. Moves(r) /\ Judged(r)
    BY <1>2, RunTrialMoves
  <2>d. PICK d : d = job[r].dir
    OBVIOUS
  <2>v. PICK vs, ws, L, v : /\ vs = dirs[d].verdicts /\ ws = dirs'[d].verdicts /\ L = Len(vs)
                           /\ v = [of |-> t, pass |-> TrialPasses(t)]
    OBVIOUS
  <2>3. d \in DOMAIN dirs /\ job[r].mode \in Modes /\ job[r].next \in Nat \ {0}
    BY <1>0, <2>d, <2>2 DEF Judged, JobInv, JobFits
  <2>4. /\ job'[r].next = job[r].next + 1 /\ job'[r].dir = d /\ job'[r].mode = job[r].mode
        /\ \A q \in Runner \ {r} : job'[q] = job[q]
    BY <2>d, <2>2 DEF Moves, Judged, Same, JobFields
  <2>5. \A q \in Runner \ {r} : \A i : /\ Ran(q, i)' <=> Ran(q, i)
                                      /\ \A n : Due(q, n)' = Due(q, n)
    BY <2>4 DEF Ran, Due
  <2>6. Ran(r, d)' /\ (Ran(r, d) <=> job[r].next # 1) /\ (\A n : Due(r, n)' = Due(r, n))
        /\ \A i : i # d => ~Ran(r, i) /\ ~Ran(r, i)'
    BY <2>d, <2>3, <2>4 DEF Ran, Due
  <2>7. /\ ws = Append(vs, v) /\ DOMAIN dirs' = DOMAIN dirs
        /\ \A i \in DOMAIN dirs : i # d => dirs'[i].verdicts = dirs[i].verdicts
    BY <2>1, <2>3, <2>d, <2>v DEF Judges, Keeps
  <2>8. /\ DOMAIN vs = 1 .. L /\ L \in Nat /\ DOMAIN ws = 1 .. L + 1 /\ Len(ws) = L + 1
        /\ \A n \in 1 .. L : ws[n] = vs[n]
        /\ ws[L + 1] = v
    <3>1. Listing(vs)
      BY <1>0, <2>3, <2>v
    <3>2. DOMAIN vs = 1 .. L /\ L \in Nat
      BY <2>v, <3>1, ListingIsSeq DEF Listing
    <3> QED
      BY <2>7, <3>1, <3>2, <2>v, AppendListing
  <2>9. /\ \A n \in 1 .. L : KeyAt(d, n)' = KeyAt(d, n) /\ ws[n].of = vs[n].of
        /\ KeyAt(d, L + 1)' = Due(r, job[r].next) /\ ws[L + 1].of = t
    <3>1. Key(t) = Due(r, job[r].next)
      BY <2>1 DEF Judges
    <3>2. v.of = t
      BY <2>v
    <3> QED
      BY <2>8, <2>v, <3>1, <3>2 DEF KeyAt
  <2>10. MixOf(d)
    BY <1>0, <2>3
  <2>11. TrialPasses(t) => job'[r].failed = FALSE
    <3>1. job'[r].failed = ~TrialPasses(t)
      <4>1. job' = [job EXCEPT ![r].next = job[r].next + 1, ![r].failed = ~TrialPasses(t)]
        BY <2>1 DEF Judges
      <4> QED
        BY <4>1 DEF Shapes, JobFields
    <3> QED
      BY <3>1
  <2>12. job[r].next = 1 => KeyAt(d, L + 1)' = First
    BY <2>3, <2>9, DueFirst
  <2>13. ASSUME NEW q \in Runner, Ran(q, d)' PROVE \E n \in 1 .. L + 1 : KeyAt(d, n)' = First
    <3>1. CASE Ran(q, d)
      <4>1. PICK n \in DOMAIN vs : KeyAt(d, n) = First
        BY <2>10, <2>v, <3>1 DEF MixOf
      <4>2. n \in 1 .. L /\ n \in 1 .. L + 1
        BY <2>8
      <4> QED
        BY <2>9, <4>1, <4>2
    <3>2. CASE ~Ran(q, d)
      <4>1. q = r /\ job[r].next = 1
        BY <2>5, <2>6, <2>13, <3>2
      <4>2. L + 1 \in 1 .. L + 1
        BY <2>8
      <4> QED
        BY <2>12, <4>1, <4>2
    <3> QED
      BY <3>1, <3>2
  <2>14. ASSUME NEW q \in Runner, NEW s \in Runner, q # s, Ran(q, d)', Ran(s, d)'
         PROVE  \E m, n \in 1 .. L + 1 : m # n /\ KeyAt(d, m)' = First /\ KeyAt(d, n)' = First
    <3>1. CASE Ran(q, d) /\ Ran(s, d)
      <4>1. PICK m \in DOMAIN vs, n \in DOMAIN vs : m # n /\ KeyAt(d, m) = First /\ KeyAt(d, n) = First
        BY <2>10, <2>v, <2>14, <3>1 DEF MixOf
      <4>2. m \in 1 .. L /\ n \in 1 .. L /\ m \in 1 .. L + 1 /\ n \in 1 .. L + 1
        BY <2>8
      <4> QED
        BY <2>9, <4>1, <4>2
    <3>2. CASE ~(Ran(q, d) /\ Ran(s, d))
      <4>1. job[r].next = 1 /\ (Ran(q, d) \/ Ran(s, d))
        BY <2>5, <2>6, <2>14, <3>2
      <4>2. PICK m \in DOMAIN vs : KeyAt(d, m) = First
        BY <2>10, <2>v, <4>1 DEF MixOf
      <4>3. m \in 1 .. L /\ m \in 1 .. L + 1 /\ L + 1 \in 1 .. L + 1 /\ m # L + 1
        BY <2>8
      <4> QED
        BY <2>9, <2>12, <4>1, <4>2, <4>3
    <3> QED
      BY <3>1, <3>2
  <2>15. ASSUME NEW q \in Runner, Ran(q, d)', \A s \in Runner : Ran(s, d)' => s = q
         PROVE  L + 1 = job'[q].next - 1 /\ \A n \in 1 .. L + 1 : KeyAt(d, n)' = Due(q, n)'
    <3>1. q = r /\ \A s \in Runner : Ran(s, d) => s = r
      BY <2>5, <2>6, <2>15
    <3>2. L = job[r].next - 1 /\ \A n \in 1 .. L : KeyAt(d, n) = Due(r, n)
      <4>1. CASE job[r].next = 1
        <5>1. \A s \in Runner : ~Ran(s, d)
          BY <2>6, <3>1, <4>1
        <5>2. vs = <<>>
          BY <2>10, <2>v, <5>1 DEF MixOf
        <5>3. L = 0
          BY <2>v, <5>2
        <5> QED
          BY <4>1, <5>3
      <4>2. CASE job[r].next # 1
        BY <2>6, <2>8, <2>10, <2>v, <3>1, <4>2 DEF MixOf
      <4> QED
        BY <4>1, <4>2
    <3>3. L + 1 = job[r].next /\ job'[r].next - 1 = job[r].next
      BY <2>3, <2>4, <3>2
    <3>4. \A n \in 1 .. L + 1 : n \in 1 .. L \/ n = L + 1
      BY <2>8
    <3> QED
      BY <2>6, <2>9, <3>1, <3>2, <3>3, <3>4
  <2>16. ASSUME NEW q \in Runner, job'[q].dir = d, job'[q].failed
         PROVE  \E n \in 1 .. L + 1 : ~TrialPasses(ws[n].of)
    <3>1. CASE q = r
      <4>1. L + 1 \in 1 .. L + 1
        BY <2>8
      <4>2. ~TrialPasses(t)
        BY <2>11, <2>16, <3>1
      <4> QED
        BY <2>9, <4>1, <4>2
    <3>2. CASE q # r
      <4>1. job[q].dir = d /\ job[q].failed
        BY <2>4, <2>16, <3>2
      <4>2. PICK n \in DOMAIN vs : ~TrialPasses(vs[n].of)
        BY <2>10, <2>v, <4>1 DEF MixOf
      <4>3. n \in 1 .. L /\ n \in 1 .. L + 1
        BY <2>8
      <4> QED
        BY <2>9, <4>2, <4>3
    <3> QED
      BY <3>1, <3>2
  <2>17. ASSUME NEW i \in DOMAIN dirs, i # d PROVE MixOf(i)'
    <3>1. ASSUME NEW q \in Runner
          PROVE  Steady(q, i)
      BY <2>4, <2>5, <2>6, <2>17 DEF Steady
    <3>2. dirs'[i].verdicts = dirs[i].verdicts /\ MixOf(i)
      BY <1>0, <2>7, <2>17
    <3> QED
      BY <3>1, <3>2, MixSteady
  <2>18. ASSUME NEW i, i = d PROVE MixOf(i)'
    <3>1. DOMAIN dirs'[i].verdicts = 1 .. L + 1 /\ Len(dirs'[i].verdicts) = L + 1
      BY <2>8, <2>v, <2>18
    <3> QED
      BY <2>6, <2>v, <2>13, <2>14, <2>15, <2>16, <2>18, <3>1 DEF MixOf
  <2> QED
    BY <2>7, <2>17, <2>18 DEF MixInv, MixOf
<1> QED
  BY <1>1, <1>2

-----------------------------------------------------------------------------
(* A report stays true of its runner. *)
LEMMA ReportsStay ==
    ASSUME Shapes, JobInv, [TraceNext]_traceVars, NEW r \in Runner, NEW report, IsReportOf(r, report)
    PROVE  IsReportOf(r, report)'
<1>1. pc[r] \in Late
  BY DEF IsReportOf, Late
<1>2. CASE pc'[r] = pc[r] /\ job'[r] = job[r]
  BY <1>2 DEF IsReportOf
<1>3. CASE Goes(r)
  BY <1>1, <1>3 DEF Goes, IsReportOf, Late, Same, JobFields
<1> QED
  BY <1>1, <1>2, <1>3, RunnersStep DEF Moves, Late, Starts, Identifies, Opens, Judged

LEMMA ReportKept ==
    ASSUME Shapes, JobInv, ReportInv, [TraceNext]_traceVars PROVE ReportInv'
<1>1. ASSUME NEW i \in DOMAIN dirs, dirs'[i].report = dirs[i].report, dirs'[i].report # Absent
      PROVE  \E r \in Runner : IsReportOf(r, dirs[i].report)'
  <2>1. PICK x : x = dirs[i].report
    OBVIOUS
  <2>2. PICK r \in Runner : IsReportOf(r, x)
    BY <1>1, <2>1 DEF ReportInv
  <2>3. IsReportOf(r, x)'
    BY <2>2, ReportsStay
  <2> QED
    BY <1>1, <2>1, <2>3 DEF IsReportOf
<1>2. CASE KeepsAll
  BY <1>1, <1>2 DEF KeepsAll, Keeps, ReportInv
<1>3. ASSUME NEW r \in Runner, Reports(r) PROVE ReportInv'
  <2>1. /\ DOMAIN dirs' = DOMAIN dirs
        /\ \A i \in DOMAIN dirs : i # path => dirs'[i].report = dirs[i].report
    BY <1>3 DEF Reports, Keeps
  <2>2. ASSUME NEW i \in DOMAIN dirs, i = path PROVE \E q \in Runner : IsReportOf(q, dirs[i].report)'
    <3>1. PICK x : dirs'[path].report = x /\ IsReportOf(r, x)'
      BY <1>3, <2>2 DEF Reports
    <3> QED
      BY <2>2, <3>1 DEF IsReportOf
  <2> QED
    BY <1>1, <2>1, <2>2 DEF ReportInv
<1>4. ASSUME NEW r \in Runner, NEW t, Judges(r, t) PROVE ReportInv'
  BY <1>1, <1>4 DEF Judges, Keeps, ReportInv
<1>5. ASSUME NEW r \in Runner, dirs' = Append(dirs, NewDir(r)) PROVE ReportInv'
  <2>1. /\ \A i \in DOMAIN dirs : dirs'[i].report = dirs[i].report
        /\ dirs'[Len(dirs) + 1].report = Absent
        /\ DOMAIN dirs' = DOMAIN dirs \union {Len(dirs) + 1}
    BY <1>5, Extended, Made DEF Shapes, Listing
  <2> QED
    BY <1>1, <2>1 DEF ReportInv
<1> QED
  BY <1>2, <1>3, <1>4, <1>5, DirsStep

(* What is said of the maker of a directory *)
MakerFits(i, r) ==
    /\ job[r].dir # 0 => i <= job[r].dir
    /\ pc[r] = "open" \/ job[r].dir # 0 =>
          \A q \in Runner : job[q].dir \in 1 .. i - 1 => job[q].commit <= job[r].commit

LEMMA MakerStays ==
    ASSUME Shapes, JobInv, [TraceNext]_traceVars, NEW r \in Runner, NEW i \in 1 .. path, MakerFits(i, r)
    PROVE  MakerFits(i, r)'
<1>0. path \in Nat /\ tree.commit \in Nat /\ \A q \in Runner : JobFits(q)
  BY DEF Shapes, Listing, JobInv
<1>1. CASE UNCHANGED <<pc, job>>
  BY <1>1 DEF MakerFits
<1>2. ASSUME NEW q \in Runner, Moves(q), Starts(q) PROVE MakerFits(i, r)'
  <2>1. \A s \in Runner : job'[s].dir \in 1 .. i - 1 => s # q /\ job'[s] = job[s]
    BY <1>2 DEF Moves, Starts
  <2>2. CASE r = q
    BY <1>2, <2>2 DEF Starts, MakerFits
  <2>3. CASE r # q
    BY <1>2, <2>1, <2>3 DEF Moves, MakerFits
  <2> QED
    BY <2>2, <2>3
<1>3. ASSUME NEW q \in Runner, Moves(q), Identifies(q) PROVE MakerFits(i, r)'
  <2>1. job[q].dir = 0 /\ job'[q].dir = 0
    BY <1>0, <1>3 DEF Identifies, JobFits, Same, JobFields
  <2>2. \A s \in Runner : job'[s].dir \in 1 .. i - 1 => s # q /\ job'[s] = job[s]
    BY <1>3, <2>1 DEF Moves
  <2>3. CASE r = q
    <3>1. job'[r].commit = tree.commit
      BY <1>3, <2>3 DEF Identifies
    <3>2. \A s \in Runner : job[s].commit <= tree.commit
      BY <1>0 DEF JobFits
    <3> QED
      BY <2>1, <2>2, <2>3, <3>1, <3>2 DEF MakerFits
  <2>4. CASE r # q
    BY <1>3, <2>2, <2>4 DEF Moves, MakerFits
  <2> QED
    BY <2>3, <2>4
<1>4. ASSUME NEW q \in Runner, Moves(q), Opens(q) PROVE MakerFits(i, r)'
  <2>1. job[q].dir = 0 /\ job'[q].dir = path /\ job'[q].commit = job[q].commit /\ pc[q] = "open"
    BY <1>0, <1>4 DEF Opens, JobFits, Same, JobFields
  <2>2. \A s \in Runner : job'[s].dir \in 1 .. i - 1 => s # q /\ job'[s] = job[s]
    BY <1>0, <1>4, <2>1 DEF Moves
  <2>3. CASE r = q
    BY <1>0, <2>1, <2>2, <2>3 DEF MakerFits
  <2>4. CASE r # q
    BY <1>4, <2>2, <2>4 DEF Moves, MakerFits
  <2> QED
    BY <2>3, <2>4
<1>5. ASSUME NEW q \in Runner, Moves(q), Judged(q) \/ Goes(q) PROVE MakerFits(i, r)'
  <2>1. /\ job'[q].dir = job[q].dir /\ job'[q].commit = job[q].commit
        /\ pc'[q] # "open"
    BY <1>5 DEF Judged, Goes, Same, JobFields, Late
  <2>2. \A s \in Runner : job'[s].dir = job[s].dir /\ job'[s].commit = job[s].commit
    BY <1>5, <2>1 DEF Moves
  <2>3. pc'[r] = "open" => pc[r] = "open"
    BY <1>5, <2>1 DEF Moves
  <2> QED
    BY <2>2, <2>3 DEF MakerFits
<1> QED
  BY <1>1, <1>2, <1>3, <1>4, <1>5, RunnersStep

LEMMA MakerKept ==
    ASSUME Shapes, JobInv, MakerInv, [TraceNext]_traceVars PROVE MakerInv'
<1>0. DOMAIN dirs = 1 .. path /\ path = Len(dirs)
  BY ListingIsSeq DEF Shapes
<1>1. ASSUME NEW i \in DOMAIN dirs, NEW r \in Runner, dirs[i].by = r PROVE MakerFits(i, r)'
  <2>1. MakerFits(i, r)
    BY <1>1 DEF MakerInv, MakerFits
  <2> QED
    BY <1>0, <2>1, MakerStays
<1>2. CASE DOMAIN dirs' = DOMAIN dirs /\ \A i \in DOMAIN dirs : dirs'[i].by = dirs[i].by
  BY <1>1, <1>2 DEF MakerInv, MakerFits
<1>3. ASSUME NEW r \in Runner, dirs' = Append(dirs, NewDir(r)), pc'[r] = "identify", job'[r].dir = 0
      PROVE  MakerInv'
  <2>1. PICK k : k = Len(dirs) + 1
    OBVIOUS
  <2>2. /\ \A i \in DOMAIN dirs : dirs'[i].by = dirs[i].by
        /\ dirs'[k].by = r /\ DOMAIN dirs' = DOMAIN dirs \union {k}
    BY <1>3, <2>1, Extended, Made DEF Shapes, Listing
  <2>3. MakerFits(k, r)'
    BY <1>3 DEF MakerFits
  <2> QED
    BY <1>1, <2>2, <2>3 DEF MakerInv, MakerFits
<1> QED
  BY <1>2, <1>3, DirsStep DEF KeepsAll, Keeps, Reports, Judges

(* Whatever is started, dies or is edited: a directory holds what its writers did, a report
   what one of them did, and its maker is no older than those who write to earlier ones. *)
THEOREM TraceInvariant == TraceSpec => []TraceInv
<1>1. TraceInv /\ [TraceNext]_traceVars => TraceInv'
  BY ShapesKept, JobKept, MixKept, ReportKept, MakerKept DEF TraceInv
<1> QED
  BY <1>1, InitTrace, PTL DEF TraceSpec
-----------------------------------------------------------------------------
(* Division of the number of a trial by the trials of a cut *)
LEMMA Division ==
    ASSUME NEW a \in Nat, NEW p \in Nat \ {0}
    PROVE  a \div p \in Nat /\ a % p \in 0 .. p - 1 /\ a = p * (a \div p) + (a % p)
  OBVIOUS

LEMMA QuotientBelow ==
    ASSUME NEW a \in Nat, NEW p \in Nat \ {0}, NEW c \in Nat, a < c * p
    PROVE  a \div p < c
<1> DEFINE x == a \div p
           y == a % p
<1>1. x \in Nat /\ y \in 0 .. p - 1 /\ a = p * x + y
  BY Division
<1> HIDE DEF x, y
<1>2. x < c
  <2> SUFFICES ASSUME x >= c PROVE FALSE
    BY <1>1
  <2>1. PICK e \in Nat : x = c + e
    <3>1. x - c \in Nat /\ x = c + (x - c)
      BY <1>1
    <3> QED
      BY <3>1
  <2>2. p * x = c * p + p * e /\ p * e \in Nat
    BY <2>1
  <2> DEFINE cp == c * p
             pe == p * e
  <2>3. cp \in Nat /\ pe \in Nat /\ a = cp + pe + y /\ a < cp
    BY <1>1, <2>2
  <2> HIDE DEF cp, pe
  <2> QED
    BY <1>1, <2>3
<1> QED
  BY <1>2 DEF x

LEMMA QuotientOfOne ==
    ASSUME NEW p \in Nat \ {0} PROVE p \div p = 1
<1> DEFINE x == p \div p
           y == p % p
<1>1. x \in Nat /\ y \in 0 .. p - 1 /\ p = p * x + y
  BY Division
<1>2. x < 2
  <2>1. p < 2 * p
    OBVIOUS
  <2> QED
    BY <2>1, QuotientBelow
<1> HIDE DEF x, y
<1>3. x # 0
  <2> SUFFICES ASSUME x = 0 PROVE FALSE
    OBVIOUS
  <2>1. p = p * 0 + y
    BY <1>1
  <2> QED
    BY <1>1, <2>1
<1> QED
  BY <1>1, <1>2, <1>3 DEF x

LEMMA PerCutPositive ==
    ASSUME NEW mode PROVE PerCut(mode) \in Nat \ {0}
  BY CampaignAssumption DEF PerCut

LEMMA CutsDiffer ==
    /\ Len(Cuts) \in Nat /\ Len(Cuts) > 1 /\ DOMAIN Cuts = 1 .. Len(Cuts)
    /\ \A a, b \in 1 .. Len(Cuts) : Cuts[a] = Cuts[b] => a = b
  BY CampaignAssumption DEF IsInjective

LEMMA FormalTrials == Trials("formal") \in Nat /\ Trials("formal") > 1
<1>1. Len(Cuts) \in Nat /\ Len(Cuts) > 1 /\ FormalPerCut \in Nat \ {0}
  BY CutsDiffer, CampaignAssumption
<1>2. PICK e \in Nat, g \in Nat : Len(Cuts) = 2 + e /\ FormalPerCut = 1 + g
  <2>1. Len(Cuts) - 2 \in Nat /\ FormalPerCut - 1 \in Nat
    BY <1>1
  <2>2. Len(Cuts) = 2 + (Len(Cuts) - 2) /\ FormalPerCut = 1 + (FormalPerCut - 1)
    BY <1>1
  <2> QED
    BY <2>1, <2>2
<1>3. Len(Cuts) * FormalPerCut = 2 + e + 2 * g + e * g /\ e * g \in Nat
  BY <1>2
<1> QED
  BY <1>2, <1>3 DEF Trials, PerCut
(* The trials of a formal schedule differ. *)
LEMMA ScheduleInjective ==
    ASSUME NEW m \in 1 .. Trials("formal"), NEW n \in 1 .. Trials("formal"),
           Scheduled("formal")[m] = Scheduled("formal")[n]
    PROVE  m = n
<1>0. PICK p, c, a, b : p = FormalPerCut /\ c = Len(Cuts) /\ a = m - 1 /\ b = n - 1
  OBVIOUS
<1>1. p \in Nat \ {0} /\ c \in Nat /\ c > 1 /\ Trials("formal") = c * p
  BY <1>0, CutsDiffer, CampaignAssumption DEF Trials, PerCut
<1>2. a \in Nat /\ a < c * p /\ b \in Nat /\ b < c * p
  <2>1. c * p \in Nat
    BY <1>1
  <2>2. PICK k : k = c * p
    OBVIOUS
  <2>3. k \in Nat /\ m \in 1 .. k /\ n \in 1 .. k
    BY <1>1, <2>1, <2>2
  <2>4. a \in Nat /\ a < k /\ b \in Nat /\ b < k
    BY <1>0, <2>3
  <2> QED
    BY <2>2, <2>4
<1>3. Cuts[(a \div p) + 1] = Cuts[(b \div p) + 1] /\ a % p = b % p
  <2>1. /\ Scheduled("formal")[m] = <<Cuts[(a \div p) + 1], a % p>>
        /\ Scheduled("formal")[n] = <<Cuts[(b \div p) + 1], b % p>>
    BY <1>0 DEF Scheduled, CutAt, TrialAt, PerCut
  <2> QED
    BY <2>1
<1>4. /\ a \div p \in Nat /\ a \div p < c /\ a = p * (a \div p) + (a % p)
      /\ b \div p \in Nat /\ b \div p < c /\ b = p * (b \div p) + (b % p)
  BY <1>1, <1>2, Division, QuotientBelow
<1>5. PICK x, y : x = a \div p /\ y = b \div p
  OBVIOUS
<1>6. x = y
  <2>1. x \in Nat /\ x < c /\ y \in Nat /\ y < c /\ Cuts[x + 1] = Cuts[y + 1]
    BY <1>3, <1>4, <1>5
  <2>2. x + 1 \in 1 .. c /\ y + 1 \in 1 .. c
    BY <1>1, <2>1
  <2>3. x + 1 = y + 1
    BY <1>0, <2>1, <2>2, CutsDiffer
  <2> QED
    BY <2>1, <2>3
<1>7. a = b
  BY <1>3, <1>4, <1>5, <1>6
<1> QED
  BY <1>0, <1>1, <1>7

LEMMA FirstOnce ==
    ASSUME NEW n \in 1 .. Trials("formal"), Scheduled("formal")[n] = First
    PROVE  n = 1
<1>1. Trials("formal") \in Nat /\ 1 \in 1 .. Trials("formal")
  BY FormalTrials
<1>2. PICK p : p = FormalPerCut
  OBVIOUS
<1>3. p \in Nat \ {0} /\ 0 \div p = 0 /\ 0 % p = 0
  BY <1>2, CampaignAssumption
<1>4. Scheduled("formal")[1] = First
  BY <1>1, <1>2, <1>3 DEF Scheduled, First, CutAt, TrialAt, PerCut
<1> QED
  BY <1>1, <1>4, ScheduleInjective

(* A schedule with another number of trials per cut differs from the formal one. *)
LEMMA SchedulesDiffer ==
    ASSUME SmokePerCut # FormalPerCut
    PROVE  \E n \in 1 .. Trials("formal") :
              Scheduled("formal")[n] # <<CutAt("smoke", n), TrialAt("smoke", n)>>
<1>0. PICK f, s, c : f = FormalPerCut /\ s = SmokePerCut /\ c = Len(Cuts)
  OBVIOUS
<1>1. /\ f \in Nat \ {0} /\ s \in Nat \ {0} /\ f # s /\ c \in Nat /\ c > 1
      /\ PerCut("formal") = f /\ PerCut("smoke") = s /\ Trials("formal") = c * f
  BY <1>0, CutsDiffer, CampaignAssumption DEF Trials, PerCut
<1>2. 1 \in 1 .. c /\ 2 \in 1 .. c /\ Cuts[1] # Cuts[2]
  BY <1>0, <1>1, CutsDiffer
<1>3. c * f \in Nat /\ 2 * f <= c * f
  <2>1. PICK e \in Nat : c = 2 + e
    <3>1. c - 2 \in Nat /\ c = 2 + (c - 2)
      BY <1>1
    <3> QED
      BY <3>1
  <2>2. c * f = 2 * f + e * f /\ e * f \in Nat
    BY <1>1, <2>1
  <2> QED
    BY <1>1, <2>2
<1>4. PICK t : t = c * f
  OBVIOUS
<1>5. CASE s < f
  <2>1. s + 1 \in 1 .. t
    BY <1>1, <1>3, <1>4, <1>5
  <2>2. s \div s = 1 /\ s \div f = 0
    <3>1. s < 1 * f
      BY <1>1, <1>5
    <3>2. s \div f < 1 /\ s \div f \in Nat
      BY <1>1, <3>1, QuotientBelow, Division
    <3> QED
      BY <1>1, <3>2, QuotientOfOne
  <2>3. PICK n : n = s + 1
    OBVIOUS
  <2>4. n - 1 = s
    BY <1>1, <2>3
  <2>5. CutAt("formal", n) = Cuts[1] /\ CutAt("smoke", n) = Cuts[2]
    BY <1>1, <2>2, <2>4 DEF CutAt
  <2>6. n \in 1 .. Trials("formal") /\ Scheduled("formal")[n] = <<Cuts[1], TrialAt("formal", n)>>
    BY <1>1, <1>4, <2>1, <2>3, <2>5 DEF Scheduled
  <2> QED
    BY <1>2, <2>5, <2>6
<1>6. CASE f < s
  <2>1. f + 1 \in 1 .. t
    BY <1>1, <1>3, <1>4, <1>6
  <2>2. f \div f = 1 /\ f \div s = 0
    <3>1. f < 1 * s
      BY <1>1, <1>6
    <3>2. f \div s < 1 /\ f \div s \in Nat
      BY <1>1, <3>1, QuotientBelow, Division
    <3> QED
      BY <1>1, <3>2, QuotientOfOne
  <2>3. PICK n : n = f + 1
    OBVIOUS
  <2>4. n - 1 = f
    BY <1>1, <2>3
  <2>5. CutAt("formal", n) = Cuts[2] /\ CutAt("smoke", n) = Cuts[1]
    BY <1>1, <2>2, <2>4 DEF CutAt
  <2>6. n \in 1 .. Trials("formal") /\ Scheduled("formal")[n] = <<Cuts[2], TrialAt("formal", n)>>
    BY <1>1, <1>4, <2>1, <2>3, <2>5 DEF Scheduled
  <2> QED
    BY <1>2, <2>5, <2>6
<1> QED
  BY <1>1, <1>5, <1>6

-----------------------------------------------------------------------------
(* A directory the gate passes has the verdicts of a formal schedule, one after the
   other and none of them bad.                                                     *)
LEMMA PassedVerdicts ==
    ASSUME Shapes, path # 0, GatePasses(dirs[path])
    PROVE  /\ path \in DOMAIN dirs /\ DOMAIN dirs = 1 .. path
           /\ Len(dirs[path].verdicts) = Trials("formal")
           /\ DOMAIN dirs[path].verdicts = 1 .. Trials("formal")
           /\ \A n \in 1 .. Trials("formal") : KeyAt(path, n) = Scheduled("formal")[n]
           /\ \A n \in DOMAIN dirs[path].verdicts : TrialPasses(dirs[path].verdicts[n].of)
           /\ Failures(dirs[path]) = 0
<1>1. DOMAIN dirs = 1 .. path /\ path \in Nat
  BY ListingIsSeq DEF Shapes, Listing
<1>2. path \in DOMAIN dirs
  BY <1>1
<1>3. PICK d : d = dirs[path]
  OBVIOUS
<1>4. /\ Listing(d.verdicts)
      /\ [n \in DOMAIN d.verdicts |-> Key(d.verdicts[n].of)] = Scheduled("formal")
      /\ Failures(d) = 0
  BY <1>2, <1>3 DEF Shapes, GatePasses, RawTrialsHold
<1>5. DOMAIN d.verdicts = 1 .. Len(d.verdicts) /\ Len(d.verdicts) \in Nat
  BY <1>4, ListingIsSeq DEF Listing
<1>6. DOMAIN Scheduled("formal") = 1 .. Trials("formal")
  BY DEF Scheduled
<1>7. Trials("formal") \in Nat
  BY FormalTrials
<1>8. 1 .. Len(d.verdicts) = 1 .. Trials("formal")
  BY <1>4, <1>5, <1>6
<1>9. Len(d.verdicts) = Trials("formal")
  BY <1>5, <1>7, <1>8
<1>10. \A n \in DOMAIN d.verdicts : Key(d.verdicts[n].of) = Scheduled("formal")[n]
  <2> DEFINE f == [n \in DOMAIN d.verdicts |-> Key(d.verdicts[n].of)]
  <2>1. \A n \in DOMAIN d.verdicts : f[n] = Key(d.verdicts[n].of)
    OBVIOUS
  <2> QED
    BY <1>4, <2>1
<1>11. \A n \in DOMAIN d.verdicts : TrialPasses(d.verdicts[n].of)
  <2> DEFINE bad == {n \in DOMAIN d.verdicts : ~TrialPasses(d.verdicts[n].of)}
  <2>1. IsFiniteSet(bad) /\ Cardinality(bad) = 0
    <3>1. IsFiniteSet(1 .. Len(d.verdicts))
      BY <1>5, FS_Interval
    <3>2. bad \subseteq 1 .. Len(d.verdicts)
      BY <1>5
    <3>3. IsFiniteSet(bad)
      BY <3>1, <3>2, FS_Subset
    <3>4. Cardinality(bad) = 0
      BY <1>4 DEF Failures
    <3> QED
      BY <3>3, <3>4
  <2>2. bad = {}
    <3> HIDE DEF bad
    <3> QED
      BY <2>1, FS_EmptySet
  <2> QED
    BY <2>2
<1> QED
  BY <1>1, <1>2, <1>3, <1>4, <1>5, <1>8, <1>9, <1>10, <1>11 DEF KeyAt

(* They are those of one runner, which ran the whole schedule and passed. *)
LEMMA SoleRunner ==
    ASSUME SmokePerCut # FormalPerCut, TraceInv, path # 0, GatePasses(dirs[path])
    PROVE  \E r \in Runner :
              /\ PassedAll(r) /\ job[r].dir = path
              /\ \A s \in Runner : job[s].dir = path /\ job[s].next > 1 => s = r
<1> DEFINE N == Trials("formal")
<1>0. Shapes /\ JobInv /\ MixInv
  BY DEF TraceInv
<1>1. PICK vs : vs = dirs[path].verdicts
  OBVIOUS
<1>2. /\ path \in DOMAIN dirs /\ Len(vs) = N /\ DOMAIN vs = 1 .. N
      /\ \A n \in 1 .. N : KeyAt(path, n) = Scheduled("formal")[n]
      /\ \A n \in DOMAIN vs : TrialPasses(vs[n].of)
  BY <1>0, <1>1, PassedVerdicts
<1>3. MixOf(path)
  BY <1>0, <1>2 DEF MixInv, MixOf
<1>4. N \in Nat /\ N > 1
  BY FormalTrials
<1> HIDE DEF N
<1>5. PICK r \in Runner : Ran(r, path)
  <2>1. Len(<<>>) = 0
    OBVIOUS
  <2>2. vs # <<>>
    BY <1>2, <1>4, <2>1
  <2> QED
    BY <1>1, <1>3, <2>2 DEF MixOf
<1>6. ASSUME NEW s \in Runner, Ran(s, path) PROVE s = r
  <2> SUFFICES ASSUME s # r PROVE FALSE
    OBVIOUS
  <2>1. PICK m \in DOMAIN vs, n \in DOMAIN vs : m # n /\ KeyAt(path, m) = First /\ KeyAt(path, n) = First
    BY <1>1, <1>3, <1>5, <1>6 DEF MixOf
  <2>2. m = 1 /\ n = 1
    BY <1>2, <2>1, FirstOnce DEF N
  <2> QED
    BY <2>1, <2>2
<1>7. N = job[r].next - 1 /\ \A n \in 1 .. N : KeyAt(path, n) = Due(r, n)
  BY <1>1, <1>2, <1>3, <1>5, <1>6 DEF MixOf
<1>8. path \in Nat /\ JobFits(r)
  BY <1>0 DEF Shapes, Listing, JobInv
<1>9. job[r].dir = path /\ job[r].mode \in Modes /\ (job[r].mode = "formal" => job[r].clean)
      /\ job[r].next \in Nat
  BY <1>5, <1>8 DEF Ran, JobFits
<1>10. job[r].mode = "formal"
  <2> SUFFICES ASSUME job[r].mode = "smoke" PROVE FALSE
    BY <1>9 DEF Modes
  <2>1. PICK n \in 1 .. N : Scheduled("formal")[n] # <<CutAt("smoke", n), TrialAt("smoke", n)>>
    BY SchedulesDiffer DEF N
  <2>2. Due(r, n) = <<CutAt("smoke", n), TrialAt("smoke", n)>>
    BY DEF Due
  <2> QED
    BY <1>2, <1>7, <2>1, <2>2
<1>11. ~job[r].failed
  <2> SUFFICES ASSUME job[r].failed PROVE FALSE
    OBVIOUS
  <2>1. \E n \in DOMAIN vs : ~TrialPasses(vs[n].of)
    BY <1>1, <1>3, <1>9 DEF MixOf
  <2> QED
    BY <1>2, <2>1
<1>12. job[r].next > Trials("formal")
  BY <1>4, <1>7, <1>9 DEF N
<1> QED
  BY <1>6, <1>9, <1>10, <1>11, <1>12 DEF PassedAll, Ran

(* The report is that of a runner that did the same on the commit of the checkout. *)
LEMMA Reporter ==
    ASSUME TraceInv, path # 0, GatePasses(dirs[path])
    PROVE  \E q \in Runner : PassedAll(q) /\ job[q].commit = tree.commit /\ job[q].dir # 0
<1>0. Shapes /\ JobInv /\ ReportInv
  BY DEF TraceInv
<1>1. PICK d : d = dirs[path]
  OBVIOUS
<1>2. path \in DOMAIN dirs /\ Len(d.verdicts) = Trials("formal") /\ Failures(d) = 0
  BY <1>0, <1>1, PassedVerdicts
<1>3. /\ d.report # Absent /\ d.report.mode = "formal" /\ d.report.commit = tree.commit
      /\ d.report.n = Len(d.verdicts) /\ d.report.failures = Failures(d)
  BY <1>1 DEF GatePasses
<1>4. PICK q \in Runner : IsReportOf(q, d.report)
  BY <1>0, <1>1, <1>2, <1>3 DEF ReportInv
<1>5. /\ job[q].mode = "formal" /\ job[q].commit = tree.commit
      /\ job[q].next - 1 = Trials("formal") /\ ~job[q].failed
  BY <1>2, <1>3, <1>4 DEF IsReportOf
<1>6. JobFits(q) /\ Trials("formal") \in Nat /\ Trials("formal") > 1
  BY <1>0, FormalTrials DEF JobInv
<1>7. job[q].next > Trials("formal") /\ job[q].next # 1
  BY <1>5, <1>6 DEF JobFits
<1>8. job[q].dir # 0 /\ job[q].clean
  BY <1>5, <1>6, <1>7 DEF JobFits
<1> QED
  BY <1>5, <1>7, <1>8 DEF PassedAll

(* The gate of the paper passes only what was earned: one runner alone wrote the verdicts,
   it ran the whole formal schedule from a clean checkout and passed, and so did the one
   whose report is there, on the commit of the checkout.  A smoke run must not have as many
   trials of a cut as the formal one: its logs would do for those of a formal run.       *)
THEOREM GateEarned ==
    ASSUME SmokePerCut # FormalPerCut PROVE TraceSpec => []GateIsEarned
<1>1. ASSUME TraceInv PROVE GateIsEarned
  <2> SUFFICES ASSUME path # 0, GatePasses(dirs[path])
               PROVE  /\ tree.clean
                      /\ \E r, q \in Runner :
                            /\ PassedAll(r) /\ job[r].dir = path
                            /\ \A s \in Runner : job[s].dir = path /\ job[s].next > 1 => s = r
                            /\ PassedAll(q) /\ job[q].commit = tree.commit
                            /\ dirs[path].by \in {r, q} => job[r].commit = tree.commit
    BY DEF GateIsEarned
  <2>0. Shapes /\ JobInv /\ MakerInv
    BY <1>1 DEF TraceInv
  <2>1. tree.clean
    <3>1. PICK m : m = dirs[path].meta
      OBVIOUS
    <3>2. [commit |-> tree.commit, clean |-> tree.clean] = [commit |-> m.commit, clean |-> m.clean]
          /\ m.clean
      BY <3>1 DEF GatePasses, Sources
    <3>3. tree.clean = m.clean
      BY <3>2
    <3> QED
      BY <3>2, <3>3
  <2>2. PICK r \in Runner :
          /\ PassedAll(r) /\ job[r].dir = path
          /\ \A s \in Runner : job[s].dir = path /\ job[s].next > 1 => s = r
    BY <1>1, SoleRunner
  <2>3. PICK q \in Runner : PassedAll(q) /\ job[q].commit = tree.commit /\ job[q].dir # 0
    BY <1>1, Reporter
  <2>4. path \in DOMAIN dirs /\ path \in Nat /\ tree.commit \in Nat
    BY <2>0, PassedVerdicts DEF Shapes, Listing
  <2>5. job[q].dir \in 1 .. path /\ job[r].commit \in 0 .. tree.commit
    BY <2>0, <2>3, <2>4 DEF JobInv, JobFits
  <2>6. job[q].dir = path => q = r
    <3>1. job[q].next > 1
      BY <2>0, <2>3, FormalTrials DEF PassedAll, JobInv, JobFits
    <3> QED
      BY <2>2, <3>1
  <2>7. ASSUME dirs[path].by = r PROVE job[r].commit = tree.commit
    <3>1. CASE job[q].dir = path
      BY <2>3, <2>6, <3>1
    <3>2. CASE job[q].dir # path
      <4>1. job[q].dir \in 1 .. path - 1
        BY <2>4, <2>5, <3>2
      <4>2. job[q].commit <= job[r].commit
        BY <2>0, <2>2, <2>4, <2>7, <4>1 DEF MakerInv
      <4> QED
        BY <2>3, <2>4, <2>5, <4>2
    <3> QED
      BY <3>1, <3>2
  <2>8. ASSUME dirs[path].by = q PROVE job[r].commit = tree.commit
    <3>1. path <= job[q].dir
      BY <2>0, <2>3, <2>4, <2>8 DEF MakerInv
    <3>2. job[q].dir = path
      BY <2>4, <2>5, <3>1
    <3> QED
      BY <2>3, <2>6, <3>2
  <2> QED
    BY <2>1, <2>2, <2>3, <2>7, <2>8
<1> QED
  BY <1>1, TraceInvariant, PTL
-----------------------------------------------------------------------------
(* A runner alone on a checkout that does not change: what its directory d holds when it
   has the state j and is at p, the checkout being t.                                  *)
ConfigOf(j) == [mode |-> j.mode, seed |-> j.seed]
KeyOf(mode, n) == <<CutAt(mode, n), TrialAt(mode, n)>>

Identified(t, d, j, p) ==
    p # "identify" =>
        /\ d.config = ConfigOf(j)
        /\ d.meta = [commit |-> t.commit, clean |-> t.clean, config |-> ConfigOf(j)]
        /\ j.commit = t.commit /\ j.clean = t.clean

Logged(d, j) ==
    /\ Listing(d.verdicts) /\ Len(d.verdicts) = j.next - 1
    /\ Listing(d.events) /\ Len(d.events) = j.next - 1
    /\ \A n \in 1 .. j.next - 1 :
          /\ Key(d.events[n]) = KeyOf(j.mode, n) /\ d.events[n].seed = j.seed
          /\ d.verdicts[n].of = d.events[n]
          /\ d.verdicts[n].pass = TrialPasses(d.events[n])
          /\ j.failed = FALSE => TrialPasses(d.events[n])

Early == {"identify", "open", "trials"}
Counted(d, j, p) ==
    /\ j.mode \in Modes /\ j.next \in Nat \ {0} /\ j.rc \in {0, 1}
    /\ j.next <= Trials(j.mode) + 1
    /\ j.rc = 0 => j.next = Trials(j.mode) + 1 /\ j.failed = FALSE
    /\ p \in {"identify", "open"} => j.next = 1
    /\ p \in Early => j.failed = FALSE /\ j.rc = 1
    /\ p \in Early \/ j.rc = 0 => d.torn = FALSE

Concluded(d, j, p) ==
    /\ p \in Late => d.report = [mode |-> j.mode, seed |-> j.seed, commit |-> j.commit,
                                 n |-> j.next - 1, failures |-> IF j.failed THEN 1 ELSE 0,
                                 pass |-> j.rc = 0 /\ ~j.failed]
    /\ p \in Late \ {"verdict"} => d.verdict = IF j.rc = 0 THEN "PASS" ELSE "FAIL"
    /\ p \in {"manifest", "done"} => d.exit = [completed |-> TRUE, rc |-> j.rc]
    /\ p = "done" => d.manifest = Content(d)

Lone(t, d, j, p) ==
    DOMAIN d = Fields /\ Identified(t, d, j, p) /\ Logged(d, j) /\ Counted(d, j, p) /\ Concluded(d, j, p)

AloneInv ==
    /\ tree.edits = 0 => tree.commit = 1 /\ tree.clean = TRUE
    /\ tree.edits = 0 /\ Len(dirs) = 1 => \E r \in Runner :
          /\ \A q \in Runner \ {r} : pc[q] = "idle"
          /\ job[r].seed \in SeedOf[r]
          /\ pc[r] # "dead" => pc[r] # "idle" /\ Lone(tree, dirs[1], job[r], pc[r])

LEMMA TrialsNat == ASSUME NEW mode PROVE Trials(mode) \in Nat
<1>1. Len(Cuts) \in Nat /\ PerCut(mode) \in Nat
  BY CutsDiffer, PerCutPositive
<1> QED
  BY <1>1 DEF Trials

(* The directory is written at one field. *)
Wrote(d, e, f, v) ==
    DOMAIN d = Fields /\ DOMAIN e = Fields /\ e[f] = v /\ \A g \in Fields \ {f} : e[g] = d[g]

LEMMA FieldOfOne ==
    ASSUME Shapes, path = 1, path' = path, NEW f \in Fields, NEW v, dirs' = Put(dirs, 1, f, v)
    PROVE  Wrote(dirs[1], dirs'[1], f, v)
<1>1. DOMAIN dirs = 1 .. 1
  BY ListingIsSeq DEF Shapes
<1>2. /\ Keeps(Fields \ {f})
      /\ 1 \in DOMAIN dirs => dirs'[1][f] = v
  BY OneWritten
<1> QED
  BY <1>1, <1>2 DEF Keeps, Wrote, Shapes

(* What a step makes of the directory and the state of the runner *)
LEMMA LoneMade ==
    ASSUME NEW r, NEW t, NEW j, NEW mode \in Modes, j.mode = mode, j.next = 1, j.failed = FALSE, j.rc = 1
    PROVE  Lone(t, NewDir(r), j, "identify")
<1>1. DOMAIN NewDir(r) = Fields /\ NewDir(r).verdicts = <<>> /\ NewDir(r).events = <<>>
      /\ NewDir(r).torn = FALSE
  BY DEF NewDir, Fields
<1>2. Listing(<<>>) /\ Len(<<>>) = 0
  BY DEF Listing
<1>3. Trials(mode) \in Nat
  BY TrialsNat
<1> QED
  BY <1>1, <1>2, <1>3 DEF Lone, Identified, Logged, Counted, Concluded, Late, Early

LEMMA LoneIdentifies ==
    ASSUME NEW t, NEW d, NEW e, NEW j, NEW k, Lone(t, d, j, "identify"),
           DOMAIN j = JobFields, DOMAIN k = JobFields, DOMAIN e = Fields,
           e.config = ConfigOf(j),
           e.meta = [commit |-> t.commit, clean |-> t.clean, config |-> ConfigOf(j)],
           \A g \in Fields \ {"config", "meta"} : e[g] = d[g],
           k.commit = t.commit, k.clean = t.clean,
           \A g \in JobFields \ {"commit", "clean"} : k[g] = j[g]
    PROVE  Lone(t, e, k, "open")
<1>1. ConfigOf(k) = ConfigOf(j)
  BY DEF ConfigOf, JobFields
<1>2. /\ e.verdicts = d.verdicts /\ e.events = d.events /\ e.torn = d.torn
      /\ k.mode = j.mode /\ k.seed = j.seed /\ k.next = j.next /\ k.failed = j.failed /\ k.rc = j.rc
  BY DEF JobFields, Fields
<1>3. Identified(t, e, k, "open")
  BY <1>1 DEF Identified
<1>4. Logged(e, k)
  BY <1>2 DEF Lone, Logged
<1>5. Counted(e, k, "open")
  BY <1>2 DEF Lone, Counted, Early
<1>6. Concluded(e, k, "open")
  BY DEF Concluded, Late
<1> QED
  BY <1>3, <1>4, <1>5, <1>6 DEF Lone

LEMMA LoneOpens ==
    ASSUME NEW t, NEW d, NEW j, NEW k, NEW p \in {"trials", "report"}, Lone(t, d, j, "open"),
           \A g \in JobFields \ {"dir"} : k[g] = j[g]
    PROVE  Lone(t, d, k, p)
<1>1. /\ k.mode = j.mode /\ k.seed = j.seed /\ k.next = j.next /\ k.failed = j.failed /\ k.rc = j.rc
      /\ k.commit = j.commit /\ k.clean = j.clean /\ ConfigOf(k) = ConfigOf(j)
  BY DEF JobFields, ConfigOf
<1>2. Identified(t, d, k, p)
  BY <1>1 DEF Lone, Identified
<1>3. Logged(d, k)
  BY <1>1 DEF Lone, Logged
<1>4. Counted(d, k, p)
  BY <1>1 DEF Lone, Counted, Early
<1>5. Concluded(d, k, p)
  BY DEF Concluded, Late
<1> QED
  BY <1>2, <1>3, <1>4, <1>5 DEF Lone

(* A list of N entries that holds another one and x behind it *)
Extends(p, q, N, x) ==
    /\ Listing(p) /\ Len(p) = N /\ p[N] = x
    /\ \A n \in 1 .. N - 1 : p[n] = q[n]

LEMMA AppendExtends ==
    ASSUME NEW q, NEW x, NEW N \in Nat, Listing(q), Len(q) = N - 1
    PROVE  Extends(Append(q, x), q, N, x)
<1>1. Len(q) + 1 = N
  OBVIOUS
<1> QED
  BY <1>1, AppendListing DEF Extends

LEMMA LoneJudges ==
    ASSUME NEW t, NEW d, NEW e, NEW j, NEW k, NEW x, NEW p, Lone(t, d, j, "trials"),
           j.next <= Trials(j.mode), Key(x) = KeyOf(j.mode, j.next), x.seed = j.seed,
           DOMAIN e = Fields,
           e.events = Append(d.events, x),
           e.verdicts = Append(d.verdicts, [of |-> x, pass |-> TrialPasses(x)]),
           \A g \in Fields \ {"events", "verdicts"} : e[g] = d[g],
           k.next = j.next + 1, k.failed = ~TrialPasses(x),
           \A g \in JobFields \ {"next", "failed"} : k[g] = j[g],
           p = IF TrialPasses(x) THEN "trials" ELSE "report"
    PROVE  Lone(t, e, k, p)
<1>1. /\ e.config = d.config /\ e.meta = d.meta /\ e.torn = d.torn
      /\ k.mode = j.mode /\ k.seed = j.seed /\ k.rc = j.rc
      /\ k.commit = j.commit /\ k.clean = j.clean /\ ConfigOf(k) = ConfigOf(j)
  BY DEF JobFields, Fields, ConfigOf
<1>2. \/ TrialPasses(x) /\ k.failed = FALSE /\ p = "trials"
      \/ ~TrialPasses(x) /\ k.failed = TRUE /\ p = "report"
  <2>1. CASE TrialPasses(x)
    BY <2>1
  <2>2. CASE ~TrialPasses(x)
    BY <2>2
  <2> QED
    BY <2>1, <2>2
<1>3. Identified(t, e, k, p)
  BY <1>1 DEF Lone, Identified
<1>4. Logged(d, j) /\ Counted(d, j, "trials")
  BY DEF Lone
<1>5. j.next \in Nat \ {0} /\ Trials(j.mode) \in Nat /\ j.rc = 1 /\ d.torn = FALSE /\ j.failed = FALSE
      /\ j.mode \in Modes
  BY <1>4, TrialsNat DEF Counted, Early
<1>6. Logged(e, k)
  <2>1. PICK N : N = j.next
    OBVIOUS
  <2>2. PICK v : v = [of |-> x, pass |-> TrialPasses(x)]
    OBVIOUS
  <2>3. /\ Listing(e.verdicts) /\ Len(e.verdicts) = N
        /\ Listing(e.events) /\ Len(e.events) = N
        /\ \A n \in 1 .. N - 1 : e.verdicts[n] = d.verdicts[n] /\ e.events[n] = d.events[n]
        /\ e.verdicts[N] = v /\ e.events[N] = x
    <3>1. PICK old, new : old = d.events /\ new = d.verdicts
      OBVIOUS
    <3>2. /\ Listing(old) /\ Len(old) = N - 1 /\ Listing(new) /\ Len(new) = N - 1
          /\ N \in Nat /\ N - 1 + 1 = N
      BY <1>4, <1>5, <2>1, <3>1 DEF Logged
    <3>3. e.events = Append(old, x) /\ e.verdicts = Append(new, v)
      BY <2>2, <3>1
    <3>4. Extends(Append(old, x), old, N, x)
      BY <3>2, AppendExtends
    <3>5. Extends(Append(new, v), new, N, v)
      BY <3>2, AppendExtends
    <3>6. Extends(e.events, old, N, x) /\ Extends(e.verdicts, new, N, v)
      BY <3>3, <3>4, <3>5
    <3> QED
      BY <3>1, <3>6 DEF Extends
  <2>4. ASSUME NEW n \in 1 .. N - 1
        PROVE  /\ Key(e.events[n]) = KeyOf(k.mode, n) /\ e.events[n].seed = k.seed
               /\ e.verdicts[n].of = e.events[n]
               /\ e.verdicts[n].pass = TrialPasses(e.events[n])
               /\ k.failed = FALSE => TrialPasses(e.events[n])
    <3>1. /\ Key(d.events[n]) = KeyOf(j.mode, n) /\ d.events[n].seed = j.seed
          /\ d.verdicts[n].of = d.events[n]
          /\ d.verdicts[n].pass = TrialPasses(d.events[n])
          /\ j.failed = FALSE => TrialPasses(d.events[n])
      BY <1>4, <2>1 DEF Logged
    <3>2. e.events[n] = d.events[n] /\ e.verdicts[n] = d.verdicts[n]
      BY <2>3
    <3> QED
      BY <1>1, <1>5, <3>1, <3>2
  <2>5. /\ Key(e.events[N]) = KeyOf(k.mode, N) /\ e.events[N].seed = k.seed
        /\ e.verdicts[N].of = e.events[N]
        /\ e.verdicts[N].pass = TrialPasses(e.events[N])
    BY <1>1, <2>1, <2>2, <2>3
  <2>6. k.failed = FALSE => TrialPasses(e.events[N])
    BY <1>2, <2>3
  <2>7. k.next - 1 = N /\ N \in Nat \ {0}
    BY <1>5, <2>1
  <2>8. \A n \in 1 .. N : n \in 1 .. N - 1 \/ n = N
    BY <2>7
  <2> QED
    BY <2>3, <2>4, <2>5, <2>6, <2>7, <2>8 DEF Logged
<1>7. Counted(e, k, p)
  BY <1>1, <1>2, <1>5 DEF Counted, Early
<1>8. Concluded(e, k, p)
  BY DEF Concluded, Late
<1> QED
  BY <1>3, <1>6, <1>7, <1>8 DEF Lone

LEMMA LoneRaises ==
    ASSUME NEW t, NEW d, NEW e, NEW j, Lone(t, d, j, "trials"), DOMAIN e = Fields,
           \A g \in Fields \ {"torn"} : e[g] = d[g]
    PROVE  Lone(t, e, j, "report")
<1>1. /\ e.config = d.config /\ e.meta = d.meta /\ e.verdicts = d.verdicts /\ e.events = d.events
  BY DEF Fields
<1>2. Identified(t, e, j, "report")
  BY <1>1 DEF Lone, Identified
<1>3. Logged(e, j)
  BY <1>1 DEF Lone, Logged
<1>4. Counted(e, j, "report")
  BY <1>1 DEF Lone, Counted, Early
<1>5. Concluded(e, j, "report")
  BY DEF Concluded, Late
<1> QED
  BY <1>2, <1>3, <1>4, <1>5 DEF Lone

LEMMA LoneEnds ==
    ASSUME NEW t, NEW d, NEW j, NEW k, Lone(t, d, j, "trials"), j.next > Trials(j.mode),
           k.rc = 0, \A g \in JobFields \ {"rc"} : k[g] = j[g]
    PROVE  Lone(t, d, k, "report")
<1>1. /\ k.mode = j.mode /\ k.seed = j.seed /\ k.next = j.next /\ k.failed = j.failed
      /\ k.commit = j.commit /\ k.clean = j.clean /\ ConfigOf(k) = ConfigOf(j)
  BY DEF JobFields, ConfigOf
<1>2. Identified(t, d, k, "report")
  BY <1>1 DEF Lone, Identified
<1>3. Logged(d, k)
  BY <1>1 DEF Lone, Logged
<1>4. Counted(d, k, "report")
  <2>1. Trials(j.mode) \in Nat
    BY TrialsNat
  <2> QED
    BY <1>1, <2>1 DEF Lone, Counted, Early
<1>5. Concluded(d, k, "report")
  BY DEF Concluded, Late
<1> QED
  BY <1>2, <1>3, <1>4, <1>5 DEF Lone

LEMMA LoneWrites ==
    ASSUME NEW t, NEW d, NEW e, NEW j, NEW f, NEW v, NEW p, NEW q, Lone(t, d, j, p), Wrote(d, e, f, v),
           \/ /\ p = "report" /\ q = "verdict" /\ f = "report"
              /\ v = [mode |-> j.mode, seed |-> j.seed, commit |-> j.commit,
                      n |-> j.next - 1, failures |-> IF j.failed THEN 1 ELSE 0,
                      pass |-> j.rc = 0 /\ ~j.failed]
           \/ /\ p = "verdict" /\ q = "exit" /\ f = "verdict"
              /\ v = IF j.rc = 0 THEN "PASS" ELSE "FAIL"
           \/ /\ p = "exit" /\ q = "manifest" /\ f = "exit"
              /\ v = [completed |-> TRUE, rc |-> j.rc]
           \/ /\ p = "manifest" /\ q = "done" /\ f = "manifest" /\ v = Content(d)
    PROVE  Lone(t, e, j, q)
<1>1. /\ e.config = d.config /\ e.meta = d.meta /\ e.verdicts = d.verdicts /\ e.events = d.events
      /\ e.torn = d.torn /\ DOMAIN e = Fields /\ DOMAIN d = Fields
  BY DEF Wrote, Fields
<1>2. Identified(t, e, j, q)
  BY <1>1 DEF Lone, Identified
<1>3. Logged(e, j)
  BY <1>1 DEF Lone, Logged
<1>4. Counted(e, j, q)
  BY <1>1 DEF Lone, Counted, Early
<1>5. Concluded(e, j, q)
  <2>1. CASE p = "report"
    BY <2>1 DEF Concluded, Late, Wrote
  <2>2. CASE p = "verdict"
    BY <2>2 DEF Lone, Concluded, Late, Wrote, Fields
  <2>3. CASE p = "exit"
    BY <2>3 DEF Lone, Concluded, Late, Wrote, Fields
  <2>4. CASE p = "manifest"
    <3>1. e.manifest = Content(d) /\ \A g \in Fields \ {"manifest"} : e[g] = d[g]
      BY <2>4 DEF Wrote
    <3>2. Content(e) = Content(d)
      <4>1. Content(d) = [g \in Fields |-> IF g = "manifest" THEN Absent ELSE d[g]]
        BY <1>1 DEF Content
      <4>2. Content(e) = [g \in Fields |-> IF g = "manifest" THEN Absent ELSE e[g]]
        BY <1>1 DEF Content
      <4> QED
        BY <3>1, <4>1, <4>2
    <3>3. e.report = d.report /\ e.verdict = d.verdict /\ e.exit = d.exit
      BY <3>1 DEF Fields
    <3> QED
      BY <2>4, <3>1, <3>2, <3>3 DEF Lone, Concluded, Late
  <2> QED
    BY <2>1, <2>2, <2>3, <2>4
<1> QED
  BY <1>1, <1>2, <1>3, <1>4, <1>5 DEF Lone
(* A step of the runner that is alone *)
LoneAct(r) == Identify(r) \/ Open(r) \/ RunTrial(r) \/ TrialRaises(r) \/ EndTrials(r)
              \/ Report(r) \/ Verdict(r) \/ ExitStatus(r) \/ Manifest(r) \/ RunnerDies(r)

LEMMA LoneStep ==
    ASSUME Shapes, JobInv, Len(dirs) = 1, NEW r \in Runner, LoneAct(r), pc'[r] # "dead",
           Lone(tree, dirs[1], job[r], pc[r])
    PROVE  Lone(tree, dirs'[1], job'[r], pc'[r])
<1>1. /\ path = 1 /\ Listing(dirs) /\ DOMAIN dirs = 1 .. 1 /\ DOMAIN dirs[1] = Fields
      /\ DOMAIN job[r] = JobFields
      /\ pc = [q \in Runner |-> pc[q]] /\ job = [q \in Runner |-> job[q]]
  BY ListingIsSeq DEF Shapes
<1>2. \A p : Goto(r, p) => pc'[r] = p
  BY <1>1 DEF Goto
<1>3. pc[r] = "trials" => job[r].dir = 1
  BY <1>1 DEF JobInv, JobFits
<1>4. ASSUME Identify(r) PROVE Lone(tree, dirs'[1], job'[r], pc'[r])
  <2>1. PICK c, m : /\ dirs' = [dirs EXCEPT ![1].config = c, ![1].meta = m]
                    /\ c = ConfigOf(job[r])
                    /\ m = [commit |-> tree.commit, clean |-> tree.clean, config |-> ConfigOf(job[r])]
                    /\ path' = path
    BY <1>1, <1>4 DEF Identify, ConfigOf
  <2>2. dirs' = Put(Put(dirs, 1, "config", c), 1, "meta", m)
    BY <2>1 DEF Put
  <2>3. "config" \in Fields /\ "meta" \in Fields \ {"config"}
        /\ Fields \ {"config", "meta"} \in SUBSET Fields
    BY DEF Fields
  <2>4. /\ Keeps(Fields \ {"config", "meta"})
        /\ 1 \in DOMAIN dirs => dirs'[1]["config"] = c /\ dirs'[1]["meta"] = m
    BY <2>1, <2>2, <2>3, TwoWritten
  <2>5. /\ DOMAIN dirs'[1] = Fields /\ dirs'[1].config = c /\ dirs'[1].meta = m
        /\ \A g \in Fields \ {"config", "meta"} : dirs'[1][g] = dirs[1][g]
    BY <1>1, <2>4 DEF Keeps
  <2>6. pc[r] = "identify" /\ pc'[r] = "open"
    BY <1>2, <1>4 DEF Identify
  <2>7. job' = [job EXCEPT ![r].commit = tree.commit, ![r].clean = tree.clean]
    BY <1>4 DEF Identify
  <2>8. /\ DOMAIN job'[r] = JobFields /\ job'[r].commit = tree.commit /\ job'[r].clean = tree.clean
        /\ \A g \in JobFields \ {"commit", "clean"} : job'[r][g] = job[r][g]
    BY <1>1, <2>7 DEF JobFields
  <2>9. PICK t, d, e, j, k : t = tree /\ d = dirs[1] /\ e = dirs'[1] /\ j = job[r] /\ k = job'[r]
    OBVIOUS
  <2>10. Lone(t, d, j, "identify")
    BY <2>6, <2>9
  <2>11. /\ DOMAIN j = JobFields /\ DOMAIN k = JobFields /\ DOMAIN e = Fields
         /\ e.config = ConfigOf(j)
         /\ e.meta = [commit |-> t.commit, clean |-> t.clean, config |-> ConfigOf(j)]
         /\ k.commit = t.commit /\ k.clean = t.clean
    BY <1>1, <2>1, <2>5, <2>8, <2>9
  <2>12. /\ \A g \in Fields \ {"config", "meta"} : e[g] = d[g]
         /\ \A g \in JobFields \ {"commit", "clean"} : k[g] = j[g]
    BY <2>5, <2>8, <2>9
  <2>13. Lone(t, e, k, "open")
    BY <2>10, <2>11, <2>12, LoneIdentifies
  <2> QED
    BY <2>6, <2>9, <2>13
<1>5. ASSUME Open(r) PROVE Lone(tree, dirs'[1], job'[r], pc'[r])
  <2>1. pc[r] = "open" /\ pc'[r] \in {"trials", "report"} /\ dirs' = dirs
    BY <1>2, <1>5 DEF Open
  <2>2. job' = job \/ job' = [job EXCEPT ![r].dir = path]
    BY <1>5 DEF Open
  <2>3. \A g \in JobFields \ {"dir"} : job'[r][g] = job[r][g]
    BY <1>1, <2>2 DEF JobFields
  <2> QED
    BY <2>1, <2>3, LoneOpens
<1>6. ASSUME RunTrial(r) PROVE Lone(tree, dirs'[1], job'[r], pc'[r])
  <2>1. job[r].dir = 1 /\ pc[r] = "trials" /\ job[r].next <= Trials(job[r].mode) /\ path' = path
    BY <1>3, <1>6 DEF RunTrial
  <2>2. PICK out :
          LET t == TrialOf(job[r].seed, job[r].mode, job[r].next, out)
          IN  /\ dirs' = [dirs EXCEPT ![1].events = Append(@, t),
                                      ![1].verdicts = Append(@, [of |-> t, pass |-> TrialPasses(t)])]
              /\ job' = [job EXCEPT ![r].next = job[r].next + 1, ![r].failed = ~TrialPasses(t)]
              /\ IF TrialPasses(t) THEN UNCHANGED pc ELSE Goto(r, "report")
    BY <1>6, <2>1 DEF RunTrial
  <2>3. PICK x : x = TrialOf(job[r].seed, job[r].mode, job[r].next, out)
    OBVIOUS
  <2>4. Key(x) = KeyOf(job[r].mode, job[r].next) /\ x.seed = job[r].seed
    BY <2>3 DEF TrialOf, Key, KeyOf
  <2>5. PICK es, vs : es = Append(dirs[1].events, x)
                      /\ vs = Append(dirs[1].verdicts, [of |-> x, pass |-> TrialPasses(x)])
    OBVIOUS
  <2>6. dirs' = Put(Put(dirs, 1, "events", es), 1, "verdicts", vs)
    BY <1>1, <2>2, <2>3, <2>5 DEF Put, Fields
  <2>7. "events" \in Fields /\ "verdicts" \in Fields \ {"events"}
        /\ Fields \ {"events", "verdicts"} \in SUBSET Fields
    BY DEF Fields
  <2>8. /\ Keeps(Fields \ {"events", "verdicts"})
        /\ 1 \in DOMAIN dirs => dirs'[1]["events"] = es /\ dirs'[1]["verdicts"] = vs
    BY <2>1, <2>6, <2>7, TwoWritten
  <2>9. /\ DOMAIN dirs'[1] = Fields /\ dirs'[1].events = es /\ dirs'[1].verdicts = vs
        /\ \A g \in Fields \ {"events", "verdicts"} : dirs'[1][g] = dirs[1][g]
    BY <1>1, <2>8 DEF Keeps
  <2>10. job' = [job EXCEPT ![r].next = job[r].next + 1, ![r].failed = ~TrialPasses(x)]
    BY <2>2, <2>3
  <2>11. /\ job'[r].next = job[r].next + 1 /\ job'[r].failed = ~TrialPasses(x)
         /\ \A g \in JobFields \ {"next", "failed"} : job'[r][g] = job[r][g]
    BY <1>1, <2>10 DEF JobFields
  <2>12. pc'[r] = IF TrialPasses(x) THEN "trials" ELSE "report"
    BY <1>2, <2>1, <2>2, <2>3
  <2>13. PICK t, d, e, j, k, p : /\ t = tree /\ d = dirs[1] /\ e = dirs'[1]
                                /\ j = job[r] /\ k = job'[r] /\ p = pc'[r]
    OBVIOUS
  <2>14. /\ Lone(t, d, j, "trials") /\ j.next <= Trials(j.mode)
         /\ Key(x) = KeyOf(j.mode, j.next) /\ x.seed = j.seed
         /\ p = IF TrialPasses(x) THEN "trials" ELSE "report"
    BY <2>1, <2>4, <2>12, <2>13
  <2>15. /\ DOMAIN e = Fields /\ e.events = Append(d.events, x)
         /\ e.verdicts = Append(d.verdicts, [of |-> x, pass |-> TrialPasses(x)])
         /\ \A g \in Fields \ {"events", "verdicts"} : e[g] = d[g]
    BY <2>5, <2>9, <2>13
  <2>16. /\ k.next = j.next + 1 /\ k.failed = ~TrialPasses(x)
         /\ \A g \in JobFields \ {"next", "failed"} : k[g] = j[g]
    BY <2>11, <2>13
  <2>17. Lone(t, e, k, p)
    BY <2>14, <2>15, <2>16, LoneJudges
  <2> QED
    BY <2>13, <2>17
<1>7. ASSUME TrialRaises(r) PROVE Lone(tree, dirs'[1], job'[r], pc'[r])
  <2>1. /\ pc[r] = "trials" /\ pc'[r] = "report" /\ job' = job /\ path' = path
        /\ dirs' = dirs \/ dirs' = [dirs EXCEPT ![1].torn = TRUE]
    BY <1>2, <1>3, <1>7 DEF TrialRaises
  <2>2. DOMAIN dirs'[1] = Fields /\ \A g \in Fields \ {"torn"} : dirs'[1][g] = dirs[1][g]
    <3>1. CASE dirs' = dirs
      BY <1>1, <3>1
    <3>2. CASE dirs' = [dirs EXCEPT ![1].torn = TRUE]
      <4>1. dirs' = Put(dirs, 1, "torn", TRUE) /\ "torn" \in Fields
        BY <3>2 DEF Put, Fields
      <4>2. Wrote(dirs[1], dirs'[1], "torn", TRUE)
        BY <1>1, <2>1, <4>1, FieldOfOne
      <4> QED
        BY <4>2 DEF Wrote
    <3> QED
      BY <2>1, <3>1, <3>2
  <2>3. PICK t, d, e, j : t = tree /\ d = dirs[1] /\ e = dirs'[1] /\ j = job[r]
    OBVIOUS
  <2>4. /\ Lone(t, d, j, "trials") /\ DOMAIN e = Fields
        /\ \A g \in Fields \ {"torn"} : e[g] = d[g]
    BY <2>1, <2>2, <2>3
  <2>5. Lone(t, e, j, "report")
    BY <2>4, LoneRaises
  <2>6. job'[r] = j /\ pc'[r] = "report"
    BY <2>1, <2>3
  <2> QED
    BY <2>3, <2>5, <2>6
<1>8. ASSUME EndTrials(r) PROVE Lone(tree, dirs'[1], job'[r], pc'[r])
  <2>1. /\ pc[r] = "trials" /\ pc'[r] = "report" /\ dirs' = dirs
        /\ job[r].next > Trials(job[r].mode) /\ job' = [job EXCEPT ![r].rc = 0]
    BY <1>2, <1>8 DEF EndTrials
  <2>2. job'[r].rc = 0 /\ \A g \in JobFields \ {"rc"} : job'[r][g] = job[r][g]
    BY <1>1, <2>1 DEF JobFields
  <2>3. PICK t, d, j, k : t = tree /\ d = dirs[1] /\ j = job[r] /\ k = job'[r]
    OBVIOUS
  <2>4. /\ Lone(t, d, j, "trials") /\ j.next > Trials(j.mode)
        /\ k.rc = 0 /\ \A g \in JobFields \ {"rc"} : k[g] = j[g]
    BY <2>1, <2>2, <2>3
  <2>5. Lone(t, d, k, "report")
    BY <2>4, LoneEnds
  <2>6. dirs'[1] = d /\ pc'[r] = "report"
    BY <2>1, <2>3
  <2> QED
    BY <2>3, <2>5, <2>6
<1>9. ASSUME NEW f \in Fields, NEW v, AtPath(f, v), UNCHANGED <<path, job>>
      PROVE  Wrote(dirs[1], dirs'[1], f, v) /\ job'[r] = job[r]
  <2>1. dirs' = Put(dirs, 1, f, v)
    BY <1>1, <1>9 DEF AtPath, Put
  <2> QED
    BY <1>1, <1>9, <2>1, FieldOfOne
<1>10. ASSUME Report(r) PROVE Lone(tree, dirs'[1], job'[r], pc'[r])
  <2>1. PICK v : /\ AtPath("report", v)
                 /\ v = [mode |-> job[r].mode, seed |-> job[r].seed, commit |-> job[r].commit,
                         n |-> job[r].next - 1, failures |-> IF job[r].failed THEN 1 ELSE 0,
                         pass |-> job[r].rc = 0 /\ ~job[r].failed]
                 /\ pc[r] = "report" /\ pc'[r] = "verdict" /\ UNCHANGED <<path, job>>
    BY <1>2, <1>10 DEF Report
  <2>2. Wrote(dirs[1], dirs'[1], "report", v) /\ job'[r] = job[r]
    BY <1>9, <2>1 DEF Fields
  <2> QED
    BY <2>1, <2>2, LoneWrites
<1>11. ASSUME Verdict(r) PROVE Lone(tree, dirs'[1], job'[r], pc'[r])
  <2>1. PICK v : /\ AtPath("verdict", v) /\ v = IF job[r].rc = 0 THEN "PASS" ELSE "FAIL"
                 /\ pc[r] = "verdict" /\ pc'[r] = "exit" /\ UNCHANGED <<path, job>>
    BY <1>2, <1>11 DEF Verdict
  <2>2. Wrote(dirs[1], dirs'[1], "verdict", v) /\ job'[r] = job[r]
    BY <1>9, <2>1 DEF Fields
  <2> QED
    BY <2>1, <2>2, LoneWrites
<1>12. ASSUME ExitStatus(r) PROVE Lone(tree, dirs'[1], job'[r], pc'[r])
  <2>1. PICK v : /\ AtPath("exit", v) /\ v = [completed |-> TRUE, rc |-> job[r].rc]
                 /\ pc[r] = "exit" /\ pc'[r] = "manifest" /\ UNCHANGED <<path, job>>
    BY <1>2, <1>12 DEF ExitStatus
  <2>2. Wrote(dirs[1], dirs'[1], "exit", v) /\ job'[r] = job[r]
    BY <1>9, <2>1 DEF Fields
  <2> QED
    BY <2>1, <2>2, LoneWrites
<1>13. ASSUME Manifest(r) PROVE Lone(tree, dirs'[1], job'[r], pc'[r])
  <2>1. PICK v : /\ AtPath("manifest", v) /\ v = Content(dirs[1])
                 /\ pc[r] = "manifest" /\ pc'[r] = "done" /\ UNCHANGED <<path, job>>
    BY <1>1, <1>2, <1>13 DEF Manifest
  <2>2. Wrote(dirs[1], dirs'[1], "manifest", v) /\ job'[r] = job[r]
    BY <1>9, <2>1 DEF Fields
  <2> QED
    BY <2>1, <2>2, LoneWrites
<1>14. ~RunnerDies(r)
  BY <1>2 DEF RunnerDies
<1> QED
  BY <1>4, <1>5, <1>6, <1>7, <1>8, <1>10, <1>11, <1>12, <1>13, <1>14 DEF LoneAct

LEMMA LoneActFrame ==
    ASSUME Shapes, NEW r \in Runner, LoneAct(r)
    PROVE  /\ tree' = tree /\ path' = path /\ pc[r] \notin {"idle", "dead"} /\ pc'[r] # "idle"
           /\ job'[r].seed = job[r].seed
           /\ \A q \in Runner \ {r} : pc'[q] = pc[q] /\ job'[q] = job[q]
<1> USE DEF Shapes
<1>1. CASE RunTrial(r)
  <2>1. tree' = tree /\ path' = path
    BY <1>1 DEF RunTrial
  <2>2. Moves(r) /\ Judged(r)
    BY <1>1, RunTrialMoves
  <2> QED
    BY <2>1, <2>2 DEF Moves, Judged, Same, JobFields
<1>2. CASE Identify(r)
  BY <1>2 DEF Identify, Goto, JobFields
<1>3. CASE Open(r)
  BY <1>3 DEF Open, Goto, JobFields
<1>4. CASE TrialRaises(r) \/ EndTrials(r)
  BY <1>4 DEF TrialRaises, EndTrials, Goto, JobFields
<1>5. CASE Report(r) \/ Verdict(r) \/ ExitStatus(r) \/ Manifest(r)
  BY <1>5 DEF Report, Verdict, ExitStatus, Manifest, Goto
<1>6. CASE RunnerDies(r)
  BY <1>6 DEF RunnerDies, Goto
<1> QED
  BY <1>1, <1>2, <1>3, <1>4, <1>5, <1>6 DEF LoneAct
LEMMA TreeMoves ==
    ASSUME Shapes, [TraceNext]_traceVars PROVE tree' = tree \/ tree'.edits # 0
<1>1. CASE Edit
  <2>1. tree.edits \in Nat /\ tree \in [commit : Nat, clean : BOOLEAN, edits : Nat]
    BY DEF Shapes
  <2>2. tree'.edits = tree.edits + 1
    <3>1. CASE tree' = [tree EXCEPT !.edits = @ + 1, !.clean = ~@]
      BY <2>1, <3>1
    <3>2. CASE tree' = [tree EXCEPT !.edits = @ + 1, !.commit = @ + 1, !.clean = TRUE]
      BY <2>1, <3>2
    <3> QED
      BY <1>1, <3>1, <3>2 DEF Edit
  <2> QED
    BY <2>1, <2>2
<1>2. CASE ~Edit
  BY <1>2 DEF TraceNext, traceVars, Prepare, Identify, Open, RunTrial, TrialRaises, EndTrials,
     Report, Verdict, ExitStatus, Manifest, RunnerDies
<1> QED
  BY <1>1, <1>2

LEMMA InitAlone == TraceInit => AloneInv
<1> SUFFICES ASSUME TraceInit PROVE AloneInv
  OBVIOUS
<1>1. Len(dirs) = 0 /\ tree.commit = 1 /\ tree.clean = TRUE
  BY DEF TraceInit
<1> QED
  BY <1>1 DEF AloneInv

LEMMA AloneKept ==
    ASSUME Shapes, JobInv, AloneInv, [TraceNext]_traceVars PROVE AloneInv'
<1>1. tree' = tree \/ tree'.edits # 0
  BY TreeMoves
<1>2. tree'.edits = 0 => tree'.commit = 1 /\ tree'.clean = TRUE
  BY <1>1 DEF AloneInv
<1> DEFINE Q == \E r \in Runner :
          /\ \A q \in Runner \ {r} : pc'[q] = "idle"
          /\ job'[r].seed \in SeedOf[r]
          /\ pc'[r] # "dead" => pc'[r] # "idle" /\ Lone(tree', dirs'[1], job'[r], pc'[r])
<1>3. ASSUME tree'.edits = 0, Len(dirs') = 1 PROVE Q
  <2>1. tree' = tree /\ tree.edits = 0
    BY <1>1, <1>3
  <2>2. ASSUME Len(dirs) = 1
        PROVE  \E r \in Runner : /\ \A q \in Runner \ {r} : pc[q] = "idle"
                                 /\ job[r].seed \in SeedOf[r]
                                 /\ pc[r] # "dead" => /\ pc[r] # "idle"
                                                      /\ Lone(tree, dirs[1], job[r], pc[r])
    BY <2>1, <2>2 DEF AloneInv
  <2>3. CASE UNCHANGED traceVars \/ Edit
    <3>1. UNCHANGED <<dirs, pc, job>>
      BY <2>3 DEF traceVars, Edit
    <3>2. PICK r \in Runner : /\ \A q \in Runner \ {r} : pc[q] = "idle"
                              /\ job[r].seed \in SeedOf[r]
                              /\ pc[r] # "dead" => /\ pc[r] # "idle"
                                                   /\ Lone(tree, dirs[1], job[r], pc[r])
      BY <1>3, <2>2, <3>1
    <3> QED
      BY <2>1, <3>1, <3>2
  <2>4. ASSUME NEW r \in Runner, NEW mode \in Modes, NEW seed \in SeedOf[r], Prepare(r, mode, seed)
        PROVE  Q
    <3>1. pc[r] = "idle" /\ dirs' = Append(dirs, NewDir(r)) /\ pc' = [pc EXCEPT ![r] = "identify"]
          /\ job' = [job EXCEPT ![r] = [NoJob EXCEPT !.mode = mode, !.seed = seed]]
      BY <2>4 DEF Prepare, Goto
    <3>2. Len(dirs') = Len(dirs) + 1 /\ dirs'[Len(dirs) + 1] = NewDir(r) /\ Len(dirs) \in Nat
      BY <3>1, Extended DEF Shapes, Listing
    <3>3. Len(dirs) = 0 /\ dirs'[1] = NewDir(r)
      BY <1>3, <3>2
    <3>4. \A q \in Runner \ {r} : pc'[q] = "idle"
      <4>1. \A q \in Runner : pc[q] = "idle"
        BY <3>3 DEF JobInv, JobFits, Shapes
      <4> QED
        BY <3>1, <4>1 DEF Shapes
    <3>5. pc'[r] = "identify" /\ job'[r] = [NoJob EXCEPT !.mode = mode, !.seed = seed]
      BY <3>1 DEF Shapes
    <3>6. /\ job'[r].mode = mode /\ job'[r].next = 1 /\ job'[r].failed = FALSE /\ job'[r].rc = 1
          /\ job'[r].seed = seed
      BY <3>5 DEF NoJob
    <3>7. Lone(tree', NewDir(r), job'[r], "identify")
      BY <3>6, LoneMade
    <3> QED
      BY <3>3, <3>4, <3>5, <3>6, <3>7
  <2>5. ASSUME NEW r \in Runner, LoneAct(r) PROVE Q
    <3>1. /\ path' = path /\ pc[r] \notin {"idle", "dead"} /\ pc'[r] # "idle"
          /\ job'[r].seed = job[r].seed
          /\ \A q \in Runner \ {r} : pc'[q] = pc[q] /\ job'[q] = job[q]
      BY <2>5, LoneActFrame
    <3>2. Len(dirs) = 1
      <4>1. Shapes'
        BY ShapesKept
      <4> QED
        BY <1>3, <3>1, <4>1 DEF Shapes
    <3>3. /\ \A q \in Runner \ {r} : pc[q] = "idle"
          /\ job[r].seed \in SeedOf[r]
          /\ Lone(tree, dirs[1], job[r], pc[r])
      BY <2>2, <3>1, <3>2
    <3>4. CASE pc'[r] = "dead"
      BY <3>1, <3>3, <3>4
    <3>5. CASE pc'[r] # "dead"
      <4>1. Lone(tree, dirs'[1], job'[r], pc'[r])
        BY <2>5, <3>2, <3>3, <3>5, LoneStep
      <4> QED
        BY <2>1, <3>1, <3>3, <3>5, <4>1
    <3> QED
      BY <3>4, <3>5
  <2> HIDE DEF Q
  <2> QED
    BY <2>3, <2>4, <2>5 DEF TraceNext, LoneAct, Modes
<1> QED
  BY <1>2, <1>3 DEF AloneInv

(* While one runner alone was started and the checkout did not change, every file holds
   what that runner has done so far.                                                     *)
THEOREM AloneInvariant == TraceSpec => []AloneInv
<1>1. TraceInv /\ AloneInv /\ [TraceNext]_traceVars => AloneInv'
  BY AloneKept DEF TraceInv
<1> QED
  BY <1>1, InitAlone, TraceInvariant, PTL DEF TraceSpec

-----------------------------------------------------------------------------
(* The raw files of a runner that passed every trial alone *)
LEMMA LoneRaw ==
    ASSUME NEW t, NEW d, NEW j, Lone(t, d, j, "done"), j.mode = "formal", j.rc = 0
    PROVE  RawTrialsHold(d) /\ Failures(d) = 0 /\ Len(d.verdicts) = Trials("formal") /\ d.events # <<>>
<1>1. PICK N : N = Trials("formal")
  OBVIOUS
<1>2. /\ N \in Nat /\ N > 1 /\ j.next = N + 1 /\ j.failed = FALSE /\ d.torn = FALSE
      /\ d.config = ConfigOf(j)
  BY <1>1, FormalTrials DEF Lone, Counted, Identified
<1>3. j.next - 1 = N
  BY <1>2
<1>4. /\ Listing(d.verdicts) /\ Len(d.verdicts) = N /\ Listing(d.events) /\ Len(d.events) = N
      /\ \A n \in 1 .. N :
            /\ Key(d.events[n]) = KeyOf("formal", n) /\ d.events[n].seed = j.seed
            /\ d.verdicts[n].of = d.events[n]
            /\ d.verdicts[n].pass = TrialPasses(d.events[n])
            /\ TrialPasses(d.events[n])
  BY <1>2, <1>3 DEF Lone, Logged
<1>5. DOMAIN d.verdicts = 1 .. N /\ DOMAIN d.events = 1 .. N
  BY <1>4, ListingIsSeq
<1>6. Scheduled("formal") = [n \in 1 .. N |-> KeyOf("formal", n)]
  BY <1>1 DEF Scheduled, KeyOf
<1>7. d.config.mode = "formal" /\ d.config.seed = j.seed
  BY <1>2 DEF ConfigOf
<1>8. [i \in DOMAIN d.verdicts |-> Key(d.verdicts[i].of)] = Scheduled("formal")
  <2>1. \A n \in 1 .. N : Key(d.verdicts[n].of) = KeyOf("formal", n)
    BY <1>4
  <2> QED
    BY <1>5, <1>6, <2>1
<1>9. {Key(d.events[i]) : i \in DOMAIN d.events} = Range(Scheduled("formal"))
  <2>1. Range(Scheduled("formal")) = {KeyOf("formal", n) : n \in 1 .. N}
    BY <1>6 DEF Range
  <2> QED
    BY <1>4, <1>5, <2>1
<1>10. ASSUME NEW n \in 1 .. N
       PROVE  EventsOf(d, Key(d.events[n])) = {n}
  <2>1. ASSUME NEW m \in 1 .. N, Key(d.events[m]) = Key(d.events[n]) PROVE m = n
    <3>1. Scheduled("formal")[m] = Scheduled("formal")[n]
      BY <1>4, <1>6, <2>1
    <3> QED
      BY <1>1, <3>1, ScheduleInjective
  <2> QED
    BY <1>5, <2>1 DEF EventsOf
<1>11. ASSUME NEW n \in 1 .. N
       PROVE  LET x == d.verdicts[n].of
              IN  /\ Dims(x.seed, x.trial) = Dims(d.config.seed, x.trial)
                  /\ {d.events[i] : i \in EventsOf(d, Key(x))} = {x}
                  /\ Cardinality(EventsOf(d, Key(x))) = 1
                  /\ d.verdicts[n].pass = TrialPasses(x)
  <2>1. PICK x : x = d.verdicts[n].of
    OBVIOUS
  <2>2. x = d.events[n] /\ x.seed = d.config.seed /\ d.verdicts[n].pass = TrialPasses(x)
    BY <1>4, <1>7, <2>1
  <2>3. EventsOf(d, Key(x)) = {n}
    BY <1>10, <2>2
  <2>4. Cardinality({n}) = 1
    BY FS_Singleton
  <2>5. {d.events[i] : i \in EventsOf(d, Key(x))} = {x}
    BY <2>2, <2>3
  <2>6. Dims(x.seed, x.trial) = Dims(d.config.seed, x.trial)
    BY <2>2
  <2> QED
    BY <2>1, <2>2, <2>3, <2>4, <2>5, <2>6
<1>12. RawTrialsHold(d)
  <2>1. ~d.torn
    BY <1>2
  <2>2. \A i \in DOMAIN d.verdicts :
            LET x == d.verdicts[i].of
            IN  /\ Dims(x.seed, x.trial) = Dims(d.config.seed, x.trial)
                /\ {d.events[k] : k \in EventsOf(d, Key(x))} = {x}
                /\ Cardinality(EventsOf(d, Key(x))) = 1
                /\ d.verdicts[i].pass = TrialPasses(x)
    BY <1>5, <1>11
  <2> QED
    BY <1>7, <1>8, <1>9, <2>1, <2>2 DEF RawTrialsHold
<1>13. Failures(d) = 0
  <2>1. {i \in DOMAIN d.verdicts : ~TrialPasses(d.verdicts[i].of)} = {}
    BY <1>4, <1>5
  <2>2. Cardinality({}) = 0
    BY FS_EmptySet
  <2> QED
    BY <2>1, <2>2 DEF Failures
<1>14. d.events # <<>>
  <2>1. Len(<<>>) = 0
    OBVIOUS
  <2> QED
    BY <1>2, <1>4, <2>1
<1> QED
  BY <1>1, <1>4, <1>12, <1>13, <1>14

LEMMA LonePasses ==
    ASSUME NEW d, NEW j, Lone(tree, d, j, "done"), j.mode = "formal", j.rc = 0, tree.clean = TRUE,
           Balanced(j.seed, FormalPerCut)
    PROVE  GatePasses(d) /\ ArtifactValid(d)
<1>1. /\ RawTrialsHold(d) /\ Failures(d) = 0 /\ Len(d.verdicts) = Trials("formal") /\ d.events # <<>>
  BY LoneRaw
<1>2. /\ d.config = [mode |-> j.mode, seed |-> j.seed]
      /\ d.meta = [commit |-> tree.commit, clean |-> tree.clean, config |-> d.config]
      /\ j.commit = tree.commit
  BY DEF Lone, Identified, ConfigOf
<1>3. j.failed = FALSE /\ j.next = Trials("formal") + 1 /\ Trials("formal") \in Nat
  BY FormalTrials DEF Lone, Counted
<1>4. /\ d.report = [mode |-> j.mode, seed |-> j.seed, commit |-> j.commit,
                     n |-> j.next - 1, failures |-> IF j.failed THEN 1 ELSE 0,
                     pass |-> j.rc = 0 /\ ~j.failed]
      /\ d.verdict = "PASS" /\ d.exit = [completed |-> TRUE, rc |-> 0] /\ d.manifest = Content(d)
  BY DEF Lone, Concluded, Late
<1>5. DOMAIN d = Fields
  BY DEF Lone
<1>6. DOMAIN Absent = {"state"}
  BY DEF Absent
<1>7. Written(d) /\ d.report # Absent
  <2>1. DOMAIN d.config = {"mode", "seed"} /\ DOMAIN d.meta = {"commit", "clean", "config"}
    BY <1>2
  <2>2. "mode" \in DOMAIN d.report
    BY <1>4
  <2> QED
    BY <1>6, <2>1, <2>2 DEF Written
<1>8. ManifestMatches(d)
  <2>1. DOMAIN Content(d) = Fields
    BY <1>5 DEF Content
  <2>2. "by" \in Fields /\ "by" \notin {"state"}
    BY DEF Fields
  <2>3. Content(d) # Absent
    BY <1>6, <2>1, <2>2
  <2> QED
    BY <1>4, <2>3 DEF ManifestMatches
<1>9. /\ d.report.seed = d.config.seed /\ d.report.mode = d.config.mode /\ d.config.mode = "formal"
      /\ d.report.commit = tree.commit /\ d.report.failures = 0
      /\ d.report.n = Len(d.verdicts)
  <2>1. d.report.failures = 0
    BY <1>3, <1>4
  <2>2. j.next - 1 = Trials("formal")
    BY <1>3
  <2>3. d.report.n = Trials("formal")
    BY <1>4, <2>2
  <2> QED
    BY <1>1, <1>2, <1>4, <2>1, <2>3
<1>10. d.report.pass = (Failures(d) = 0)
  <2>1. d.report.pass = (j.rc = 0 /\ ~j.failed)
    BY <1>4
  <2>2. (j.rc = 0 /\ ~j.failed) = TRUE
    BY <1>3
  <2>3. (Failures(d) = 0) = TRUE
    BY <1>1
  <2> QED
    BY <2>1, <2>2, <2>3
<1>11. /\ d.meta.config = d.config /\ d.meta.commit = tree.commit /\ d.meta.clean
       /\ Sources(tree) = [commit |-> d.meta.commit, clean |-> d.meta.clean]
  BY <1>2 DEF Sources
<1>12. d.exit.completed /\ d.exit.rc = 0 /\ d.verdict = "PASS"
  BY <1>4
<1>13. Balanced(d.config.seed, PerCut(d.config.mode))
  <2>1. d.config.seed = j.seed /\ PerCut(d.config.mode) = FormalPerCut
    BY <1>2 DEF PerCut
  <2> QED
    BY <2>1
<1>14. GatePasses(d)
  BY <1>1, <1>7, <1>8, <1>9, <1>10, <1>11, <1>12, <1>13 DEF GatePasses
<1> QED
  BY <1>1, <1>7, <1>8, <1>11, <1>12, <1>14 DEF ArtifactValid

-----------------------------------------------------------------------------
(* The levels of a dimension are spread evenly: those of a value are the trials
   t0, t0 + L, t0 + 2L, ... below P, so there are (P - 1 - t0) \div L + 1 of them. *)
LEMMA WholeDivision ==
    ASSUME NEW a \in Int, NEW p \in Nat \ {0}
    PROVE  a \div p \in Int /\ a % p \in 0 .. p - 1 /\ a = p * (a \div p) + (a % p)
  OBVIOUS

LEMMA Remainder ==
    ASSUME NEW p \in Nat \ {0}, NEW x \in Int, NEW b \in 0 .. p - 1
    PROVE  (p * x + b) % p = b /\ (p * x + b) \div p = x
  OBVIOUS

LEMMA QuotientBounds ==
    ASSUME NEW a \in Nat, NEW p \in Nat \ {0}, NEW i \in Nat
    PROVE  i <= a \div p <=> p * i <= a
<1>1. PICK x, y : x = a \div p /\ y = a % p
  OBVIOUS
<1>2. x \in Nat /\ y \in 0 .. p - 1 /\ a = p * x + y
  BY <1>1, Division
<1>3. ASSUME i <= x PROVE p * i <= a
  <2>1. PICK e \in Nat : x = i + e
    <3>1. x - i \in Nat /\ x = i + (x - i)
      BY <1>2, <1>3
    <3> QED
      BY <3>1
  <2>2. p * x = p * i + p * e /\ p * e \in Nat /\ p * i \in Nat
    BY <1>2, <2>1
  <2> QED
    BY <1>2, <2>2
<1>4. ASSUME i > x PROVE p * i > a
  <2>1. PICK e \in Nat : i = x + 1 + e
    <3>1. i - x - 1 \in Nat /\ i = x + 1 + (i - x - 1)
      BY <1>2, <1>4
    <3> QED
      BY <3>1
  <2>2. p * i = p * x + p + p * e /\ p * e \in Nat /\ p * x \in Nat
    BY <1>2, <2>1
  <2> QED
    BY <1>2, <2>2
<1>5. p * i \in Nat
  OBVIOUS
<1> QED
  BY <1>1, <1>2, <1>3, <1>4, <1>5

(* How many of the first P trials have the level k of L, from a start c. *)
Spread(c, L, P, k) == Cardinality({t \in 0 .. P - 1 : (c + t) % L = k})

LEMMA SpreadCount ==
    ASSUME NEW c \in Int, NEW L \in Nat \ {0}, NEW P \in Nat, L <= P, NEW k \in 0 .. L - 1
    PROVE  \E t0 \in 0 .. L - 1 :
              Spread(c, L, P, k) = ((P - 1 - t0) \div L) + 1
<1> DEFINE S == {t \in 0 .. P - 1 : (c + t) % L = k}
<1>1. PICK t0, z : t0 = (k - c) % L /\ z = (k - c) \div L
  OBVIOUS
<1>2. t0 \in 0 .. L - 1 /\ z \in Int /\ k - c = L * z + t0
  BY <1>1, WholeDivision
<1>3. PICK m : m = ((P - 1 - t0) \div L) + 1
  OBVIOUS
<1>4. P - 1 - t0 \in Nat /\ m \in Nat \ {0}
  <2>1. P - 1 - t0 \in Nat
    BY <1>2
  <2>2. (P - 1 - t0) \div L \in Nat
    BY <2>1, Division
  <2> QED
    BY <1>3, <2>1, <2>2
<1> DEFINE f == [i \in 1 .. m |-> t0 + L * (i - 1)]
<1>5. ASSUME NEW i \in 1 .. m PROVE f[i] \in S
  <2>1. i - 1 \in Nat /\ i - 1 <= (P - 1 - t0) \div L
    <3>1. m - 1 = (P - 1 - t0) \div L
      <4>1. (P - 1 - t0) \div L \in Nat
        BY <1>4, Division
      <4> QED
        BY <1>3, <4>1
    <3> QED
      BY <1>4, <3>1
  <2>2. PICK w : w = i - 1
    OBVIOUS
  <2>3. w \in Nat /\ L * w <= P - 1 - t0 /\ L * w \in Nat
    BY <1>4, <2>1, <2>2, QuotientBounds
  <2>4. PICK t : t = t0 + L * w
    OBVIOUS
  <2>5. t \in 0 .. P - 1
    BY <1>2, <2>3, <2>4
  <2>6. c + t = L * (w - z) + k
    <3>1. L * (w - z) = L * w - L * z /\ L * z \in Int
      BY <1>2, <2>3
    <3> QED
      BY <1>2, <2>3, <2>4, <3>1
  <2>7. (c + t) % L = k
    <3>1. w - z \in Int
      BY <1>2, <2>3
    <3> QED
      BY <2>6, <3>1, Remainder
  <2>8. f[i] = t
    BY <2>2, <2>4
  <2> HIDE DEF f
  <2> QED
    BY <2>5, <2>7, <2>8
<1>6. ASSUME NEW i \in 1 .. m, NEW j \in 1 .. m, f[i] = f[j] PROVE i = j
  <2>1. L * (i - 1) = L * (j - 1)
    <3>1. L * (i - 1) \in Int /\ L * (j - 1) \in Int /\ t0 \in Int
      BY <1>2, <1>4
    <3>2. t0 + L * (i - 1) = t0 + L * (j - 1)
      BY <1>6
    <3> QED
      BY <3>1, <3>2
  <2>2. L * (i - 1) = L * (i - 1) + 0 /\ L * (j - 1) = L * (j - 1) + 0 /\ 0 \in 0 .. L - 1
        /\ i - 1 \in Int /\ j - 1 \in Int
    BY <1>4
  <2>3. (L * (i - 1) + 0) \div L = i - 1 /\ (L * (j - 1) + 0) \div L = j - 1
    BY <2>2, Remainder
  <2>4. i - 1 = j - 1
    BY <2>1, <2>3
  <2> QED
    BY <1>4, <2>4
<1>7. ASSUME NEW t \in S PROVE \E i \in 1 .. m : f[i] = t
  <2>1. t \in 0 .. P - 1 /\ (c + t) % L = k
    OBVIOUS
  <2>2. PICK y : y = (c + t) \div L
    OBVIOUS
  <2>3. y \in Int /\ c + t = L * y + k
    <3>1. c + t \in Int
      BY <2>1
    <3> QED
      BY <2>1, <2>2, <3>1, WholeDivision
  <2>4. PICK w : w = y + z
    OBVIOUS
  <2>5. w \in Int /\ t = t0 + L * w
    <3>1. L * w = L * y + L * z /\ L * y \in Int /\ L * z \in Int /\ w \in Int
      BY <1>2, <2>3, <2>4
    <3> QED
      BY <1>2, <2>1, <2>3, <3>1
  <2>6. w \in Nat
    <3> SUFFICES ASSUME w < 0 PROVE FALSE
      BY <2>5
    <3>1. PICK e \in Nat : w = -1 - e
      <4>1. -1 - w \in Nat /\ w = -1 - (-1 - w)
        BY <2>5
      <4> QED
        BY <4>1
    <3>2. L * w = -L - L * e /\ L * e \in Nat
      BY <3>1
    <3> QED
      BY <1>2, <2>1, <2>5, <3>2
  <2>7. L * w <= P - 1 - t0
    <3>1. L * w \in Nat
      BY <2>6
    <3> QED
      BY <1>2, <2>1, <2>5, <3>1
  <2>8. w <= (P - 1 - t0) \div L
    BY <1>4, <2>6, <2>7, QuotientBounds
  <2>9. w + 1 \in 1 .. m
    <3>1. (P - 1 - t0) \div L \in Nat
      BY <1>4, Division
    <3> QED
      BY <1>3, <2>6, <2>8, <3>1
  <2>10. f[w + 1] = t0 + L * w
    <3>1. (w + 1) - 1 = w
      BY <2>6
    <3> QED
      BY <2>9, <3>1
  <2> HIDE DEF f
  <2> QED
    BY <2>5, <2>9, <2>10
<1>8. f \in Bijection(1 .. m, S)
  <2>1. f \in [1 .. m -> S]
    <3>1. DOMAIN f = 1 .. m /\ f = [i \in DOMAIN f |-> f[i]]
      OBVIOUS
    <3> HIDE DEF f, S
    <3> QED
      BY <1>5, <3>1
  <2> HIDE DEF f, S
  <2> QED
    BY <1>6, <1>7, <2>1 DEF Bijection, Injection, Surjection, IsInjective
<1>9. ExistsBijection(1 .. m, S)
  BY <1>8 DEF ExistsBijection
<1>10. Cardinality(S) = m
  <2> HIDE DEF S
  <2> QED
    BY <1>4, <1>9, FS_CountingElements
<1> QED
  BY <1>2, <1>3, <1>10 DEF Spread

LEMMA SpreadEvenly ==
    ASSUME NEW c \in Int, NEW L \in Nat \ {0}, NEW P \in Nat, L <= P,
           NEW k \in 0 .. L - 1, NEW l \in 0 .. L - 1
    PROVE  /\ Spread(c, L, P, k) > 0
           /\ Spread(c, L, P, k)
                 <= Spread(c, L, P, l) + 1
<1>1. PICK t0 \in 0 .. L - 1 :
         Spread(c, L, P, k) = ((P - 1 - t0) \div L) + 1
  BY SpreadCount
<1>2. PICK t1 \in 0 .. L - 1 :
         Spread(c, L, P, l) = ((P - 1 - t1) \div L) + 1
  BY SpreadCount
<1>3. PICK a, b : a = P - 1 - t0 /\ b = P - 1 - t1
  OBVIOUS
<1>4. a \in Nat /\ b \in Nat /\ a <= b + L - 1
  BY <1>3
<1>5. PICK x, y, u, v : x = a \div L /\ u = a % L /\ y = b \div L /\ v = b % L
  OBVIOUS
<1>6. /\ x \in Nat /\ u \in 0 .. L - 1 /\ a = L * x + u
      /\ y \in Nat /\ v \in 0 .. L - 1 /\ b = L * y + v
  BY <1>4, <1>5, Division
<1>7. x <= y + 1
  <2> SUFFICES ASSUME x > y + 1 PROVE FALSE
    BY <1>6
  <2>1. PICK e \in Nat : x = y + 2 + e
    <3>1. x - y - 2 \in Nat /\ x = y + 2 + (x - y - 2)
      BY <1>6
    <3> QED
      BY <3>1
  <2>2. L * x = L * y + 2 * L + L * e /\ L * e \in Nat /\ L * y \in Nat
    BY <1>6, <2>1
  <2> QED
    BY <1>4, <1>6, <2>2
<1> QED
  BY <1>1, <1>2, <1>3, <1>5, <1>6, <1>7

LEMMA SpreadOfLevels ==
    ASSUME NEW r \in Runner, NEW seed \in SeedOf[r] PROVE Balanced(seed, FormalPerCut)
<1> DEFINE n(d, v) == Cardinality({t \in 0 .. FormalPerCut - 1 : LevelOf(seed, d, t) = v})
<1>1. ASSUME NEW d \in DOMAIN Levels, NEW v \in Range(Levels[d]), NEW w \in Range(Levels[d])
      PROVE  n(d, v) > 0 /\ n(d, v) <= n(d, w) + 1
  <2>1. PICK L, P, c : L = Len(Levels[d]) /\ P = FormalPerCut /\ c = seed \div Stride[d]
    OBVIOUS
  <2>2. /\ L \in Nat \ {0} /\ P \in Nat /\ L <= P /\ DOMAIN Levels[d] = 1 .. L
        /\ \A i, j \in 1 .. L : Levels[d][i] = Levels[d][j] => i = j
    BY <2>1, CampaignAssumption DEF IsInjective
  <2>3. c \in Int
    <3>1. seed \in Int /\ Stride[d] \in Nat \ {0}
      BY CampaignAssumption
    <3> QED
      BY <2>1, <3>1, WholeDivision
  <2>4. ASSUME NEW x \in Range(Levels[d])
        PROVE  \E k \in 0 .. L - 1 : n(d, x) = Spread(c, L, P, k)
    <3>1. PICK i \in 1 .. L : Levels[d][i] = x
      BY <2>2 DEF Range
    <3>2. PICK k : k = i - 1
      OBVIOUS
    <3>3. k \in 0 .. L - 1 /\ i = k + 1
      BY <2>2, <3>2
    <3>4. ASSUME NEW t \in 0 .. P - 1 PROVE LevelOf(seed, d, t) = x <=> (c + t) % L = k
      <4>1. LevelOf(seed, d, t) = Levels[d][((c + t) % L) + 1]
        BY <2>1 DEF LevelOf
      <4>2. (c + t) % L \in 0 .. L - 1
        <5>1. c + t \in Int
          BY <2>2, <2>3
        <5> QED
          BY <2>2, <5>1, WholeDivision
      <4>3. PICK y : y = (c + t) % L
        OBVIOUS
      <4>4. y \in 0 .. L - 1 /\ y + 1 \in 1 .. L
        BY <2>2, <4>2, <4>3
      <4>5. Levels[d][y + 1] = x <=> y = k
        BY <2>2, <3>1, <3>3, <4>4
      <4> QED
        BY <4>1, <4>3, <4>5
    <3>5. {t \in 0 .. P - 1 : LevelOf(seed, d, t) = x} = {t \in 0 .. P - 1 : (c + t) % L = k}
      BY <3>4
    <3> QED
      BY <2>1, <3>3, <3>5 DEF Spread
  <2>5. PICK k \in 0 .. L - 1 : n(d, v) = Spread(c, L, P, k)
    BY <1>1, <2>4
  <2>6. PICK l \in 0 .. L - 1 : n(d, w) = Spread(c, L, P, l)
    BY <1>1, <2>4
  <2>7. /\ Spread(c, L, P, k) > 0
        /\ Spread(c, L, P, k)
              <= Spread(c, L, P, l) + 1
    BY <2>2, <2>3, SpreadEvenly
  <2> HIDE DEF n
  <2> QED
    BY <2>5, <2>6, <2>7
<1> QED
  BY <1>1 DEF Balanced

(* A formal campaign that ended with 0, alone and on a checkout that did not change, passes
   the gate and the validation of its artifacts, whatever its seed.                      *)
THEOREM CompletePasses == TraceSpec => []CompleteRunPasses
<1>1. ASSUME TraceInv, AloneInv PROVE CompleteRunPasses
  <2> SUFFICES ASSUME NEW r \in Runner, pc[r] = "done", job[r].mode = "formal", job[r].rc = 0,
                      Len(dirs) = 1, tree.edits = 0
               PROVE  GatePasses(dirs[path]) /\ ArtifactValid(dirs[path])
    BY DEF CompleteRunPasses
  <2>1. path = 1
    BY <1>1 DEF TraceInv, Shapes
  <2>2. PICK s \in Runner : /\ \A q \in Runner \ {s} : pc[q] = "idle"
                            /\ job[s].seed \in SeedOf[s]
                            /\ pc[s] # "dead" => Lone(tree, dirs[1], job[s], pc[s])
    BY <1>1 DEF AloneInv
  <2>3. s = r
    BY <2>2
  <2>4. Lone(tree, dirs[1], job[r], "done") /\ job[r].seed \in SeedOf[r]
    BY <2>2, <2>3
  <2>5. tree.clean = TRUE
    BY <1>1 DEF AloneInv
  <2>6. Balanced(job[r].seed, FormalPerCut)
    BY <2>4, SpreadOfLevels
  <2>7. PICK d, j : d = dirs[1] /\ j = job[r]
    OBVIOUS
  <2>8. GatePasses(d) /\ ArtifactValid(d)
    BY <2>4, <2>5, <2>6, <2>7, LonePasses
  <2> QED
    BY <2>1, <2>7, <2>8
<1> QED
  BY <1>1, TraceInvariant, AloneInvariant, PTL
-----------------------------------------------------------------------------
(* The oracle of a trial.  What it may rely on: the entries are numbered, and what an
   entry holds can be compared.                                                        *)
Legible(events) ==
    /\ IsFiniteSet(DOMAIN events) /\ DOMAIN events \subseteq Int
    /\ \A i \in DOMAIN events : events[i].step \in Int /\ IsFiniteSet(events[i].vers)

(* An authority that names each of its steps, with its token and checkpoint, and each of
   its rewards, once. *)
Distinct(auth) ==
    /\ \A s \in auth.steps : /\ s = [step |-> s.step, tok |-> s.tok, hash |-> s.hash]
                             /\ s.step \in Nat /\ s.tok # None /\ s.hash # None
    /\ \A s, t \in auth.steps : s.step = t.step \/ s.tok = t.tok => s = t
    /\ \A r \in auth.rewards : r = [lid |-> r.lid, reward |-> r.reward] /\ r.lid # NoLid
    /\ \A r, q \in auth.rewards : r.lid = q.lid => r = q

LEMMA NoneFound ==
    ASSUME NEW kind, NEW is
    PROVE  Found(kind, is) = {} <=> is = {}
  BY DEF Found

LEMMA FiniteCount ==
    ASSUME NEW S, IsFiniteSet(S)
    PROVE  /\ Cardinality(S) = 0 <=> S = {}
           /\ Cardinality(S) > 1 <=> \E x, y \in S : x # y
<1>1. Cardinality(S) \in Nat /\ (Cardinality(S) = 0 <=> S = {})
  BY FS_CardinalityType, FS_EmptySet
<1>2. CASE \E x, y \in S : x # y
  <2>1. PICK x, y \in S : x # y
    BY <1>2
  <2>2. {x, y} \subseteq S /\ IsFiniteSet({x}) /\ Cardinality({x}) = 1
    BY <2>1, FS_Singleton
  <2>3. {x} \subseteq S /\ {x} # S
    BY <2>1
  <2>4. Cardinality({x}) < Cardinality(S)
    BY <2>2, <2>3, FS_Subset, <1>1
  <2> QED
    BY <1>1, <1>2, <2>2, <2>4
<1>3. CASE \A x, y \in S : x = y
  <2>1. CASE S = {}
    BY <1>1, <2>1
  <2>2. CASE S # {}
    <3>1. PICK x : S = {x}
      BY <1>3, <2>2
    <3>2. Cardinality(S) = 1
      BY <3>1, FS_Singleton
    <3>3. ~(Cardinality(S) > 1) /\ Cardinality(S) # 0
      BY <3>2
    <3> QED
      BY <1>1, <1>3, <3>3
  <2> QED
    BY <2>1, <2>2
<1> QED
  BY <1>1, <1>2, <1>3

LEMMA AuthorityFindsNone ==
    ASSUME NEW auth, Distinct(auth)
    PROVE  AuthorityViolations(auth) = {}
<1>1. {s \in auth.steps : \E t \in auth.steps \ {s} : s.step = t.step} = {}
  BY DEF Distinct
<1>2. {s \in auth.steps : \E t \in auth.steps \ {s} : s.tok = t.tok} = {}
  BY DEF Distinct
<1>3. {r \in auth.rewards : \E q \in auth.rewards \ {r} : r.lid = q.lid} = {}
  BY DEF Distinct
<1> QED
  BY <1>1, <1>2, <1>3, NoneFound DEF AuthorityViolations

(* a *)
LEMMA RevisionsExact ==
    ASSUME NEW events, Legible(events)
    PROVE  RevisionViolations(events) = {} <=>
           \A i \in At(events, "group") : events[i].status \in {"COMMITTED", "SEALED"} =>
               \E v \in events[i].vers : v # None /\ events[i].vers = {v}
<1> DEFINE sealed == {i \in At(events, "group") : events[i].status \in {"COMMITTED", "SEALED"}}
<1>1. RevisionViolations(events) = {} <=>
        /\ {i \in sealed : events[i].vers = {}} = {}
        /\ {i \in sealed : None \in events[i].vers} = {}
        /\ {i \in sealed : None \notin events[i].vers /\ Cardinality(events[i].vers) > 1} = {}
  BY DEF RevisionViolations, Found
<1>2. ASSUME NEW i \in sealed
      PROVE  (\E v \in events[i].vers : v # None /\ events[i].vers = {v}) <=>
               /\ events[i].vers # {} /\ None \notin events[i].vers
               /\ ~(Cardinality(events[i].vers) > 1)
  <2>1. IsFiniteSet(events[i].vers)
    BY DEF Legible, At
  <2>2. PICK V : V = events[i].vers
    OBVIOUS
  <2>3. Cardinality(V) > 1 <=> \E x, y \in V : x # y
    BY <2>1, <2>2, FiniteCount
  <2> QED
    BY <2>2, <2>3
<1>3. (\A i \in At(events, "group") : events[i].status \in {"COMMITTED", "SEALED"} =>
               \E v \in events[i].vers : v # None /\ events[i].vers = {v})
      <=> \A i \in sealed : \E v \in events[i].vers : v # None /\ events[i].vers = {v}
  OBVIOUS
<1> HIDE DEF sealed
<1> QED
  BY <1>1, <1>2, <1>3

(* b, c: nothing is found in the checkpoints exactly when they all are as the authority
   has them and none comes back. *)
CheckpointsFit(events, steps) ==
    LET C == Commits(events)
    IN  /\ \A i \in C : /\ events[i].tok # None /\ events[i].step >= 0 /\ events[i].hash # None
                        /\ steps # {} => /\ \E s \in steps : s.step = events[i].step
                                         /\ \E s \in steps : s.tok = events[i].tok
                        /\ \A s \in steps : s.step = events[i].step =>
                              s.tok = events[i].tok /\ s.hash = events[i].hash
        /\ \A i, j \in C : j < i => events[j].tok # events[i].tok /\ events[j].step # events[i].step

LEMMA CheckpointsExact ==
    ASSUME NEW events, NEW auth, Legible(events), Distinct(auth)
    PROVE  CheckpointViolations(events, auth.steps) = {} <=> CheckpointsFit(events, auth.steps)
<1>1. PICK steps : steps = auth.steps
  OBVIOUS
<1> DEFINE C == Commits(events)
           tokens == {s.tok : s \in steps} \ {None}
           want(i) == {s \in steps : s.step = events[i].step}
           s1 == {i \in C : events[i].tok = None}
           s2 == {i \in {k \in C : \E j \in C : j < k /\ events[j].tok = events[k].tok} : events[i].tok # None}
           s3 == {i \in C : events[i].step < 0}
           s4 == {i \in {k \in C : \E j \in C : j < k /\ events[j].step = events[k].step} : events[i].step >= 0}
           s5 == {i \in C : events[i].hash = None}
           s6 == {i \in C : steps # {} /\ want(i) = {}}
           s7 == {i \in C : \E s \in want(i) : s.tok \notin {None, events[i].tok}}
           s8 == {i \in C : \E s \in want(i) : s.hash \notin {None, events[i].hash}}
           s9 == {i \in C : tokens # {} /\ events[i].tok \notin tokens}
           Sets == /\ s1 = {} /\ s2 = {} /\ s3 = {} /\ s4 = {} /\ s5 = {}
                   /\ s6 = {} /\ s7 = {} /\ s8 = {} /\ s9 = {}
<1>2. CheckpointViolations(events, steps) = {} <=> Sets
  <2>1. CheckpointViolations(events, steps) =
          Found("b_missing_step_token", s1) \union Found("b_duplicate_step_token", s2)
          \union Found("b_missing_step", s3) \union Found("b_duplicate_step", s4)
          \union Found("c_missing_checkpoint_hash", s5) \union Found("b_unknown_step", s6)
          \union Found("b_step_token_mismatch", s7) \union Found("c_token_hash_mismatch", s8)
          \union Found("b_unknown_step_token", s9)
    BY DEF CheckpointViolations
  <2> HIDE DEF s1, s2, s3, s4, s5, s6, s7, s8, s9
  <2> QED
    BY <2>1, NoneFound
<1>3. \A i \in C : events[i].step \in Int
  BY DEF Commits, OpAt, At, Legible
<1>4. /\ \A s \in steps : s.step \in Nat /\ s.tok # None /\ s.hash # None
      /\ \A s, t \in steps : s.step = t.step \/ s.tok = t.tok => s = t
  BY <1>1 DEF Distinct
<1>5. tokens = {s.tok : s \in steps}
  BY <1>4
<1>6. ASSUME Sets PROVE CheckpointsFit(events, steps)
  <2> DEFINE K == C
  <2>1. ASSUME NEW i \in K
        PROVE  /\ events[i].tok # None /\ events[i].hash # None /\ events[i].step >= 0
               /\ ~(steps # {} /\ want(i) = {}) /\ ~(tokens # {} /\ events[i].tok \notin tokens)
               /\ \A s \in want(i) : s.tok \in {None, events[i].tok} /\ s.hash \in {None, events[i].hash}
    <3>1. ~(events[i].step < 0)
      BY <1>6
    <3>2. events[i].step \in Int
      BY <1>3
    <3> QED
      BY <1>6, <3>1, <3>2
  <2>2. ASSUME NEW i \in K, NEW j \in K, j < i
        PROVE  events[j].tok # events[i].tok /\ events[j].step # events[i].step
    BY <1>6, <2>1, <2>2
  <2>3. ASSUME NEW i \in K PROVE steps # {} => \E s \in steps : s.tok = events[i].tok
    BY <1>5, <2>1
  <2>4. ASSUME NEW i \in K PROVE steps # {} => \E s \in steps : s.step = events[i].step
    BY <2>1
  <2>5. ASSUME NEW i \in K, NEW s \in steps, s.step = events[i].step
        PROVE  s.tok = events[i].tok /\ s.hash = events[i].hash
    BY <1>4, <2>1, <2>5
  <2> HIDE DEF K
  <2>6. K = Commits(events)
    BY DEF K
  <2> QED
    BY <2>1, <2>2, <2>3, <2>4, <2>5, <2>6 DEF CheckpointsFit
<1>7. ASSUME CheckpointsFit(events, steps) PROVE Sets
  <2>1. \A i \in C : /\ events[i].tok # None /\ events[i].hash # None /\ events[i].step >= 0
                     /\ steps # {} => \E s \in steps : s.step = events[i].step
                     /\ steps # {} => \E s \in steps : s.tok = events[i].tok
                     /\ \A s \in steps : s.step = events[i].step => s.tok = events[i].tok /\ s.hash = events[i].hash
    BY <1>7 DEF CheckpointsFit
  <2>2. \A i, j \in C : j < i => events[j].tok # events[i].tok /\ events[j].step # events[i].step
    BY <1>7 DEF CheckpointsFit
  <2>3. {i \in C : events[i].step < 0} = {}
    <3>1. ASSUME NEW i \in C PROVE ~(events[i].step < 0)
      BY <1>3, <2>1
    <3> QED
      BY <3>1
  <2>4. {i \in C : tokens # {} /\ events[i].tok \notin tokens} = {}
    BY <1>5, <2>1
  <2>5. {i \in C : steps # {} /\ want(i) = {}} = {}
    BY <2>1
  <2>6. \A i \in C : \A s \in want(i) : s.tok = events[i].tok /\ s.hash = events[i].hash
    BY <2>1
  <2>7. /\ {i \in C : \E s \in want(i) : s.tok \notin {None, events[i].tok}} = {}
        /\ {i \in C : \E s \in want(i) : s.hash \notin {None, events[i].hash}} = {}
    BY <2>6
  <2>8. /\ {i \in {k \in C : \E j \in C : j < k /\ events[j].tok = events[k].tok} : events[i].tok # None} = {}
        /\ {i \in {k \in C : \E j \in C : j < k /\ events[j].step = events[k].step} : events[i].step >= 0} = {}
    BY <2>2
  <2>9. {i \in C : events[i].tok = None} = {} /\ {i \in C : events[i].hash = None} = {}
    BY <2>1
  <2> QED
    BY <2>3, <2>4, <2>5, <2>7, <2>8, <2>9
<1> QED
  BY <1>1, <1>2, <1>6, <1>7

(* b: the same of the updates that were applied, and of the steps themselves. *)
AppliesFit(events, steps) ==
    LET L == OpAt(events, "learner", "apply")
    IN  /\ \A i \in L : /\ events[i].tok # None
                        /\ steps # {} => \E s \in steps : s.tok = events[i].tok
                        /\ \A s \in steps : s.tok = events[i].tok => s.step = events[i].step
                        /\ \E j \in Commits(events) : events[j].tok = events[i].tok
                        /\ \A j \in L : events[j].tok = events[i].tok => j = i
        /\ \A s \in steps : /\ \E i \in Commits(events) : events[i].step = s.step
                            /\ \E i \in Commits(events) : events[i].tok = s.tok

LEMMA AppliesExact ==
    ASSUME NEW events, NEW auth, Legible(events), Distinct(auth)
    PROVE  ApplyViolations(events, auth.steps) = {} <=> AppliesFit(events, auth.steps)
<1>1. PICK steps : steps = auth.steps
  OBVIOUS
<1> DEFINE L == OpAt(events, "learner", "apply")
           A == Applies(events)
           C == Commits(events)
           tokens == {s.tok : s \in steps} \ {None}
           claimed == {events[i].tok : i \in C} \ {None}
           s1 == L \ A
           s2 == {i \in A : tokens # {} /\ events[i].tok \notin tokens}
           s3 == {i \in A : \E s \in steps : s.tok = events[i].tok /\ s.step # events[i].step}
           s4 == {i \in A : \E j \in A : j # i /\ events[j].tok = events[i].tok}
           s5 == {i \in A : events[i].tok \notin claimed}
           s6 == {s.step : s \in steps} \ {events[i].step : i \in C}
           s7 == {s.step : s \in {t \in steps : t.tok \notin claimed \union {None}}}
           Sets == s1 = {} /\ s2 = {} /\ s3 = {} /\ s4 = {} /\ s5 = {} /\ s6 = {} /\ s7 = {}
<1>2. ApplyViolations(events, steps) = {} <=> Sets
  <2>1. ApplyViolations(events, steps) =
          Found("b_apply_missing_step_token", s1) \union Found("b_apply_unknown_step_token", s2)
          \union Found("b_apply_step_mismatch", s3) \union Found("b_duplicate_apply", s4)
          \union Found("b_apply_without_commit", s5) \union Found("b_missing_step", s6)
          \union Found("b_missing_step_token", s7)
    BY DEF ApplyViolations
  <2> HIDE DEF s1, s2, s3, s4, s5, s6, s7
  <2> QED
    BY <2>1, NoneFound
<1>3. /\ \A s \in steps : s.step \in Nat /\ s.tok # None /\ s.hash # None
      /\ \A s, t \in steps : s.step = t.step \/ s.tok = t.tok => s = t
  BY <1>1 DEF Distinct
<1>4. tokens = {s.tok : s \in steps}
  BY <1>3
<1>5. \A i : i \in A <=> i \in L /\ events[i].tok # None
  BY DEF Applies
<1>6. {s.step : s \in steps} \ {events[i].step : i \in C} = {}
      <=> \A s \in steps : \E i \in C : events[i].step = s.step
  OBVIOUS
<1>7. {s.step : s \in {t \in steps : t.tok \notin claimed \union {None}}} = {}
      <=> \A s \in steps : s.tok \in claimed
  <2>1. \A T : {s.step : s \in T} = {} <=> T = {}
    OBVIOUS
  <2>2. {t \in steps : t.tok \notin claimed \union {None}} = {} <=> \A s \in steps : s.tok \in claimed
    BY <1>3
  <2> QED
    BY <2>1, <2>2
<1>8. \A s \in steps : s.tok \in claimed <=> \E i \in C : events[i].tok = s.tok
  BY <1>3
<1>9. \A i \in A : events[i].tok \in claimed <=> \E j \in C : events[j].tok = events[i].tok
  BY <1>5
<1>10. (\A i \in A : ~(tokens # {} /\ events[i].tok \notin tokens))
       <=> \A i \in A : steps # {} => \E s \in steps : s.tok = events[i].tok
  BY <1>4
<1>11. L \ A = {} <=> \A i \in L : events[i].tok # None
  BY <1>5
<1> HIDE DEF tokens, claimed, L, A, C
<1>12. Sets <=>
         /\ \A i \in L : events[i].tok # None
         /\ \A i \in A : steps # {} => \E s \in steps : s.tok = events[i].tok
         /\ \A i \in A : \A s \in steps : s.tok = events[i].tok => s.step = events[i].step
         /\ \A i, j \in A : events[j].tok = events[i].tok => j = i
         /\ \A i \in A : \E j \in C : events[j].tok = events[i].tok
         /\ \A s \in steps : \E i \in C : events[i].step = s.step
         /\ \A s \in steps : \E i \in C : events[i].tok = s.tok
  BY <1>6, <1>7, <1>8, <1>9, <1>10, <1>11
<1> HIDE DEF Sets
<1>13. AppliesFit(events, steps) <=>
         /\ \A i \in L : events[i].tok # None
         /\ \A i \in L : steps # {} => \E s \in steps : s.tok = events[i].tok
         /\ \A i \in L : \A s \in steps : s.tok = events[i].tok => s.step = events[i].step
         /\ \A i, j \in L : events[j].tok = events[i].tok => j = i
         /\ \A i \in L : \E j \in C : events[j].tok = events[i].tok
         /\ \A s \in steps : \E i \in C : events[i].step = s.step
         /\ \A s \in steps : \E i \in C : events[i].tok = s.tok
  BY Zenon DEF AppliesFit, L, C
<1>14. Sets <=> AppliesFit(events, steps)
  BY <1>5, <1>12, <1>13
<1> QED
  BY <1>1, <1>2, <1>14

(* d *)
LEMMA RewardsExact ==
    ASSUME NEW events, NEW auth, Legible(events), Distinct(auth), auth.rewards # {}
    PROVE  RewardViolations(events, auth.rewards) = {} <=>
           OnceEach(RewardCommits(events),
                    LAMBDA i : [lid |-> events[i].lid, reward |-> events[i].reward], auth.rewards)
<1>1. PICK rewards : rewards = auth.rewards
  OBVIOUS
<1> DEFINE R == RewardCommits(events)
           known == {r.lid : r \in rewards}
           of(lid) == {i \in R : events[i].lid = lid}
           key(i) == [lid |-> events[i].lid, reward |-> events[i].reward]
           s1 == {i \in R : events[i].lid = NoLid}
           s2 == {i \in R : events[i].lid \notin known \union {NoLid}}
           s3 == {i \in R : \E r \in rewards : r.lid = events[i].lid /\ r.reward # events[i].reward}
           s4 == {l \in known : Cardinality(of(l)) = 0}
           s5 == {l \in known : Cardinality(of(l)) > 1}
           Sets == s1 = {} /\ s2 = {} /\ s3 = {} /\ s4 = {} /\ s5 = {}
<1>2. RewardViolations(events, rewards) = {} <=> Sets
  <2>1. RewardViolations(events, rewards) =
          Found("d_missing_reward_identity", s1) \union Found("d_unknown_reward_committed", s2)
          \union Found("d_wrong_reward_committed", s3) \union Found("d_missing_authoritative_reward", s4)
          \union Found("d_duplicate_reward_commit", s5)
    BY <1>1 DEF RewardViolations
  <2> HIDE DEF s1, s2, s3, s4, s5
  <2> QED
    BY <2>1, NoneFound
<1>3. /\ \A r \in rewards : r = [lid |-> r.lid, reward |-> r.reward] /\ r.lid # NoLid
      /\ \A r, q \in rewards : r.lid = q.lid => r = q
  BY <1>1 DEF Distinct
<1>4. ASSUME NEW l
      PROVE  /\ Cardinality(of(l)) = 0 <=> of(l) = {}
             /\ Cardinality(of(l)) > 1 <=> \E i, j \in of(l) : i # j
  <2>1. of(l) \subseteq DOMAIN events /\ IsFiniteSet(DOMAIN events)
    BY DEF RewardCommits, At, Legible
  <2>2. PICK S : S = of(l)
    OBVIOUS
  <2>3. IsFiniteSet(S)
    BY <2>1, <2>2, FS_Subset
  <2>4. (Cardinality(S) = 0 <=> S = {}) /\ (Cardinality(S) > 1 <=> \E i, j \in S : i # j)
    BY <2>3, FiniteCount
  <2> QED
    BY <2>2, <2>4
<1>5. Sets <=>
        /\ \A i \in R : events[i].lid # NoLid /\ events[i].lid \in known
        /\ \A i \in R, r \in rewards : r.lid = events[i].lid => r.reward = events[i].reward
        /\ \A l \in known : \E i \in R : events[i].lid = l
        /\ \A l \in known : \A i, j \in R : events[i].lid = l /\ events[j].lid = l => i = j
  <2>1. {l \in known : Cardinality(of(l)) = 0} = {} <=> \A l \in known : \E i \in R : events[i].lid = l
    <3>1. \A l \in known : Cardinality(of(l)) = 0 <=> of(l) = {}
      BY <1>4
    <3>2. \A l \in known : of(l) = {} <=> ~\E i \in R : events[i].lid = l
      OBVIOUS
    <3> QED
      BY <3>1, <3>2
  <2>2. {l \in known : Cardinality(of(l)) > 1} = {}
        <=> \A l \in known : \A i, j \in R : events[i].lid = l /\ events[j].lid = l => i = j
    <3>1. \A l \in known : Cardinality(of(l)) > 1 <=> \E i, j \in of(l) : i # j
      BY <1>4
    <3>2. \A l \in known : (\E i, j \in of(l) : i # j) <=> ~\A i, j \in R : events[i].lid = l /\ events[j].lid = l => i = j
      OBVIOUS
    <3> HIDE DEF of, known, R
    <3>3. {l \in known : Cardinality(of(l)) > 1} = {} <=> \A l \in known : ~(Cardinality(of(l)) > 1)
      OBVIOUS
    <3> QED
      BY <3>1, <3>2, <3>3
  <2> HIDE DEF known, R, of
  <2> QED
    BY <2>1, <2>2
<1>6. OnceEach(R, key, rewards) <=> /\ {key(i) : i \in R} = rewards
                                    /\ \A i, j \in R : key(i) = key(j) => i = j
  BY DEF OnceEach
<1>7. \A l : l \in known <=> \E r \in rewards : r.lid = l
  OBVIOUS
<1> HIDE DEF known, R, Sets
<1>8. ASSUME Sets PROVE OnceEach(R, key, rewards)
  <2>1. ASSUME NEW i \in R PROVE key(i) \in rewards
    <3>1. PICK r \in rewards : r.lid = events[i].lid
      BY <1>5, <1>7, <1>8
    <3>2. r.reward = events[i].reward
      BY <1>5, <1>8, <3>1
    <3>3. r = key(i)
      BY <1>3, <3>1, <3>2
    <3> QED
      BY <3>3
  <2>2. ASSUME NEW r \in rewards PROVE \E i \in R : key(i) = r
    <3>1. PICK i \in R : events[i].lid = r.lid
      BY <1>5, <1>7, <1>8
    <3>2. r.reward = events[i].reward
      BY <1>5, <1>8, <3>1
    <3>3. r = key(i)
      BY <1>3, <3>1, <3>2
    <3> QED
      BY <3>3
  <2>3. ASSUME NEW i \in R, NEW j \in R, key(i) = key(j) PROVE i = j
    <3>1. events[i].lid = events[j].lid
      BY <2>3
    <3> QED
      BY <1>5, <1>8, <3>1
  <2>4. {key(i) : i \in R} = rewards
    BY <2>1, <2>2
  <2> HIDE DEF key
  <2> QED
    BY <1>6, <2>3, <2>4
<1>9. ASSUME OnceEach(R, key, rewards) PROVE Sets
  <2>0. {key(i) : i \in R} = rewards /\ \A i, j \in R : key(i) = key(j) => i = j
    BY <1>6, <1>9
  <2>1. \A i \in R : key(i) \in rewards /\ key(i).lid = events[i].lid /\ key(i).reward = events[i].reward
    BY <2>0
  <2>2. \A r \in rewards : \E i \in R : key(i) = r
    BY <2>0
  <2> HIDE DEF key
  <2>3. \A i \in R : events[i].lid # NoLid /\ events[i].lid \in known
    BY <1>3, <1>7, <2>1
  <2>4. \A i \in R, r \in rewards : r.lid = events[i].lid => r.reward = events[i].reward
    <3>1. ASSUME NEW i \in R, NEW r \in rewards, r.lid = events[i].lid PROVE r.reward = events[i].reward
      <4>1. key(i) = r
        BY <1>3, <2>1, <3>1
      <4> QED
        BY <2>1, <4>1
    <3> QED
      BY <3>1
  <2>5. \A l \in known : \E i \in R : events[i].lid = l
    BY <1>7, <2>1, <2>2
  <2>6. \A l \in known : \A i, j \in R : events[i].lid = l /\ events[j].lid = l => i = j
    BY <1>3, <2>0, <2>1
  <2> QED
    BY <1>5, <2>3, <2>4, <2>5, <2>6
<1> QED
  BY <1>1, <1>2, <1>8, <1>9 DEF R

(* Together: the checkpoints are the steps of the authority, once each, and an update is
   applied once, at a step it has. *)
LEMMA StepsExact ==
    ASSUME NEW events, NEW auth, Legible(events), Distinct(auth),
           auth.steps = {} => Commits(events) = {}
    PROVE  (CheckpointsFit(events, auth.steps) /\ AppliesFit(events, auth.steps)) <=>
           /\ OnceEach(Commits(events),
                       LAMBDA i : [step |-> events[i].step, tok |-> events[i].tok,
                                   hash |-> events[i].hash], auth.steps)
           /\ \A i \in OpAt(events, "learner", "apply") :
                 /\ \E s \in auth.steps : s.tok = events[i].tok /\ s.step = events[i].step
                 /\ \A j \in OpAt(events, "learner", "apply") : events[j].tok = events[i].tok => j = i
<1>1. PICK steps : steps = auth.steps
  OBVIOUS
<1> DEFINE C == Commits(events)
           L == OpAt(events, "learner", "apply")
           key(i) == [step |-> events[i].step, tok |-> events[i].tok, hash |-> events[i].hash]
           Applied == \A i \in L : /\ \E s \in steps : s.tok = events[i].tok /\ s.step = events[i].step
                                   /\ \A j \in L : events[j].tok = events[i].tok => j = i
<1>2. /\ \A s \in steps : /\ s = [step |-> s.step, tok |-> s.tok, hash |-> s.hash]
                          /\ s.step \in Nat /\ s.tok # None /\ s.hash # None
      /\ \A s, t \in steps : s.step = t.step \/ s.tok = t.tok => s = t
      /\ steps = {} => C = {}
  BY <1>1 DEF Distinct
<1>3. C \subseteq Int /\ \A i \in C : events[i].step \in Int
  BY DEF Commits, OpAt, At, Legible
<1>4. /\ \A i : key(i).step = events[i].step /\ key(i).tok = events[i].tok /\ key(i).hash = events[i].hash
      /\ \A s \in steps, i \in C : s.step = events[i].step /\ s.tok = events[i].tok /\ s.hash = events[i].hash
            => s = key(i)
  BY <1>2
<1>5. OnceEach(C, key, steps) <=> {key(i) : i \in C} = steps /\ \A i, j \in C : key(i) = key(j) => i = j
  BY DEF OnceEach
<1>6. CheckpointsFit(events, steps) <=>
        /\ \A i \in C : /\ events[i].tok # None /\ events[i].step >= 0 /\ events[i].hash # None
                        /\ steps # {} => /\ \E s \in steps : s.step = events[i].step
                                         /\ \E s \in steps : s.tok = events[i].tok
                        /\ \A s \in steps : s.step = events[i].step =>
                              s.tok = events[i].tok /\ s.hash = events[i].hash
        /\ \A i, j \in C : j < i => events[j].tok # events[i].tok /\ events[j].step # events[i].step
  BY DEF CheckpointsFit
<1>7. AppliesFit(events, steps) <=>
        /\ \A i \in L : /\ events[i].tok # None
                        /\ steps # {} => \E s \in steps : s.tok = events[i].tok
                        /\ \A s \in steps : s.tok = events[i].tok => s.step = events[i].step
                        /\ \E j \in C : events[j].tok = events[i].tok
                        /\ \A j \in L : events[j].tok = events[i].tok => j = i
        /\ \A s \in steps : /\ \E i \in C : events[i].step = s.step
                            /\ \E i \in C : events[i].tok = s.tok
  BY DEF AppliesFit
<1> HIDE DEF C, L, key
<1>8. ASSUME CheckpointsFit(events, steps), AppliesFit(events, steps)
      PROVE  OnceEach(C, key, steps) /\ Applied
  <2>1. ASSUME NEW i \in C PROVE key(i) \in steps
    <3>1. PICK s \in steps : s.step = events[i].step
      BY <1>2, <1>6, <1>8
    <3>2. s.tok = events[i].tok /\ s.hash = events[i].hash
      BY <1>6, <1>8, <3>1
    <3> QED
      BY <1>4, <3>1, <3>2
  <2>2. ASSUME NEW s \in steps PROVE \E i \in C : key(i) = s
    <3>1. PICK i \in C : events[i].step = s.step
      BY <1>7, <1>8
    <3> QED
      BY <1>4, <1>6, <1>8, <3>1
  <2>3. ASSUME NEW i \in C, NEW j \in C, key(i) = key(j) PROVE i = j
    <3>1. events[i].tok = events[j].tok
      BY <1>4, <2>3
    <3>2. ~(i < j) /\ ~(j < i)
      BY <1>6, <1>8, <3>1
    <3> QED
      BY <1>3, <3>2
  <2>4. {key(i) : i \in C} = steps
    BY <2>1, <2>2
  <2>5. OnceEach(C, key, steps)
    BY <1>5, <2>3, <2>4
  <2>6. ASSUME NEW i \in L PROVE \E s \in steps : s.tok = events[i].tok /\ s.step = events[i].step
    <3>1. PICK j \in C : events[j].tok = events[i].tok
      BY <1>7, <1>8
    <3>2. key(j) \in steps /\ key(j).tok = events[i].tok
      BY <1>4, <2>1, <3>1
    <3> QED
      BY <1>7, <1>8, <3>2
  <2> QED
    BY <1>7, <1>8, <2>5, <2>6
<1>9. ASSUME OnceEach(C, key, steps), Applied
      PROVE  CheckpointsFit(events, steps) /\ AppliesFit(events, steps)
  <2>1. \A i \in C : key(i) \in steps
    BY <1>5, <1>9
  <2>2. \A s \in steps : \E i \in C : key(i) = s
    BY <1>5, <1>9
  <2>3. \A i, j \in C : key(i) = key(j) => i = j
    BY <1>5, <1>9
  <2>4. ASSUME NEW i \in C
        PROVE  /\ events[i].tok # None /\ events[i].step >= 0 /\ events[i].hash # None
               /\ \E s \in steps : s.step = events[i].step
               /\ \E s \in steps : s.tok = events[i].tok
               /\ \A s \in steps : s.step = events[i].step =>
                     s.tok = events[i].tok /\ s.hash = events[i].hash
    <3>1. PICK s \in steps : s = key(i)
      BY <2>1
    <3>2. s.step = events[i].step /\ s.tok = events[i].tok /\ s.hash = events[i].hash
      BY <1>4, <3>1
    <3>3. s.step >= 0 /\ s.tok # None /\ s.hash # None
      BY <1>2
    <3>4. \A t \in steps : t.step = events[i].step => t = s
      BY <1>2, <3>2
    <3> QED
      BY <3>2, <3>3, <3>4
  <2>5. ASSUME NEW i \in C, NEW j \in C, j < i
        PROVE  events[j].tok # events[i].tok /\ events[j].step # events[i].step
    <3>1. i # j
      BY <1>3, <2>5
    <3>2. key(i) # key(j)
      BY <2>3, <3>1
    <3> QED
      BY <1>2, <1>4, <2>1, <3>2
  <2>6. CheckpointsFit(events, steps)
    BY <1>6, <2>4, <2>5
  <2>7. ASSUME NEW i \in L
        PROVE  /\ events[i].tok # None
               /\ \E s \in steps : s.tok = events[i].tok
               /\ \A s \in steps : s.tok = events[i].tok => s.step = events[i].step
               /\ \E j \in C : events[j].tok = events[i].tok
    <3>1. PICK s \in steps : s.tok = events[i].tok /\ s.step = events[i].step
      BY <1>9
    <3>2. PICK j \in C : key(j) = s
      BY <2>2
    <3>3. \A t \in steps : t.tok = events[i].tok => t = s
      BY <1>2, <3>1
    <3> QED
      BY <1>2, <1>4, <3>1, <3>2, <3>3
  <2>8. ASSUME NEW s \in steps
        PROVE  (\E i \in C : events[i].step = s.step) /\ \E i \in C : events[i].tok = s.tok
    BY <1>4, <2>2
  <2> QED
    BY <1>7, <1>9, <2>6, <2>7, <2>8
<1> QED
  BY <1>1, <1>8, <1>9 DEF C, L, key

(* The oracle of a trial (classify_event_log) is exact: of any entries and any authority
   that names its steps and rewards once, it finds a violation exactly when what was
   committed and applied is not what the authority knows, once.  An authority without
   steps checks no checkpoint, so there must be none.                                  *)
THEOREM TraceOracleExact ==
    ASSUME NEW events, NEW auth, Legible(events), Distinct(auth),
           auth.steps = {} => Commits(events) = {}
    PROVE  (Violations(events, auth) = {}) <=> Atomic(events, auth)
<1>1. AuthorityViolations(auth) = {}
  BY AuthorityFindsNone
<1>2. Violations(events, auth) = {} <=>
        /\ RevisionViolations(events) = {} /\ CheckpointViolations(events, auth.steps) = {}
        /\ ApplyViolations(events, auth.steps) = {} /\ RewardViolations(events, auth.rewards) = {}
  BY <1>1 DEF Violations
<1>3. auth.rewards = {} => RewardViolations(events, auth.rewards) = {}
  BY DEF RewardViolations
<1> DEFINE Groups ==
             \A i \in At(events, "group") : events[i].status \in {"COMMITTED", "SEALED"} =>
                \E v \in events[i].vers : v # None /\ events[i].vers = {v}
           Once == OnceEach(Commits(events),
                            LAMBDA i : [step |-> events[i].step, tok |-> events[i].tok,
                                        hash |-> events[i].hash], auth.steps)
           Applied ==
             \A i \in OpAt(events, "learner", "apply") :
                /\ \E s \in auth.steps : s.tok = events[i].tok /\ s.step = events[i].step
                /\ \A j \in OpAt(events, "learner", "apply") : events[j].tok = events[i].tok => j = i
           Rewarded == OnceEach(RewardCommits(events),
                                LAMBDA i : [lid |-> events[i].lid, reward |-> events[i].reward], auth.rewards)
<1>4. RevisionViolations(events) = {} <=> Groups
  BY RevisionsExact
<1>5. (CheckpointViolations(events, auth.steps) = {} /\ ApplyViolations(events, auth.steps) = {})
      <=> Once /\ Applied
  BY CheckpointsExact, AppliesExact, StepsExact
<1>6. auth.rewards # {} => (RewardViolations(events, auth.rewards) = {} <=> Rewarded)
  BY RewardsExact DEF OnceEach
<1>7. Atomic(events, auth) <=> Groups /\ Once /\ Applied /\ (auth.rewards # {} => Rewarded)
  BY DEF Atomic
<1> HIDE DEF Groups, Once, Applied, Rewarded
<1> QED
  BY <1>2, <1>3, <1>4, <1>5, <1>6, <1>7

(* What the entries of the fixtures and their defects say *)
Words ==
    {"none", "other", "fault", "reward", "group", "learner", "queue", "recovery", "checkpoint", "ack"}
    \union {"cas_write", "cas_reject", "recovery_worker_exit", "mark_consumed", "get_data", "pre_manifest",
            "optimizer_done", "optimizer_start", "rank_apply", "commit", "attempt_observed", "apply"}
    \union {"SEALED", "COMMITTED", "ABORTED", "v1", "v2", "retry-stale"} \union Range(Levels["revision"])
    \union {"reissue", "cold_start", "rollback", "commit_ack", "token", "hash"}
    \union {"R1", "R2", "R3", "R4", "R5", "Q0", "Q1", "L0", "L2", "L3", "C1", "C2"}

LEMMA Spoken ==
    /\ {None, "other", "fault", "reward", "group", "learner", "queue", "recovery", "checkpoint", "ack"}
          \subseteq Words
    /\ {"cas_write", "cas_reject", "recovery_worker_exit", "mark_consumed", "get_data", "pre_manifest",
        "optimizer_done", "optimizer_start", "rank_apply", "commit", "attempt_observed", "apply"}
          \subseteq Words
    /\ {"SEALED", "COMMITTED", "ABORTED", "v1", "v2", "retry-stale"} \subseteq Words
    /\ Range(Levels["revision"]) \subseteq Words
    /\ {"reissue", "cold_start", "rollback", "commit_ack", "token", "hash"} \subseteq Words
    /\ {"R1", "R2", "R3", "R4", "R5", "Q0", "Q1", "L0", "L2", "L3", "C1", "C2"} \subseteq Words
  BY Zenon DEF Words, None

(* The entries of an event log, and those that are no commit of a checkpoint *)
Entry ==
    [type : Words, op : Words, groups : SUBSET Int, tok : Words, step : Int, hash : Words,
     vers : {V \in SUBSET Words : IsFiniteSet(V)}, status : Words, lid : Int, reward : Int,
     committed : BOOLEAN, decision : Words, cut : Words, flag : BOOLEAN]
Quiet == {e \in Entry : ~(e.type = "checkpoint" /\ e.op = "commit")}

(* f is an entry of the type and operation of e. *)
Like(f, e) == f \in Entry /\ f.type = e.type /\ f.op = e.op

LEMMA EventFits ==
    ASSUME NEW type \in Words, NEW op \in Words
    PROVE  Event(type, op) \in Entry /\ Event(type, op).type = type /\ Event(type, op).op = op
<1>1. IsFiniteSet({}) /\ {} \in SUBSET Words
  BY FS_EmptySet
<1>2. None \in Words /\ NoStep \in Int /\ NoLid \in Int /\ NoReward \in Int
  BY Spoken DEF NoStep, NoLid, NoReward
<1> QED
  BY <1>1, <1>2 DEF Event, Entry

LEMMA FieldSet ==
    ASSUME NEW e \in Entry
    PROVE  /\ \A v \in SUBSET Int : Like([e EXCEPT !.groups = v], e)
           /\ \A v \in Words : /\ Like([e EXCEPT !.tok = v], e) /\ Like([e EXCEPT !.hash = v], e)
                                /\ Like([e EXCEPT !.status = v], e) /\ Like([e EXCEPT !.decision = v], e)
                                /\ Like([e EXCEPT !.cut = v], e)
           /\ \A v \in Int : /\ Like([e EXCEPT !.step = v], e) /\ Like([e EXCEPT !.lid = v], e)
                             /\ Like([e EXCEPT !.reward = v], e)
           /\ \A v \in SUBSET Words : IsFiniteSet(v) => Like([e EXCEPT !.vers = v], e)
           /\ \A v \in BOOLEAN : Like([e EXCEPT !.committed = v], e) /\ Like([e EXCEPT !.flag = v], e)
<1>1. \A v \in SUBSET Int : Like([e EXCEPT !.groups = v], e)
  BY DEF Like, Entry
<1>2. \A v \in Words : Like([e EXCEPT !.tok = v], e) /\ Like([e EXCEPT !.hash = v], e)
  BY DEF Like, Entry
<1>3. \A v \in Words : Like([e EXCEPT !.status = v], e) /\ Like([e EXCEPT !.decision = v], e)
  BY DEF Like, Entry
<1>4. \A v \in Words : Like([e EXCEPT !.cut = v], e)
  BY DEF Like, Entry
<1>5. \A v \in Int : Like([e EXCEPT !.step = v], e)
  BY DEF Like, Entry
<1>6. \A v \in Int : Like([e EXCEPT !.lid = v], e) /\ Like([e EXCEPT !.reward = v], e)
  BY DEF Like, Entry
<1>7. \A v \in SUBSET Words : IsFiniteSet(v) => Like([e EXCEPT !.vers = v], e)
  BY DEF Like, Entry
<1>8. \A v \in BOOLEAN : Like([e EXCEPT !.committed = v], e) /\ Like([e EXCEPT !.flag = v], e)
  BY DEF Like, Entry
<1> QED
  BY <1>1, <1>2, <1>3, <1>4, <1>5, <1>6, <1>7, <1>8

(* A change of one field leaves an entry what it is. *)
LEMMA ChangedLike ==
    ASSUME NEW e \in Entry, NEW f \in Changed(e) PROVE Like(f, e)
<1>1. None \in Words /\ "other" \in Words /\ NoStep \in Int /\ 7 \in Int /\ NoLid \in Int /\ -1 \in Int
      /\ "SEALED" \in Words /\ {} \in SUBSET Words /\ {None} \in SUBSET Words /\ {"v1", "v2"} \in SUBSET Words
  BY Spoken DEF NoStep, NoLid
<1>2. IsFiniteSet({}) /\ IsFiniteSet({None}) /\ IsFiniteSet({"v1", "v2"})
  <2>1. {"v1", "v2"} = {"v1"} \union {"v2"}
    OBVIOUS
  <2>2. IsFiniteSet({"v1"}) /\ IsFiniteSet({"v2"}) /\ IsFiniteSet({None}) /\ IsFiniteSet({})
    BY FS_Singleton, FS_EmptySet
  <2> QED
    BY <2>1, <2>2, FS_Union
<1>3. 1 - e.reward \in Int /\ (~e.committed) \in BOOLEAN
  BY DEF Entry
<1>4. \/ \E v \in {None, "other"} : f = [e EXCEPT !.tok = v]
      \/ \E v \in {None, "other"} : f = [e EXCEPT !.hash = v]
      \/ \E v \in {NoStep, 7} : f = [e EXCEPT !.step = v]
      \/ \E v \in {{}, {None}, {"v1", "v2"}} : f = [e EXCEPT !.vers = v]
      \/ \E v \in {NoLid, -1} : f = [e EXCEPT !.lid = v]
      \/ f = [e EXCEPT !.reward = 1 - e.reward]
      \/ f = [e EXCEPT !.committed = ~e.committed]
      \/ f = [e EXCEPT !.status = "SEALED"]
  <2>1. "reward" \in DOMAIN e /\ "committed" \in DOMAIN e
    BY DEF Entry
  <2>2. [e EXCEPT !.reward = 1 - @] = [e EXCEPT !.reward = 1 - e.reward]
        /\ [e EXCEPT !.committed = ~@] = [e EXCEPT !.committed = ~e.committed]
    BY <2>1
  <2> QED
    BY <2>2, Zenon DEF Changed
<1>5. CASE \/ \E v \in {None, "other"} : f = [e EXCEPT !.tok = v]
           \/ \E v \in {None, "other"} : f = [e EXCEPT !.hash = v]
           \/ f = [e EXCEPT !.status = "SEALED"]
  <2>1. \A v \in Words : Like([e EXCEPT !.tok = v], e) /\ Like([e EXCEPT !.hash = v], e)
                          /\ Like([e EXCEPT !.status = v], e)
    BY FieldSet
  <2>2. \A v \in {None, "other"} : v \in Words
    BY <1>1
  <2> QED
    BY <1>1, <1>5, <2>1, <2>2
<1>6. CASE \/ \E v \in {NoStep, 7} : f = [e EXCEPT !.step = v]
           \/ \E v \in {NoLid, -1} : f = [e EXCEPT !.lid = v]
  <2>1. \A v \in Int : Like([e EXCEPT !.step = v], e) /\ Like([e EXCEPT !.lid = v], e)
    BY FieldSet
  <2>2. (\A v \in {NoStep, 7} : v \in Int) /\ \A v \in {NoLid, -1} : v \in Int
    BY <1>1
  <2> QED
    BY <1>6, <2>1, <2>2
<1>7. CASE f = [e EXCEPT !.reward = 1 - e.reward]
  BY <1>3, <1>7, FieldSet
<1>8. CASE f = [e EXCEPT !.committed = ~e.committed]
  BY <1>3, <1>8, FieldSet
<1>9. CASE \E v \in {{}, {None}, {"v1", "v2"}} : f = [e EXCEPT !.vers = v]
  BY <1>1, <1>2, <1>9, FieldSet
<1> QED
  BY <1>4, <1>5, <1>6, <1>7, <1>8, <1>9

LEMMA ChangedQuiet ==
    ASSUME NEW e \in Quiet, NEW f \in Changed(e) PROVE f \in Quiet
  BY ChangedLike DEF Quiet, Like

(* A defect of a log is a log of such entries. *)
LEMMA DefectsKeep ==
    ASSUME NEW S, NEW events \in Seq(S), \A e \in S : \A f \in Changed(e) : f \in S,
           NEW x \in Defects(events)
    PROVE  x \in Seq(S)
<1>1. DOMAIN events = 1 .. Len(events) /\ Len(events) \in Nat /\ \A i \in DOMAIN events : events[i] \in S
  OBVIOUS
<1>2. ASSUME NEW i \in DOMAIN events PROVE RemoveAt(events, i) \in Seq(S)
  <2>1. SubSeq(events, 1, i - 1) \in Seq(S) /\ SubSeq(events, i + 1, Len(events)) \in Seq(S)
    BY <1>1
  <2> QED
    BY <2>1 DEF RemoveAt
<1>3. ASSUME NEW i \in DOMAIN events PROVE Append(events, events[i]) \in Seq(S)
  BY <1>1
<1>4. ASSUME NEW i \in DOMAIN events, NEW f \in Changed(events[i]) PROVE ReplaceAt(events, i, f) \in Seq(S)
  <2>1. f \in S
    BY <1>1
  <2> QED
    BY <1>1, <2>1 DEF ReplaceAt
<1>5. \/ x = events
      \/ \E i \in DOMAIN events : x = RemoveAt(events, i)
      \/ \E i \in DOMAIN events : x = Append(events, events[i])
      \/ \E i \in DOMAIN events : \E f \in Changed(events[i]) : x = ReplaceAt(events, i, f)
  BY Zenon DEF Defects
<1> QED
  BY <1>2, <1>3, <1>4, <1>5

(* Such entries can be read by the oracle, and the quiet ones commit nothing. *)
LEMMA EntriesLegible ==
    ASSUME NEW events \in Seq(Entry)
    PROVE  Legible(events) /\ (events \in Seq(Quiet) => Commits(events) = {})
<1>1. DOMAIN events = 1 .. Len(events) /\ Len(events) \in Nat /\ \A i \in DOMAIN events : events[i] \in Entry
  OBVIOUS
<1>2. IsFiniteSet(1 .. Len(events)) /\ 1 .. Len(events) \subseteq Int
  BY <1>1, FS_Interval
<1>3. \A e \in Entry : e.step \in Int /\ IsFiniteSet(e.vers)
  BY DEF Entry
<1>4. ASSUME events \in Seq(Quiet) PROVE Commits(events) = {}
  <2>1. \A i \in DOMAIN events : events[i] \in Quiet
    BY <1>4
  <2> QED
    BY <2>1 DEF Commits, OpAt, At, Quiet
<1> QED
  BY <1>1, <1>2, <1>3, <1>4 DEF Legible

DimsFit(dims) ==
    /\ dims.group_size \in Nat \ {0} /\ dims.kill_time \in 0 .. 100
    /\ dims.ack_loss \in BOOLEAN /\ dims.revision \in Words

(* What the oracle judges of a trial is exactly what it did. *)
Examined(events, auth) ==
    events \in Seq(Entry) /\ Distinct(auth) /\ (auth.steps = {} => events \in Seq(Quiet))

LEMMA QuietIs ==
    ASSUME NEW e \in Entry, NEW f, Like(f, e), ~(e.type = "checkpoint" /\ e.op = "commit")
    PROVE  f \in Quiet
  BY DEF Quiet, Like

LEMMA QuietEvent ==
    ASSUME NEW type \in Words, NEW op \in Words, ~(type = "checkpoint" /\ op = "commit")
    PROVE  Event(type, op) \in Quiet
  BY EventFits DEF Quiet

(* A quiet entry stays one when another field of it is set. *)
LEMMA QuietSet ==
    ASSUME NEW e \in Quiet
    PROVE  /\ \A v \in SUBSET Int : [e EXCEPT !.groups = v] \in Quiet
           /\ \A v \in Words : /\ [e EXCEPT !.tok = v] \in Quiet /\ [e EXCEPT !.status = v] \in Quiet
                               /\ [e EXCEPT !.decision = v] \in Quiet /\ [e EXCEPT !.cut = v] \in Quiet
           /\ \A v \in Int : /\ [e EXCEPT !.step = v] \in Quiet /\ [e EXCEPT !.lid = v] \in Quiet
                             /\ [e EXCEPT !.reward = v] \in Quiet
           /\ \A v \in SUBSET Words : IsFiniteSet(v) => [e EXCEPT !.vers = v] \in Quiet
           /\ \A v \in BOOLEAN : [e EXCEPT !.committed = v] \in Quiet /\ [e EXCEPT !.flag = v] \in Quiet
<1>1. e \in Entry /\ ~(e.type = "checkpoint" /\ e.op = "commit")
  BY DEF Quiet
<1>2. \A f : Like(f, e) => f \in Quiet
  BY <1>1, QuietIs
<1>3. /\ \A v \in SUBSET Int : Like([e EXCEPT !.groups = v], e)
      /\ \A v \in SUBSET Words : IsFiniteSet(v) => Like([e EXCEPT !.vers = v], e)
      /\ \A v \in BOOLEAN : Like([e EXCEPT !.committed = v], e) /\ Like([e EXCEPT !.flag = v], e)
  BY <1>1, FieldSet
<1>4. /\ \A v \in Words : /\ Like([e EXCEPT !.tok = v], e) /\ Like([e EXCEPT !.status = v], e)
                          /\ Like([e EXCEPT !.decision = v], e) /\ Like([e EXCEPT !.cut = v], e)
      /\ \A v \in Int : /\ Like([e EXCEPT !.step = v], e) /\ Like([e EXCEPT !.lid = v], e)
                        /\ Like([e EXCEPT !.reward = v], e)
  BY <1>1, FieldSet
<1>5. \A v \in SUBSET Int : [e EXCEPT !.groups = v] \in Quiet
  BY <1>2, <1>3
<1>6. \A v \in SUBSET Words : IsFiniteSet(v) => [e EXCEPT !.vers = v] \in Quiet
  BY <1>2, <1>3
<1>7. \A v \in BOOLEAN : [e EXCEPT !.committed = v] \in Quiet /\ [e EXCEPT !.flag = v] \in Quiet
  BY <1>2, <1>3
<1>8. \A v \in Words : /\ [e EXCEPT !.tok = v] \in Quiet /\ [e EXCEPT !.status = v] \in Quiet
                       /\ [e EXCEPT !.decision = v] \in Quiet /\ [e EXCEPT !.cut = v] \in Quiet
  BY <1>2, <1>4
<1>9. \A v \in Int : /\ [e EXCEPT !.step = v] \in Quiet /\ [e EXCEPT !.lid = v] \in Quiet
                     /\ [e EXCEPT !.reward = v] \in Quiet
  BY <1>2, <1>4
<1> QED
  BY <1>5, <1>6, <1>7, <1>8, <1>9

-----------------------------------------------------------------------------
(* The entries of the fixtures *)
LEMMA WriteFits ==
    ASSUME NEW i \in Int, NEW reward \in Int, NEW committed \in BOOLEAN
    PROVE  Write(i, reward, committed) \in Quiet
<1>1. PICK e : e = Event("reward", "cas_write")
  OBVIOUS
<1>2. e \in Quiet
  BY <1>1, Spoken, QuietEvent
<1>3. PICK f : f = [e EXCEPT !.lid = i]
  OBVIOUS
<1>4. f \in Quiet
  BY <1>2, <1>3, QuietSet
<1>5. PICK g : g = [f EXCEPT !.reward = reward]
  OBVIOUS
<1>6. g \in Quiet
  BY <1>4, <1>5, QuietSet
<1>7. [g EXCEPT !.committed = committed] \in Quiet
  BY <1>6, QuietSet
<1>8. Write(i, reward, committed) = [g EXCEPT !.committed = committed]
  BY <1>1, <1>3, <1>5 DEF Write, Lid
<1> QED
  BY <1>7, <1>8

LEMMA StruckFits ==
    ASSUME NEW cut \in Words PROVE Struck(cut) \in Quiet
<1>1. Event("fault", None) \in Quiet
  BY Spoken, QuietEvent
<1> QED
  BY <1>1, QuietSet DEF Struck

LEMMA DecidesFits ==
    ASSUME NEW d \in Words PROVE Decides(d) \in Quiet
<1>1. Event("recovery", None) \in Quiet
  BY Spoken, QuietEvent
<1> QED
  BY <1>1, QuietSet DEF Decides

LEMMA ReissueFits ==
    ASSUME NEW groups \in SUBSET Int PROVE Reissue(groups) \in Quiet
<1>1. PICK e : e = Event("recovery", None)
  OBVIOUS
<1>2. e \in Quiet
  BY <1>1, Spoken, QuietEvent
<1>3. PICK f : f = [e EXCEPT !.groups = groups]
  OBVIOUS
<1>4. f \in Quiet
  BY <1>2, <1>3, QuietSet
<1>5. [f EXCEPT !.decision = "reissue"] \in Quiet
  BY <1>4, Spoken, QuietSet
<1>6. Reissue(groups) = [f EXCEPT !.decision = "reissue"]
  BY <1>1, <1>3 DEF Reissue
<1> QED
  BY <1>5, <1>6

LEMMA CkptFits ==
    ASSUME NEW trial \in Int PROVE Ckpt(trial) \in Entry
<1>1. PICK e : e = Event("checkpoint", "commit")
  OBVIOUS
<1>2. e \in Entry
  BY <1>1, Spoken, EventFits
<1>3. PICK f : f = [e EXCEPT !.tok = "token"]
  OBVIOUS
<1>4. f \in Entry
  BY <1>2, <1>3, Spoken, FieldSet DEF Like
<1>5. PICK g : g = [f EXCEPT !.step = trial]
  OBVIOUS
<1>6. g \in Entry
  BY <1>4, <1>5, FieldSet DEF Like
<1>7. [g EXCEPT !.hash = "hash"] \in Entry
  BY <1>6, Spoken, FieldSet DEF Like
<1>8. Ckpt(trial) = [g EXCEPT !.hash = "hash"]
  BY <1>1, <1>3, <1>5 DEF Ckpt
<1> QED
  BY <1>7, <1>8

LEMMA GroupFits ==
    ASSUME NEW groups \in SUBSET Int, NEW status \in Words, NEW vers \in SUBSET Words, IsFiniteSet(vers)
    PROVE  [Event("group", None) EXCEPT !.groups = groups, !.status = status, !.vers = vers] \in Quiet
<1>1. PICK e : e = Event("group", None)
  OBVIOUS
<1>2. e \in Quiet
  BY <1>1, Spoken, QuietEvent
<1>3. PICK f : f = [e EXCEPT !.groups = groups]
  OBVIOUS
<1>4. f \in Quiet
  BY <1>2, <1>3, QuietSet
<1>5. PICK g : g = [f EXCEPT !.status = status]
  OBVIOUS
<1>6. g \in Quiet
  BY <1>4, <1>5, QuietSet
<1>7. [g EXCEPT !.vers = vers] \in Quiet
  BY <1>6, QuietSet
<1>8. [Event("group", None) EXCEPT !.groups = groups, !.status = status, !.vers = vers] = [g EXCEPT !.vers = vers]
  BY <1>1, <1>3, <1>5
<1> QED
  BY <1>7, <1>8

(* The authorities of the fixtures *)
LEMMA NoAuthorityFits == Distinct(NoAuthority)
  BY DEF NoAuthority, Distinct

LEMMA StepAuthorityFits ==
    ASSUME NEW trial \in Nat PROVE Distinct(StepAuthority(trial)) /\ StepAuthority(trial).steps # {}
<1>1. "token" # None /\ "hash" # None
  BY DEF None
<1>2. PICK s : s = [step |-> trial, tok |-> "token", hash |-> "hash"]
  OBVIOUS
<1>3. StepAuthority(trial).steps = {s} /\ StepAuthority(trial).rewards = {}
  BY <1>2 DEF StepAuthority
<1>4. s.step = trial /\ s.tok = "token" /\ s.hash = "hash"
  BY <1>2
<1> QED
  BY <1>1, <1>2, <1>3, <1>4 DEF Distinct

LEMMA RewardsFit ==
    ASSUME NEW rewards, \A r \in rewards : r = [lid |-> r.lid, reward |-> r.reward] /\ r.lid # NoLid,
           \A r, q \in rewards : r.lid = q.lid => r = q
    PROVE  Distinct([steps |-> {}, rewards |-> rewards])
  BY DEF Distinct

-----------------------------------------------------------------------------
(* How many have passed when the fault strikes *)
LEMMA PassedBounds ==
    ASSUME NEW dims, DimsFit(dims)
    PROVE  Passed(dims, dims.group_size) \in 0 .. dims.group_size
<1>1. PICK p, k : p = dims.kill_time /\ k = dims.group_size
  OBVIOUS
<1>2. p \in Nat /\ p <= 100 /\ k \in Nat
  BY <1>1 DEF DimsFit
<1>3. PICK c \in Nat : p + c = 100
  <2>1. 100 - p \in Nat /\ p + (100 - p) = 100
    BY <1>2
  <2> QED
    BY <2>1
<1>4. p * k \in Nat /\ c * k \in Nat /\ p * k + c * k = 100 * k
  BY <1>2, <1>3
<1>5. PICK n : n = p * k
  OBVIOUS
<1>6. n \in Nat /\ n <= 100 * k
  BY <1>4, <1>5
<1>7. n \div 100 \in 0 .. k
  BY <1>2, <1>6
<1>8. Passed(dims, k) = n \div 100
  BY <1>1, <1>5 DEF Passed
<1> QED
  BY <1>1, <1>7, <1>8

LEMMA Struggle ==
    ASSUME NEW dims, DimsFit(dims),
           NEW n, n = IF Passed(dims, dims.group_size) < dims.group_size - 1
                      THEN Passed(dims, dims.group_size) ELSE dims.group_size - 1
    PROVE  n \in Nat
<1>1. dims.group_size \in Nat \ {0}
  BY DEF DimsFit
<1>2. PICK p : p = Passed(dims, dims.group_size)
  OBVIOUS
<1>3. p \in Nat
  BY <1>1, <1>2, PassedBounds
<1> QED
  BY <1>1, <1>2, <1>3

(* The samples 1..n are written with the rewards f. *)
LEMMA WritesFit ==
    ASSUME NEW n \in Nat, NEW f, \A i \in 1 .. n : f[i] \in Int, NEW committed \in BOOLEAN,
           NEW w, w = [i \in 1 .. n |-> Write(i, f[i], committed)]
    PROVE  w \in Seq(Quiet)
<1>1. ASSUME NEW i \in 1 .. n PROVE Write(i, f[i], committed) \in Quiet
  <2>1. i \in Int /\ f[i] \in Int
    OBVIOUS
  <2> QED
    BY <2>1, WriteFits
<1>2. \A i \in 1 .. n : w[i] \in Quiet
  BY <1>1
<1> QED
  BY <1>2

LEMMA WriteOnes ==
    ASSUME NEW n \in Nat, NEW committed \in BOOLEAN,
           NEW w, w = [i \in 1 .. n |-> Write(i, One(i), committed)]
    PROVE  w \in Seq(Quiet)
<1>1. PICK f : f = [i \in 1 .. n |-> 1]
  OBVIOUS
<1>2. w = [i \in 1 .. n |-> Write(i, f[i], committed)] /\ \A i \in 1 .. n : f[i] \in Int
  BY <1>1 DEF One
<1> QED
  BY <1>2, WritesFit

LEMMA R1Examined ==
    ASSUME NEW dims, DimsFit(dims) PROVE Examined(FixtureR1(dims)[1], FixtureR1(dims)[2])
<1>1. PICK n : n = IF Passed(dims, dims.group_size) < dims.group_size - 1
                   THEN Passed(dims, dims.group_size) ELSE dims.group_size - 1
  OBVIOUS
<1>2. n \in Nat
  BY <1>1, Struggle
<1>3. PICK w : w = [i \in 1 .. n |-> Write(i, One(i), FALSE)]
  OBVIOUS
<1>4. w \in Seq(Quiet)
  <2>1. FALSE \in BOOLEAN
    OBVIOUS
  <2> QED
    BY <1>2, <1>3, <2>1, WriteOnes
<1>5. PICK x, y : x = Write(n + 1, NoReward, FALSE) /\ y = Struck("R1")
  OBVIOUS
<1>6. x \in Quiet /\ y \in Quiet
  <2>1. NoReward \in Int /\ n + 1 \in Int
    BY <1>2 DEF NoReward
  <2> QED
    BY <1>5, <2>1, WriteFits, StruckFits, Spoken
<1>7. FixtureR1(dims)[1] = w \o <<x, y>> /\ FixtureR1(dims)[2] = NoAuthority
  BY <1>1, <1>3, <1>5 DEF FixtureR1, Writes
<1>8. w \o <<x, y>> \in Seq(Quiet)
  BY <1>4, <1>6
<1>9. Seq(Quiet) \subseteq Seq(Entry)
  BY DEF Quiet
<1> QED
  BY <1>7, <1>8, <1>9, NoAuthorityFits DEF Examined

LEMMA QuietSeqs == Quiet \subseteq Entry /\ Seq(Quiet) \subseteq Seq(Entry)
  BY DEF Quiet

LEMMA MixedExamined ==
    ASSUME NEW cut \in {"R2", "R3"}, NEW dims, DimsFit(dims)
    PROVE  Examined(FixtureMixed(cut, dims)[1], FixtureMixed(cut, dims)[2])
<1>1. PICK k : k = dims.group_size
  OBVIOUS
<1>2. k \in Nat
  BY <1>1 DEF DimsFit
<1> DEFINE v1(i) == IF i <= k \div 2 THEN 1 ELSE 0
           other == IF cut = "R2" THEN "retry-stale" ELSE "v2"
<1>3. PICK w : w = [i \in 1 .. k |-> Write(i, v1(i), TRUE)]
  OBVIOUS
<1>4. w \in Seq(Quiet)
  <2>1. PICK f : f = [i \in 1 .. k |-> v1(i)]
    OBVIOUS
  <2>2. w = [i \in 1 .. k |-> Write(i, f[i], TRUE)] /\ \A i \in 1 .. k : f[i] \in Int
    BY <1>3, <2>1
  <2>3. TRUE \in BOOLEAN
    OBVIOUS
  <2> QED
    BY <1>2, <2>2, <2>3, WritesFit
<1>5. PICK x, y : /\ x = [Event("group", None) EXCEPT !.groups = {1}, !.status = "ABORTED",
                                                      !.vers = {"v1", other}]
                  /\ y = Struck(cut)
  OBVIOUS
<1>6. x \in Quiet /\ y \in Quiet
  <2>1. {"v1", other} \in SUBSET Words /\ "ABORTED" \in Words /\ cut \in Words
    BY Spoken
  <2>2. IsFiniteSet({"v1", other})
    <3>1. {"v1", other} = {"v1"} \union {other}
      OBVIOUS
    <3>2. \A z : IsFiniteSet({z})
      BY FS_Singleton
    <3>3. \A S, T : IsFiniteSet(S) /\ IsFiniteSet(T) => IsFiniteSet(S \union T)
      BY FS_Union
    <3>4. PICK o : o = other
      OBVIOUS
    <3>5. IsFiniteSet({"v1"} \union {o})
      BY <3>2, <3>3
    <3> QED
      BY <3>1, <3>4, <3>5
  <2>3. {1} \in SUBSET Int
    OBVIOUS
  <2> QED
    BY <1>5, <2>1, <2>2, <2>3, GroupFits, StruckFits
<1>7. PICK rewards : rewards = {[lid |-> i, reward |-> v1(i)] : i \in 1 .. k}
  OBVIOUS
<1>8. FixtureMixed(cut, dims)[1] = w \o <<x, y>> /\ FixtureMixed(cut, dims)[2] = [steps |-> {}, rewards |-> rewards]
  BY <1>1, <1>3, <1>5, <1>7 DEF FixtureMixed, Writes, Rewards, Lid
<1>9. Distinct([steps |-> {}, rewards |-> rewards])
  <2>1. \A r \in rewards : \E i \in 1 .. k : r = [lid |-> i, reward |-> v1(i)]
    BY <1>7
  <2>2. \A r \in rewards : r = [lid |-> r.lid, reward |-> v1(r.lid)] /\ r.reward = v1(r.lid) /\ r.lid \in 1 .. k
    BY <2>1
  <2>3. \A r \in rewards : r.lid # NoLid
    BY <1>2, <2>2 DEF NoLid
  <2> HIDE DEF v1
  <2>4. \A r \in rewards : r = [lid |-> r.lid, reward |-> r.reward]
    BY <2>2
  <2>5. \A r, q \in rewards : r.lid = q.lid => r = q
    BY <2>2
  <2> QED
    BY <2>3, <2>4, <2>5, RewardsFit
<1>10. w \o <<x, y>> \in Seq(Quiet)
  BY <1>4, <1>6
<1> QED
  BY <1>8, <1>9, <1>10, QuietSeqs DEF Examined

(* The one reward of the fixtures that write a sample twice *)
LEMMA OneReward == Distinct([steps |-> {}, rewards |-> Rewards(1, One)])
<1>1. PICK x : x = [lid |-> 1, reward |-> 1]
  OBVIOUS
<1>2. Rewards(1, One) = {x}
  BY <1>1 DEF Rewards, One, Lid
<1>3. x = [lid |-> x.lid, reward |-> x.reward] /\ x.lid # NoLid
  BY <1>1 DEF NoLid
<1> QED
  BY <1>2, <1>3, RewardsFit

LEMMA R4Examined == Examined(FixtureR4[1], FixtureR4[2])
<1>1. PICK x, y, z : /\ x = Write(1, 1, TRUE)
                     /\ y = [Event("reward", "cas_reject") EXCEPT !.lid = 1, !.reward = 1]
                     /\ z = Struck("R4")
  OBVIOUS
<1>2. y \in Quiet
  <2>1. PICK e : e = Event("reward", "cas_reject")
    OBVIOUS
  <2>2. e \in Quiet
    BY <2>1, Spoken, QuietEvent
  <2>3. PICK f : f = [e EXCEPT !.lid = 1]
    OBVIOUS
  <2>0. 1 \in Int
    OBVIOUS
  <2>4. f \in Quiet
    <3>1. \A v \in Int : [e EXCEPT !.lid = v] \in Quiet
      BY <2>2, QuietSet
    <3> QED
      BY <2>0, <2>3, <3>1
  <2>5. [f EXCEPT !.reward = 1] \in Quiet
    <3>1. \A v \in Int : [f EXCEPT !.reward = v] \in Quiet
      BY <2>4, QuietSet
    <3> QED
      BY <2>0, <3>1
  <2>6. y = [f EXCEPT !.reward = 1]
    BY <1>1, <2>1, <2>3
  <2> QED
    BY <2>5, <2>6
<1>3. x \in Quiet /\ z \in Quiet
  <2>1. 1 \in Int /\ TRUE \in BOOLEAN /\ "R4" \in Words
    BY Spoken
  <2>2. x \in Quiet
    BY <1>1, <2>1, WriteFits
  <2>3. z \in Quiet
    BY <1>1, <2>1, StruckFits
  <2> QED
    BY <2>2, <2>3
<1>4. FixtureR4[1] = <<x, y, z>> /\ FixtureR4[2] = [steps |-> {}, rewards |-> Rewards(1, One)]
  BY <1>1 DEF FixtureR4, Lid
<1>5. <<x, y, z>> \in Seq(Quiet)
  BY <1>2, <1>3
<1> QED
  BY <1>4, <1>5, OneReward, QuietSeqs DEF Examined

LEMMA R5Examined ==
    ASSUME NEW out PROVE Examined(FixtureR5(out)[1], FixtureR5(out)[2])
<1> DEFINE worker(k) == [Event("learner", "recovery_worker_exit") EXCEPT !.flag = k \in out.finished]
<1>1. PICK n : n = IF out.wrote THEN 1 ELSE 0
  OBVIOUS
<1>2. n \in Nat
  BY <1>1
<1>3. PICK w : w = [i \in 1 .. n |-> Write(i, One(i), TRUE)]
  OBVIOUS
<1>4. w \in Seq(Quiet)
  <2>1. TRUE \in BOOLEAN
    OBVIOUS
  <2> QED
    BY <1>2, <1>3, <2>1, WriteOnes
<1>5. PICK x, y, z : x = worker(1) /\ y = worker(2) /\ z = Struck("R5")
  OBVIOUS
<1>6. x \in Quiet /\ y \in Quiet /\ z \in Quiet
  <2>1. Event("learner", "recovery_worker_exit") \in Quiet
    BY Spoken, QuietEvent
  <2>2. (1 \in out.finished) \in BOOLEAN /\ (2 \in out.finished) \in BOOLEAN
    OBVIOUS
  <2>3. \A v \in BOOLEAN : [Event("learner", "recovery_worker_exit") EXCEPT !.flag = v] \in Quiet
    BY <2>1, QuietSet
  <2>4. x \in Quiet /\ y \in Quiet
    BY <1>5, <2>2, <2>3, Zenon
  <2> QED
    BY <1>5, <2>4, StruckFits, Spoken
<1>7. FixtureR5(out)[1] = w \o <<x, y, z>> /\ FixtureR5(out)[2] = [steps |-> {}, rewards |-> Rewards(1, One)]
  BY <1>1, <1>3, <1>5 DEF FixtureR5, Writes
<1>8. w \o <<x, y, z>> \in Seq(Quiet)
  BY <1>4, <1>6
<1> QED
  BY <1>7, <1>8, OneReward, QuietSeqs DEF Examined

-----------------------------------------------------------------------------
(* The groups the queue has handed out: positions of the group. *)
LEMMA OrderedFits ==
    ASSUME NEW k \in Nat, NEW order
    PROVE  Ordered(k, order) \in Seq(Int) /\ Len(Ordered(k, order)) = k
<1>1. CASE order = "reverse"
  <2>1. PICK s : s = [i \in 1 .. k |-> k + 1 - i]
    OBVIOUS
  <2>2. \A i \in 1 .. k : k + 1 - i \in Int
    OBVIOUS
  <2>3. s \in Seq(Int) /\ Len(s) = k
    BY <2>1, <2>2
  <2>4. Ordered(k, order) = s
    BY <1>1, <2>1 DEF Ordered
  <2> QED
    BY <2>3, <2>4
<1>2. CASE order = "interleaved"
  <2>1. PICK s : s = [i \in 1 .. k |-> IF i <= (k + 1) \div 2 THEN 2 * i - 1 ELSE 2 * (i - (k + 1) \div 2)]
    OBVIOUS
  <2>2. (k + 1) \div 2 \in Int
    OBVIOUS
  <2>3. PICK h : h = (k + 1) \div 2
    OBVIOUS
  <2>4. \A i \in 1 .. k : 2 * i - 1 \in Int /\ 2 * (i - h) \in Int
    BY <2>2, <2>3
  <2>5. s = [i \in 1 .. k |-> IF i <= h THEN 2 * i - 1 ELSE 2 * (i - h)]
    BY <2>1, <2>3
  <2>6. s \in Seq(Int) /\ Len(s) = k
    BY <2>4, <2>5
  <2>7. Ordered(k, order) = s
    BY <1>2, <2>1 DEF Ordered
  <2> QED
    BY <2>6, <2>7
<1>3. CASE order # "reverse" /\ order # "interleaved"
  <2>1. PICK s : s = [i \in 1 .. k |-> i]
    OBVIOUS
  <2>2. s \in Seq(Int) /\ Len(s) = k
    BY <2>1
  <2>3. Ordered(k, order) = s
    BY <1>3, <2>1 DEF Ordered
  <2> QED
    BY <2>2, <2>3
<1> QED
  BY <1>1, <1>2, <1>3

LEMMA TakenFits ==
    ASSUME NEW dims, DimsFit(dims) PROVE Taken(dims) \in Seq(Int)
<1>1. PICK k, n, m : k = dims.group_size /\ n = Passed(dims, k) /\ m = IF n > 1 THEN n ELSE 1
  OBVIOUS
<1>2. k \in Nat \ {0} /\ n \in 0 .. k
  BY <1>1, PassedBounds DEF DimsFit
<1>3. m \in 1 .. k
  BY <1>1, <1>2
<1>4. PICK s : s = Ordered(k, dims.attempt_order)
  OBVIOUS
<1>5. s \in Seq(Int) /\ Len(s) = k
  BY <1>2, <1>4, OrderedFits
<1>6. SubSeq(s, 1, m) \in Seq(Int)
  BY <1>2, <1>3, <1>5
<1>7. Taken(dims) = SubSeq(s, 1, m)
  BY <1>1, <1>4 DEF Taken
<1> QED
  BY <1>6, <1>7

LEMMA SeqFits ==
    ASSUME NEW S, NEW n \in Nat, NEW q, q = [i \in 1 .. n |-> q[i]], \A i \in 1 .. n : q[i] \in S
    PROVE  q \in Seq(S)
  OBVIOUS

LEMMA QueueFits ==
    ASSUME NEW op \in {"mark_consumed", "get_data"}, NEW taken \in Seq(Int)
    PROVE  QueueEvents(op, taken) \in Seq(Quiet)
<1>1. op \in Words /\ "queue" \in Words
  BY Spoken
<1>2. Event("queue", op) \in Quiet
  BY <1>1, QuietEvent
<1>3. PICK n : n = Len(taken)
  OBVIOUS
<1>4. n \in Nat /\ DOMAIN taken = 1 .. n
  BY <1>3
<1>5. PICK q : q = QueueEvents(op, taken)
  OBVIOUS
<1>6. q = [i \in 1 .. n |-> [Event("queue", op) EXCEPT !.groups = {taken[i]}]]
  BY <1>4, <1>5 DEF QueueEvents
<1>7. ASSUME NEW i \in 1 .. n PROVE q[i] \in Quiet
  <2>1. {taken[i]} \in SUBSET Int
    BY <1>4
  <2>2. \A v \in SUBSET Int : [Event("queue", op) EXCEPT !.groups = v] \in Quiet
    BY <1>2, QuietSet
  <2> QED
    BY <1>6, <2>1, <2>2
<1>8. q \in Seq(Quiet)
  <2>1. \A i \in 1 .. n : q[i] \in Quiet
    BY <1>7
  <2>2. q = [i \in 1 .. n |-> q[i]]
    BY <1>6
  <2> QED
    BY <1>4, <2>1, <2>2, SeqFits
<1> QED
  BY <1>5, <1>8

LEMMA Q0Examined ==
    ASSUME NEW dims, DimsFit(dims) PROVE Examined(FixtureQ0(dims)[1], FixtureQ0(dims)[2])
<1>1. PICK taken, c : taken = Taken(dims) /\ c = Range(SubSeq(taken, 1, Len(taken) \div 2))
  OBVIOUS
<1>2. PICK need, group : /\ need = Range(taken) \ c
                         /\ group = [Event("group", None) EXCEPT !.groups = c, !.status = "COMMITTED",
                                                                 !.vers = {dims.revision}]
  OBVIOUS
<1>3. taken \in Seq(Int)
  BY <1>1, TakenFits
<1>4. c \in SUBSET Int /\ need \in SUBSET Int
  <2>1. PICK h : h = Len(taken) \div 2
    OBVIOUS
  <2>2. h \in 0 .. Len(taken)
    BY <1>3, <2>1
  <2>3. SubSeq(taken, 1, h) \in Seq(Int)
    BY <1>3, <2>2
  <2>4. \A s \in Seq(Int) : Range(s) \subseteq Int
    BY DEF Range
  <2> QED
    BY <1>1, <1>2, <1>3, <2>1, <2>3, <2>4
<1>5. group \in Quiet
  <2>1. {dims.revision} \in SUBSET Words /\ IsFiniteSet({dims.revision}) /\ "COMMITTED" \in Words
    BY Spoken, FS_Singleton DEF DimsFit
  <2> QED
    BY <1>2, <1>4, <2>1, GroupFits
<1>6. PICK a, b, d : /\ a = QueueEvents("mark_consumed", taken)
                     /\ b = (IF c = {} THEN <<>> ELSE <<group>>)
                     /\ d = (IF need = {} THEN <<>> ELSE <<Reissue(need)>>)
  OBVIOUS
<1>7. a \in Seq(Quiet)
  BY <1>3, <1>6, QueueFits
<1>8. b \in Seq(Quiet)
  BY <1>5, <1>6
<1>9. d \in Seq(Quiet)
  <2>1. Reissue(need) \in Quiet
    BY <1>4, ReissueFits
  <2> QED
    BY <1>6, <2>1
<1>10. PICK e : e = <<Struck("Q0")>>
  OBVIOUS
<1>11. e \in Seq(Quiet)
  <2>1. Struck("Q0") \in Quiet
    BY StruckFits, Spoken
  <2> QED
    BY <1>10, <2>1
<1>12. a \o b \o e \o d \in Seq(Quiet)
  BY <1>7, <1>8, <1>9, <1>11
<1>13. FixtureQ0(dims) = <<a \o b \o e \o d, NoAuthority>>
  BY <1>1, <1>2, <1>6, <1>10 DEF FixtureQ0
<1> QED
  BY <1>12, <1>13, NoAuthorityFits, QuietSeqs DEF Examined

LEMMA Q1Examined ==
    ASSUME NEW dims, DimsFit(dims) PROVE Examined(FixtureQ1(dims)[1], FixtureQ1(dims)[2])
<1>1. PICK taken, a, b : /\ taken = Taken(dims) /\ a = QueueEvents("get_data", taken)
                         /\ b = <<Struck("Q1"), Reissue(Range(taken))>>
  OBVIOUS
<1>2. taken \in Seq(Int)
  BY <1>1, TakenFits
<1>3. a \in Seq(Quiet)
  BY <1>1, <1>2, QueueFits
<1>4. b \in Seq(Quiet)
  <2>1. Range(taken) \in SUBSET Int
    BY <1>2 DEF Range
  <2>2. Reissue(Range(taken)) \in Quiet
    BY <2>1, ReissueFits
  <2>3. Struck("Q1") \in Quiet
    BY StruckFits, Spoken
  <2> QED
    BY <1>1, <2>2, <2>3
<1>5. a \o b \in Seq(Quiet)
  BY <1>3, <1>4
<1>6. FixtureQ1(dims) = <<a \o b, NoAuthority>>
  BY <1>1 DEF FixtureQ1
<1> QED
  BY <1>5, <1>6, NoAuthorityFits, QuietSeqs DEF Examined

LEMMA MemoryExamined ==
    ASSUME NEW cut \in {"L0", "L3"} PROVE Examined(FixtureMemory(cut)[1], FixtureMemory(cut)[2])
<1>1. PICK op, d : /\ op = (IF cut = "L0" THEN "pre_manifest" ELSE "optimizer_done")
                   /\ d = (IF cut = "L0" THEN "cold_start" ELSE "rollback")
  OBVIOUS
<1>2. op \in Words /\ d \in Words /\ cut \in Words /\ "learner" \in Words
  BY <1>1, Spoken
<1>3. Event("learner", op) \in Quiet /\ Struck(cut) \in Quiet /\ Decides(d) \in Quiet
  BY <1>2, QuietEvent, StruckFits, DecidesFits
<1>4. PICK x, y, z : x = Event("learner", op) /\ y = Struck(cut) /\ z = Decides(d)
  OBVIOUS
<1>5. <<x, y, z>> \in Seq(Quiet)
  BY <1>3, <1>4
<1>6. FixtureMemory(cut) = <<<<x, y, z>>, NoAuthority>>
  BY <1>1, <1>4 DEF FixtureMemory
<1> QED
  BY <1>5, <1>6, NoAuthorityFits, QuietSeqs DEF Examined

LEMMA L2Examined ==
    ASSUME NEW dims, DimsFit(dims), NEW trial \in Nat
    PROVE  Examined(FixtureL2(dims, trial)[1], FixtureL2(dims, trial)[2])
<1>1. PICK n : n = IF Passed(dims, dims.group_size) < dims.group_size - 1
                   THEN Passed(dims, dims.group_size) ELSE dims.group_size - 1
  OBVIOUS
<1>2. n \in Nat
  BY <1>1, Struggle
<1>3. PICK v, x, y, z, u : /\ v = Event("learner", "optimizer_start") /\ u = Event("learner", "rank_apply")
                           /\ x = Struck("L2") /\ y = Decides("rollback") /\ z = Ckpt(trial)
  OBVIOUS
<1>4. v \in Entry /\ u \in Entry
  BY <1>3, Spoken, EventFits
<1>5. x \in Entry /\ y \in Entry /\ z \in Entry
  BY <1>3, Spoken, StruckFits, DecidesFits, CkptFits, QuietSeqs
<1>6. PICK w : w = [i \in 1 .. n |-> u]
  OBVIOUS
<1>7. w \in Seq(Entry) /\ <<v>> \in Seq(Entry) /\ <<x, y, z>> \in Seq(Entry)
  BY <1>2, <1>4, <1>5, <1>6
<1>8. <<v>> \o w \o <<x, y, z>> \in Seq(Entry)
  BY <1>7
<1>9. FixtureL2(dims, trial) = <<<<v>> \o w \o <<x, y, z>>, StepAuthority(trial)>>
  BY <1>1, <1>3, <1>6 DEF FixtureL2
<1> QED
  BY <1>8, <1>9, StepAuthorityFits DEF Examined

LEMMA C1Examined ==
    ASSUME NEW trial \in Nat PROVE Examined(FixtureC1(trial)[1], FixtureC1(trial)[2])
<1>1. PICK x, y, z : x = Ckpt(trial) /\ y = Struck("C1") /\ z = Decides("commit_ack")
  OBVIOUS
<1>2. x \in Entry /\ y \in Entry /\ z \in Entry
  BY <1>1, Spoken, StruckFits, DecidesFits, CkptFits, QuietSeqs
<1>3. <<x, y, z>> \in Seq(Entry)
  BY <1>2
<1>4. FixtureC1(trial) = <<<<x, y, z>>, StepAuthority(trial)>>
  BY <1>1 DEF FixtureC1
<1> QED
  BY <1>3, <1>4, StepAuthorityFits DEF Examined

LEMMA C2Examined ==
    ASSUME NEW dims, DimsFit(dims), NEW trial \in Nat
    PROVE  Examined(FixtureC2(dims, trial)[1], FixtureC2(dims, trial)[2])
<1>1. PICK seen : seen = [Event("ack", None) EXCEPT !.tok = "token", !.flag = dims.ack_loss]
  OBVIOUS
<1>2. seen \in Entry
  <2>1. PICK e : e = Event("ack", None)
    OBVIOUS
  <2>2. e \in Entry
    BY <2>1, Spoken, EventFits
  <2>3. PICK f : f = [e EXCEPT !.tok = "token"]
    OBVIOUS
  <2>4. f \in Entry
    BY <2>2, <2>3, Spoken, FieldSet DEF Like
  <2>5. \A v \in BOOLEAN : [f EXCEPT !.flag = v] \in Entry
    BY <2>4, FieldSet DEF Like
  <2>6. dims.ack_loss \in BOOLEAN
    BY DEF DimsFit
  <2>7. [f EXCEPT !.flag = dims.ack_loss] \in Entry
    BY <2>5, <2>6, Zenon
  <2>8. seen = [f EXCEPT !.flag = dims.ack_loss]
    BY <1>1, <2>1, <2>3
  <2> QED
    BY <2>7, <2>8
<1>3. PICK apply : apply = [Event("learner", "apply") EXCEPT !.tok = "token", !.step = trial]
  OBVIOUS
<1>4. apply \in Entry
  <2>1. PICK e : e = Event("learner", "apply")
    OBVIOUS
  <2>2. e \in Entry
    BY <2>1, Spoken, EventFits
  <2>3. PICK f : f = [e EXCEPT !.tok = "token"]
    OBVIOUS
  <2>4. f \in Entry
    BY <2>2, <2>3, Spoken, FieldSet DEF Like
  <2>5. \A v \in Int : [f EXCEPT !.step = v] \in Entry
    BY <2>4, FieldSet DEF Like
  <2>6. trial \in Int
    OBVIOUS
  <2>7. [f EXCEPT !.step = trial] \in Entry
    BY <2>5, <2>6, Zenon
  <2>8. apply = [f EXCEPT !.step = trial]
    BY <1>3, <2>1, <2>3
  <2> QED
    BY <2>7, <2>8
<1>5. PICK x, y, z, u : /\ x = Ckpt(trial) /\ y = Struck("C2") /\ z = Decides("commit_ack")
                        /\ u = Event("learner", "attempt_observed")
  OBVIOUS
<1>6. x \in Entry /\ y \in Entry /\ z \in Entry
  BY <1>5, Spoken, StruckFits, DecidesFits, CkptFits, QuietSeqs
<1>7. u \in Entry
  BY <1>5, Spoken, EventFits
<1>8. PICK w : w = [i \in 1 .. 3 |-> u]
  OBVIOUS
<1>9. w \in Seq(Entry) /\ <<x, seen, y>> \in Seq(Entry) /\ <<z, apply>> \in Seq(Entry)
  BY <1>2, <1>4, <1>6, <1>7, <1>8
<1>10. <<x, seen, y>> \o w \o <<z, apply>> \in Seq(Entry)
  BY <1>9
<1>11. FixtureC2(dims, trial) = <<<<x, seen, y>> \o w \o <<z, apply>>, StepAuthority(trial)>>
  BY <1>1, <1>3, <1>5, <1>8 DEF FixtureC2
<1> QED
  BY <1>10, <1>11, StepAuthorityFits DEF Examined

-----------------------------------------------------------------------------
(* A trial of the schedule, and what it runs *)
Judgeable(t) == t.cut \in Range(Cuts) /\ t.trial \in Nat /\ t.seed \in Int

LEMMA LevelFits ==
    ASSUME NEW d \in DOMAIN Levels, NEW seed \in Int, NEW trial \in Nat
    PROVE  LevelOf(seed, d, trial) \in Range(Levels[d])
<1>1. PICK L, s, x : L = Len(Levels[d]) /\ s = Stride[d] /\ x = seed \div s
  OBVIOUS
<1>2. L \in Nat \ {0} /\ DOMAIN Levels[d] = 1 .. L /\ s \in Nat \ {0}
  BY <1>1, CampaignAssumption
<1>3. x \in Int
  BY <1>1, <1>2, WholeDivision
<1>4. (x + trial) % L \in 0 .. L - 1
  <2>1. x + trial \in Int
    BY <1>3
  <2> QED
    BY <1>2, <2>1, WholeDivision
<1>5. PICK y : y = (x + trial) % L
  OBVIOUS
<1>6. y + 1 \in 1 .. L
  BY <1>2, <1>4, <1>5
<1>7. LevelOf(seed, d, trial) = Levels[d][y + 1]
  BY <1>1, <1>5 DEF LevelOf
<1> QED
  BY <1>2, <1>6, <1>7 DEF Range

LEMMA ScheduleFits ==
    ASSUME NEW seed \in Int, NEW trial \in Nat PROVE DimsFit(Dims(seed, trial))
<1>1. {"kill_time", "ack_loss", "revision", "group_size"} \subseteq DOMAIN Levels
  BY FixtureAssumption
<1>2. \A d \in DOMAIN Levels : Dims(seed, trial)[d] \in Range(Levels[d])
  BY LevelFits DEF Dims
<1>3. /\ Dims(seed, trial).kill_time \in Range(Levels["kill_time"])
      /\ Dims(seed, trial).ack_loss \in Range(Levels["ack_loss"])
      /\ Dims(seed, trial).revision \in Range(Levels["revision"])
      /\ Dims(seed, trial).group_size \in Range(Levels["group_size"])
  BY <1>1, <1>2
<1> QED
  BY <1>3, FixtureAssumption, Spoken DEF DimsFit

LEMMA TrialExamined ==
    ASSUME NEW t, Judgeable(t) PROVE Examined(Run(t)[1], Run(t)[2])
<1>1. PICK cut, trial, dims : cut = t.cut /\ trial = t.trial /\ dims = Dims(t.seed, t.trial)
  OBVIOUS
<1>2. DimsFit(dims) /\ trial \in Nat
  BY <1>1, ScheduleFits DEF Judgeable
<1>3. cut \in {"R1", "R2", "R3", "R4", "R5", "Q0", "Q1", "L0", "L2", "L3", "C1", "C2"}
  BY <1>1, FixtureAssumption DEF Judgeable
<1>4. Run(t) = Fixture(cut, dims, trial, t.out)
  BY <1>1 DEF Run
<1>5. CASE cut = "R1"
  BY <1>2, <1>4, <1>5, R1Examined DEF Fixture
<1>6. CASE cut \in {"R2", "R3"}
  BY <1>2, <1>4, <1>6, MixedExamined DEF Fixture
<1>7. CASE cut = "R4"
  BY <1>4, <1>7, R4Examined DEF Fixture
<1>8. CASE cut = "R5"
  BY <1>4, <1>8, R5Examined DEF Fixture
<1>9. CASE cut = "Q0"
  BY <1>2, <1>4, <1>9, Q0Examined DEF Fixture
<1>10. CASE cut = "Q1"
  BY <1>2, <1>4, <1>10, Q1Examined DEF Fixture
<1>11. CASE cut \in {"L0", "L3"}
  BY <1>4, <1>11, MemoryExamined DEF Fixture
<1>12. CASE cut = "L2"
  BY <1>2, <1>4, <1>12, L2Examined DEF Fixture
<1>13. CASE cut = "C1"
  BY <1>2, <1>4, <1>13, C1Examined DEF Fixture
<1>14. CASE cut = "C2"
  BY <1>2, <1>4, <1>14, C2Examined DEF Fixture
<1> QED
  BY <1>3, <1>5, <1>6, <1>7, <1>8, <1>9, <1>10, <1>11, <1>12, <1>13, <1>14

(* What the oracle finds in the events of a trial, as they are or with a defect, is what
   is wrong with them.                                                                  *)
LEMMA DefectsFound ==
    ASSUME NEW t, Judgeable(t), NEW events \in Defects(Run(t)[1])
    PROVE  Violations(events, Run(t)[2]) = {} <=> Atomic(events, Run(t)[2])
<1>1. PICK run, auth : run = Run(t)[1] /\ auth = Run(t)[2]
  OBVIOUS
<1>2. run \in Seq(Entry) /\ Distinct(auth) /\ (auth.steps = {} => run \in Seq(Quiet))
  BY <1>1, TrialExamined DEF Examined
<1>3. events \in Seq(Entry)
  <2>1. \A e \in Entry : \A f \in Changed(e) : f \in Entry
    BY ChangedLike DEF Like
  <2> QED
    BY <1>1, <1>2, <2>1, DefectsKeep
<1>4. ASSUME auth.steps = {} PROVE Commits(events) = {}
  <2>1. \A e \in Quiet : \A f \in Changed(e) : f \in Quiet
    BY ChangedQuiet
  <2>2. events \in Seq(Quiet)
    BY <1>1, <1>2, <1>4, <2>1, DefectsKeep
  <2> QED
    BY <1>3, <2>2, EntriesLegible
<1>5. Legible(events)
  BY <1>3, EntriesLegible
<1> QED
  BY <1>1, <1>2, <1>4, <1>5, TraceOracleExact

-----------------------------------------------------------------------------
(* The trials in the event log of a directory are trials of the schedule. *)
JudgedLog(q) == Listing(q) /\ \A n \in 1 .. Len(q) : Judgeable(q[n])
FilesInv ==
    /\ \A r \in Runner : job[r].seed \in Int
    /\ \A i \in DOMAIN dirs : JudgedLog(dirs[i].events)

LEMMA NextJudgeable ==
    ASSUME NEW r \in Runner, RunTrial(r), NEW t, Key(t) = Due(r, job[r].next), t.seed = job[r].seed,
           job[r].seed \in Int, job[r].next \in Nat \ {0}
    PROVE  Judgeable(t)
<1>1. PICK mode, n, p : mode = job[r].mode /\ n = job[r].next - 1 /\ p = PerCut(mode)
  OBVIOUS
<1>2. n \in Nat /\ p \in Nat \ {0} /\ n < Len(Cuts) * p
  <2>1. job[r].next <= Trials(mode) /\ Trials(mode) \in Nat /\ Trials(mode) = Len(Cuts) * p
    BY <1>1, TrialsNat DEF RunTrial, Trials
  <2>2. n < Trials(mode)
    BY <1>1, <2>1
  <2> QED
    BY <1>1, <2>1, <2>2, PerCutPositive
<1>3. t.cut = Cuts[(n \div p) + 1] /\ t.trial = n % p
  BY <1>1 DEF Key, Due, CutAt, TrialAt
<1>4. n \div p < Len(Cuts)
  BY <1>2, CutsDiffer, QuotientBelow
<1>5. n \div p \in Nat /\ n % p \in Nat
  <2>1. n \div p \in Nat /\ n % p \in 0 .. p - 1
    BY <1>2, Division
  <2>2. \A m \in 0 .. p - 1 : m \in Nat
    BY <1>2
  <2> QED
    BY <2>1, <2>2, Zenon
<1>6. PICK k : k = (n \div p) + 1
  OBVIOUS
<1>7. k \in 1 .. Len(Cuts) /\ t.cut = Cuts[k]
  BY <1>3, <1>4, <1>5, <1>6, CutsDiffer
<1>8. t.cut \in Range(Cuts)
  BY <1>7, CutsDiffer DEF Range
<1> QED
  BY <1>3, <1>5, <1>8 DEF Judgeable

LEMMA SeedsKept ==
    ASSUME Shapes, JobInv, FilesInv, [TraceNext]_traceVars, NEW r \in Runner PROVE job'[r].seed \in Int
<1>1. job[r].seed \in Int
  BY DEF FilesInv
<1>2. ASSUME Starts(r) PROVE job'[r].seed \in Int
  BY <1>2, CampaignAssumption DEF Starts
<1>3. ASSUME Identifies(r) \/ Opens(r) \/ Judged(r) \/ Goes(r) PROVE job'[r].seed \in Int
  BY <1>1, <1>3 DEF Identifies, Opens, Judged, Goes, Same, JobFields
<1> QED
  BY <1>1, <1>2, <1>3, RunnersStep DEF Moves

LEMMA LogExtended ==
    ASSUME NEW q, JudgedLog(q), NEW t, Judgeable(t) PROVE JudgedLog(Append(q, t))
<1>1. /\ Listing(Append(q, t)) /\ Len(Append(q, t)) = Len(q) + 1
      /\ \A i \in 1 .. Len(q) : Append(q, t)[i] = q[i]
      /\ Append(q, t)[Len(q) + 1] = t
  BY AppendListing DEF JudgedLog
<1>2. PICK a, k : a = Append(q, t) /\ k = Len(q)
  OBVIOUS
<1>3. k \in Nat /\ Len(a) = k + 1
  BY <1>1, <1>2 DEF JudgedLog, Listing
<1>4. ASSUME NEW n \in 1 .. k + 1 PROVE Judgeable(a[n])
  <2>1. CASE n \in 1 .. k
    BY <1>1, <1>2, <2>1 DEF JudgedLog
  <2>2. CASE n = k + 1
    BY <1>1, <1>2, <2>2
  <2> QED
    BY <1>3, <2>1, <2>2
<1> QED
  BY <1>1, <1>2, <1>3, <1>4 DEF JudgedLog

LEMMA FilesKept ==
    ASSUME Shapes, JobInv, FilesInv, [TraceNext]_traceVars PROVE FilesInv'
<1>1. \A i \in DOMAIN dirs : JudgedLog(dirs[i].events)
  BY DEF FilesInv
<1>2. CASE DOMAIN dirs' = DOMAIN dirs /\ \A i \in DOMAIN dirs : dirs'[i].events = dirs[i].events
  BY <1>1, <1>2, SeedsKept DEF FilesInv, JudgedLog
<1>3. ASSUME NEW r \in Runner, NEW t, RunTrial(r), Judges(r, t) PROVE FilesInv'
  <2>1. Judgeable(t)
    BY <1>3, NextJudgeable DEF Judges, FilesInv, JobInv, JobFits
  <2>2. ASSUME NEW i \in DOMAIN dirs PROVE JudgedLog(dirs'[i].events)
    <3>1. CASE i = job[r].dir
      <4>1. dirs'[i].events = Append(dirs[i].events, t)
        BY <1>3, <3>1 DEF Judges
      <4> QED
        BY <1>1, <2>1, <4>1, LogExtended
    <3>2. CASE i # job[r].dir
      <4>1. dirs'[i].events = dirs[i].events
        BY <1>3, <3>2 DEF Judges
      <4> QED
        BY <1>1, <4>1
    <3> QED
      BY <3>1, <3>2
  <2>3. DOMAIN dirs' = DOMAIN dirs
    BY <1>3 DEF Judges, Keeps
  <2> QED
    BY <2>2, <2>3, SeedsKept DEF FilesInv, JudgedLog
<1>4. ASSUME NEW r \in Runner, dirs' = Append(dirs, NewDir(r)) PROVE FilesInv'
  <2>1. PICK k : k = Len(dirs) + 1
    OBVIOUS
  <2>2. /\ \A i \in DOMAIN dirs : dirs'[i].events = dirs[i].events
        /\ dirs'[k].events = <<>> /\ DOMAIN dirs' = DOMAIN dirs \union {k}
    BY <1>4, <2>1, Extended, Made DEF Shapes, Listing
  <2>3. JudgedLog(<<>>)
    BY DEF JudgedLog, Listing
  <2>4. \A i \in DOMAIN dirs' : JudgedLog(dirs'[i].events)
    BY <1>1, <2>2, <2>3
  <2> QED
    BY <2>4, SeedsKept DEF FilesInv, JudgedLog
<1>5. \/ DOMAIN dirs' = DOMAIN dirs /\ \A i \in DOMAIN dirs : dirs'[i].events = dirs[i].events
      \/ \E r \in Runner : \E t : RunTrial(r) /\ Judges(r, t)
      \/ \E r \in Runner : dirs' = Append(dirs, NewDir(r))
  BY DirsStep DEF KeepsAll, Keeps, Reports
<1> QED
  BY <1>2, <1>3, <1>4, <1>5

LEMMA InitFiles == TraceInit => FilesInv
<1> SUFFICES ASSUME TraceInit PROVE FilesInv
  OBVIOUS
<1>1. DOMAIN dirs = {}
  BY DEF TraceInit
<1>2. \A r \in Runner : job[r].seed = 0
  BY DEF TraceInit, NoJob
<1> QED
  BY <1>1, <1>2 DEF FilesInv

(* However the runners of a directory start, mix or die: every trial in the event log of
   every directory is a trial of the schedule, at a cut point the fixtures are written
   for.                                                                                *)
THEOREM FilesInvariant == TraceSpec => []FilesInv
<1>1. TraceInv /\ FilesInv /\ [TraceNext]_traceVars => FilesInv'
  BY FilesKept DEF TraceInv
<1> QED
  BY <1>1, InitFiles, TraceInvariant, PTL DEF TraceSpec

(* The oracle is exact for every trial of every directory, and for its events with any
   single defect.                                                                      *)
LEMMA EveryTrialExact ==
    ASSUME FilesInv, NEW i \in DOMAIN dirs, NEW n \in 1 .. Len(dirs[i].events),
           NEW events \in Defects(Run(dirs[i].events[n])[1])
    PROVE  Violations(events, Run(dirs[i].events[n])[2]) = {} <=> Atomic(events, Run(dirs[i].events[n])[2])
<1>1. PICK t : t = dirs[i].events[n]
  OBVIOUS
<1>2. Judgeable(t)
  BY <1>1 DEF FilesInv, JudgedLog
<1> QED
  BY <1>1, <1>2, DefectsFound

(* What classify_event_log says of the trial just judged, as it is or with any single
   defect, is what is wrong with it: at every cut point, of every schedule, for groups
   of every size.                                                                      *)
THEOREM TrialsExact == TraceSpec => []OracleIsExact
<1>1. ASSUME Shapes, FilesInv PROVE OracleIsExact
  <2> SUFFICES ASSUME Len(dirs) = 1, dirs[1].events # <<>>,
                      NEW run, run = Run(Last(dirs[1].events)), NEW events \in Defects(run[1])
               PROVE  Violations(events, run[2]) = {} <=> Atomic(events, run[2])
    BY DEF OracleIsExact
  <2>1. PICK q, n : q = dirs[1].events /\ n = Len(q)
    OBVIOUS
  <2>2. 1 \in DOMAIN dirs
    BY <1>1, ListingIsSeq DEF Shapes
  <2>3. n \in Nat /\ q = [i \in 1 .. n |-> q[i]]
    BY <1>1, <2>1, <2>2 DEF FilesInv, JudgedLog, Listing
  <2>4. n # 0
    <3> SUFFICES ASSUME n = 0 PROVE FALSE
      OBVIOUS
    <3>1. q = <<>>
      BY <2>3
    <3> QED
      BY <2>1, <3>1
  <2>5. n \in 1 .. Len(dirs[1].events) /\ Last(dirs[1].events) = dirs[1].events[n]
    BY <2>1, <2>3, <2>4 DEF Last
  <2> QED
    BY <1>1, <2>2, <2>5, EveryTrialExact
<1> QED
  BY <1>1, TraceInvariant, FilesInvariant, PTL DEF TraceInv
=============================================================================
