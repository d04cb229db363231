-------------------------- MODULE ContainerRunProofs --------------------------
(***************************************************************************)
(* What the exit proof rests on, whatever forks, dies or fails: a process  *)
(* is admitted with an ancestry that was there at one moment, targets are  *)
(* killed in the order of the schedule with their waiters at the barrier,  *)
(* and a success of the supervisor is a clean end of all of it.            *)
(***************************************************************************)
EXTENDS ContainerRun, WellFoundedInduction, TLAPS

(* The launcher is there as long as the controller is, and nothing started later than
   what was counted.                                                               *)
ProcessInv ==
    /\ Running => proc[Launcher] # None /\ Is(Root)
    /\ \A p \in Pid : proc[p] # None => proc[p].start <= forks
    /\ pc \in {"off", "ended"} => \A p \in Pid : proc[p] = None

(* The links that were read are those of started processes, and only the launcher's may
   have PID 1 for a parent; a chain that was not whole at its last reading has a link
   that is gone among those that are still to be read again.                         *)
ChainInv ==
    /\ pc \in {"lineage", "recheck", "admit"} =>
          /\ reg.who # None /\ reg.message # None /\ reg.message.kind = "register"
          /\ \A i \in DOMAIN reg.chain :
                reg.chain[i] = Root \/ (reg.chain[i].ppid # 1 /\ reg.chain[i].start <= forks)
    /\ pc = "lineage" => reg.next \in Pid
    /\ pc = "recheck" =>
          /\ Again \in DOMAIN reg.chain
          /\ reg.held \/ \E j \in 1 .. Again : ~Is(reg.chain[j])

(* What was sent after the registration is of a registered process. *)
EntryInv == \A who \in Process :
    /\ client[who].at # None => Registered(who)
    /\ \A i \in DOMAIN client[who].sent : client[who].sent[i].kind # "register" => Registered(who)

(* Before its target is killed, nobody was released from an event, and who is ready for
   it or has said so stands at it.                                                    *)
BarrierInv == \A e \in Event : state[e].phase = "waiting" => \A who \in Process :
    /\ client[who].freed # e
    /\ \A i \in DOMAIN client[who].sent :
          client[who].sent[i].kind = "ready" /\ client[who].sent[i].event = e => client[who].at = e
    /\ \A r \in Role : state[e].ready[r] = who => client[who].at = e

(* The event the controller is busy with *)
CurrentInv ==
    /\ pc \in {"armed", "sent", "release"} => Pending # {}
    /\ pc \in {"armed", "sent"} =>
          /\ state[Current].phase = "waiting"
          /\ \A r \in Waiters[Current] : state[Current].ready[r] # None
    /\ pc = "release" => state[Current].phase = "releasing"

(* The events that were shot are the first ones of the schedule, and no others have left
   the barrier; the last one is still at it until its target is seen to be gone.       *)
OrderInv ==
    /\ Len(shots) <= Len(Schedule)
    /\ \A i \in DOMAIN shots : shots[i][1] = Schedule[i]
    /\ pc \notin {"sent", "ended"} => \A i \in DOMAIN Schedule :
          state[Schedule[i]].phase = "waiting" <=> Len(shots) < i
    /\ pc = "sent" =>
          /\ 0 < Len(shots)
          /\ \A i \in DOMAIN Schedule : state[Schedule[i]].phase = "waiting" <=> Len(shots) <= i
    /\ pc # "ended" => result = "none"
    /\ result = "execution_complete" => Len(shots) = Len(Schedule)

NsInv == NsTypeOK /\ ProcessInv /\ ChainInv /\ EntryInv /\ BarrierInv /\ CurrentInv /\ OrderInv

(* Where the supervisor is, and what the daemon has *)
BoxInv ==
    /\ box \in {"none", "created"} => pc = "off"
    /\ box = "removed" => pc \in {"off", "ended"}
    /\ At("create") => box = "none"
    /\ At("start") => box = "created"
    /\ At("stop") \/ At("kill") => box = "started"
    /\ starting => ~At("create") /\ ~At("start")

FindingsInv ==
    /\ sup.pc \notin {"remove", "result", "done"} => ~sup.clean
    /\ sup.clean /\ ~sup.errors /\ ~sup.failure => ExitZero
    /\ sup.pc \in {"result", "done"} /\ sup.clean /\ ~sup.errors => box = "removed"

-----------------------------------------------------------------------------
(* The first of some indices *)
LEMMA FirstOf ==
    ASSUME NEW T \in SUBSET Nat, T # {}
    PROVE  \E i \in T : \A j \in T : i <= j
<1>1. PICK i \in T : \A j \in T : ~ (<<j, i>> \in OpToRel(<, Nat))
  BY WFMin, NatLessThanWellFounded
<1>2. \A j \in T : ~ (j < i)
  BY <1>1 DEF OpToRel
<1> QED
  BY <1>2

(* The current event is the first one of the schedule that is not released. *)
LEMMA CurrentIsFirst ==
    ASSUME Pending # {}
    PROVE  \E c \in DOMAIN Schedule :
             /\ c \in Pending /\ Current = Schedule[c] /\ Current \in Event
             /\ \A j \in DOMAIN Schedule : j < c => state[Schedule[j]].phase = "released"
<1> DEFINE c == CHOOSE i \in Pending : \A j \in Pending : i <= j
<1>1. Schedule \in Seq(Event) /\ DOMAIN Schedule = 1 .. Len(Schedule) /\ Len(Schedule) \in Nat
  BY NamespaceAssumption
<1>2. Pending \in SUBSET Nat
  BY <1>1 DEF Pending
<1>3. c \in Pending /\ \A j \in Pending : c <= j
  BY <1>2, FirstOf
<1>4. c \in DOMAIN Schedule /\ Current = Schedule[c]
  BY <1>3 DEF Pending, Current, First
<1>5. Current \in Event
  BY <1>1, <1>4
<1>6. ASSUME NEW j \in DOMAIN Schedule, j < c PROVE state[Schedule[j]].phase = "released"
  <2>1. c \in Nat /\ j \in Nat
    BY <1>1, <1>4
  <2>2. j \notin Pending
    BY <1>3, <1>6, <2>1
  <2> QED
    BY <2>2 DEF Pending
<1> QED
  BY <1>3, <1>4, <1>5, <1>6

LEMMA ScheduleFacts ==
    /\ \A i \in DOMAIN Schedule : Schedule[i] \in Event
    /\ \A e \in Event : \E i \in DOMAIN Schedule : e = Schedule[i]
    /\ \A i, j \in DOMAIN Schedule : Schedule[i] = Schedule[j] => i = j
    /\ Schedule \in Seq(Event) /\ DOMAIN Schedule = 1 .. Len(Schedule) /\ Len(Schedule) \in Nat
    /\ None \notin Event /\ None \notin Nat /\ None \notin Role /\ None \notin Process
    /\ None \notin Proc /\ None \notin Message
    /\ Launcher \in Pid /\ Pid \subseteq Nat /\ 1 \notin Pid /\ 0 \notin Pid
    /\ Process \subseteq Nat /\ 1 \in Process
BY NamespaceAssumption DEF Event, Range, IsInjective, Process

LEMMA SchedulePending ==
    ASSUME NEW e \in Event, NsTypeOK, state[e].phase # "released"
    PROVE  Pending # {}
BY ScheduleFacts DEF Pending

(* What every blank record holds *)
LEMMA Blanks ==
    /\ NoClient \in Client /\ NoClient.at = None /\ NoClient.sent = <<>> /\ NoClient.freed = None
    /\ NoReg \in Registration
    /\ NoState \in EventState /\ NoState.phase = "waiting"
    /\ \A r \in Role : NoState.ready[r] = None
    /\ Roots \in Proc
BY ScheduleFacts DEF NoClient, NoReg, NoState, Roots, Client, Registration, EventState, Holders,
                     Proc

LEMMA PidOfTyped ==
    ASSUME NEW who, Exists(who)
    PROVE  PidOf(who) \in Pid /\ proc[PidOf(who)] # None /\ proc[PidOf(who)].start = who
BY DEF Exists, PidOf

LEMMA EntryOfTyped ==
    ASSUME NsTypeOK, NEW who, Registered(who)
    PROVE  EntryOf(who) \in entries /\ EntryOf(who) \in Entry /\ EntryOf(who).role \in Role
BY DEF Registered, EntryOf, NsTypeOK, Entry

(* The namespace takes its processes with it. *)
LEMMA EndBlank ==
    ASSUME NEW v, End(v)
    PROVE  /\ \A p \in Pid : proc'[p] = None
           /\ \A who \in Process : client'[who] = NoClient
           /\ \A e \in Event : state'[e] = NoState
           /\ reg' = NoReg /\ entries' = {} /\ pc' = "ended" /\ result' = v /\ shots' = shots
BY DEF End, Blank, Goto

LEMMA EndTyped ==
    ASSUME NsTypeOK, NEW v \in {"none", "execution_complete", "technical_invalid"}, End(v)
    PROVE  NsTypeOK'
<1>1. /\ proc' \in [Pid -> {None} \union Proc] /\ client' \in [Process -> Client]
      /\ reg' \in Registration /\ active' \in Holders /\ state' \in [Event -> EventState]
  BY Blanks DEF End, Blank, Holders
<1> QED
  BY <1>1, NamespaceAssumption DEF NsTypeOK, End, Blank, Goto

(* Appending to a queue, and taking its head *)
LEMMA SequenceTyped ==
    ASSUME NEW S, NEW s \in Seq(S)
    PROVE  /\ \A x \in S : /\ Append(s, x) \in Seq(S) /\ DOMAIN Append(s, x) = 1 .. Len(s) + 1
                           /\ \A i \in DOMAIN s : Append(s, x)[i] = s[i]
                           /\ Append(s, x)[Len(s) + 1] = x
                           /\ DOMAIN s = 1 .. Len(s) /\ Len(s) \in Nat
           /\ s # <<>> => /\ Head(s) \in S /\ Tail(s) \in Seq(S) /\ 1 \in DOMAIN s /\ Head(s) = s[1]
                          /\ \A i \in DOMAIN Tail(s) : i + 1 \in DOMAIN s /\ Tail(s)[i] = s[i + 1]
OBVIOUS

-----------------------------------------------------------------------------
(* A process that ended *)
LEMMA EndedTyped ==
    ASSUME NsTypeOK, NEW p
    PROVE  /\ Ended(p) \in [Pid -> {None} \union Proc]
           /\ \A q \in Pid : proc[q] = None <=> Ended(p)[q] = None
           /\ \A q \in Pid : proc[q] # None =>
                /\ Ended(p)[q].start = proc[q].start
                /\ Ended(p)[q].ppid = proc[q].ppid \/ Ended(p)[q].ppid = 1
<1>1. ASSUME NEW q \in Pid, proc[q] # None
      PROVE  /\ Ended(p)[q] \in Proc /\ Ended(p)[q].start = proc[q].start
             /\ Ended(p)[q].ppid = proc[q].ppid \/ Ended(p)[q].ppid = 1
  <2>1. proc[q] \in Proc
    BY <1>1 DEF NsTypeOK
  <2>2. Ended(p)[q] = [proc[q] EXCEPT !.zombie = @ \/ q = p, !.ppid = IF @ = p THEN 1 ELSE @]
    BY <1>1 DEF Ended
  <2> QED
    BY <2>1, <2>2 DEF Proc
<1>2. \A q \in Pid : proc[q] = None => Ended(p)[q] = None
  BY DEF Ended
<1>3. \A q \in Pid : Ended(p)[q] \in {None} \union Proc
  BY <1>1, <1>2
<1>4. Ended(p) \in [Pid -> {None} \union Proc]
  BY <1>3 DEF Ended
<1> QED
  BY <1>1, <1>2, <1>4, ScheduleFacts

(* A message of each kind *)
LEMMA MessageTyped ==
    /\ \A r \in Role, e \in Event \union {None} :
          [kind |-> "register", role |-> r, event |-> e] \in Message
    /\ \A e \in Event : /\ [kind |-> "ready", event |-> e] \in Message
                        /\ [kind |-> "released", event |-> e] \in Message
    /\ \A m \in Message : /\ m.kind \in {"register", "ready", "released"}
                          /\ m.kind = "register" => m.role \in Role /\ m.event \in Event \union {None}
                          /\ m.kind # "register" => m.event \in Event
BY DEF Message

(* The message the controller takes *)
LEMMA TakenTyped ==
    ASSUME NsTypeOK, NEW who \in Process, NEW kind, Waits(who, kind), Taken(who)
    PROVE  /\ client' \in [Process -> Client] /\ pc = "loop"
           /\ Head1(who) \in Message /\ Head1(who).kind = kind
           /\ 1 \in DOMAIN client[who].sent /\ Head1(who) = client[who].sent[1]
<1>1. client[who] \in Client /\ client[who].sent \in Seq(Message) /\ client[who].sent # <<>>
  BY DEF NsTypeOK, Client, Waits
<1>2. Tail(client[who].sent) \in Seq(Message) /\ Head(client[who].sent) \in Message
      /\ 1 \in DOMAIN client[who].sent /\ Head(client[who].sent) = client[who].sent[1]
  BY <1>1, SequenceTyped
<1>3. [client[who] EXCEPT !.sent = Tail(@)] \in Client
  BY <1>1, <1>2 DEF Client
<1>4. client' = [client EXCEPT ![who] = [client[who] EXCEPT !.sent = Tail(@)]]
  BY DEF Taken
<1>5. client' \in [Process -> Client]
  BY <1>3, <1>4 DEF NsTypeOK
<1> QED
  BY <1>2, <1>5 DEF Head1, Waits

(* A process that takes the place of a role at an event *)
LEMMA AllocatedTyped ==
    ASSUME NEW st \in [Event -> EventState], NEW e, NEW r \in Role, NEW who \in Process
    PROVE  [st EXCEPT ![e].allocated[r] = who] \in [Event -> EventState]
<1>1. ASSUME NEW h \in Holders PROVE [h EXCEPT ![r] = who] \in Holders
  BY <1>1 DEF Holders
<1>2. CASE e \in Event
  <2> DEFINE h == [st[e].allocated EXCEPT ![r] = who]
             s == [st[e] EXCEPT !.allocated = h]
  <2>1. st[e] \in EventState /\ st[e].allocated \in Holders
    BY <1>2 DEF EventState
  <2>2. h \in Holders
    BY <1>1, <2>1
  <2>3. s \in EventState
    <3> HIDE DEF h
    <3> QED
      BY <2>1, <2>2 DEF EventState
  <2>4. [st EXCEPT ![e].allocated[r] = who] = [st EXCEPT ![e] = s]
    BY <1>2, <2>1
  <2> HIDE DEF s
  <2> QED
    BY <2>3, <2>4
<1>3. CASE e \notin Event
  BY <1>3
<1> QED
  BY <1>2, <1>3

(* A step of the namespace *)
NsStep == Boot \/ NsNext

LEMMA StepNsTyped ==
    ASSUME NsTypeOK, ChainInv, EntryInv, CurrentInv, NsStep
    PROVE  NsTypeOK'
<1>1. ASSUME NEW v \in {"none", "execution_complete", "technical_invalid"}, End(v)
      PROVE  NsTypeOK'
  BY <1>1, EndTyped
<1>2. ASSUME Fail PROVE NsTypeOK'
  BY <1>1, <1>2 DEF Fail
<1>3. ASSUME Boot PROVE NsTypeOK'
  <2>1. proc' \in [Pid -> {None} \union Proc]
    BY <1>3, Blanks DEF Boot, NsTypeOK
  <2> QED
    BY <1>3, <2>1, NamespaceAssumption DEF Boot, Goto, NsTypeOK
<1>4. ASSUME NEW p \in Pid, NEW q \in Pid, Fork(p, q) PROVE NsTypeOK'
  <2>1. forks' \in 0 .. MaxForks /\ forks' \in Process
    BY <1>4, NamespaceAssumption DEF Fork, NsTypeOK, Process
  <2>2. proc' \in [Pid -> {None} \union Proc]
    BY <1>4, <2>1 DEF Fork, NsTypeOK, Proc
  <2> QED
    BY <1>4, <2>1, <2>2 DEF Fork, NsTypeOK
<1>5. ASSUME NEW p \in Pid, Exit(p) PROVE NsTypeOK'
  BY <1>5, EndedTyped DEF Exit, NsTypeOK
<1>6. ASSUME NEW p \in Pid, Reap(p) PROVE NsTypeOK'
  BY <1>6 DEF Reap, NsTypeOK
<1>7. ASSUME NEW who \in Process, NEW ask \in Asks, Register(who, ask[1], ask[2]) PROVE NsTypeOK'
  <2>1. ask[1] \in Role /\ ask[2] \in Event \union {None}
    BY NamespaceAssumption
  <2> DEFINE m == [kind |-> "register", role |-> ask[1], event |-> ask[2]]
             c == [NoClient EXCEPT !.open = TRUE, !.sent = <<m>>]
  <2>2. <<m>> \in Seq(Message)
    BY <2>1, MessageTyped
  <2>3. c \in Client
    <3> HIDE DEF m
    <3> QED
      BY <2>2, Blanks DEF Client
  <2>4. client' = [client EXCEPT ![who] = c]
    BY <1>7 DEF Register
  <2>5. client' \in [Process -> Client]
    <3> HIDE DEF c
    <3> QED
      BY <2>3, <2>4 DEF NsTypeOK
  <2> QED
    BY <1>7, <2>5 DEF Register, NsTypeOK
<1>8. ASSUME NEW who \in Process, NEW e \in Event, Ready(who, e) PROVE NsTypeOK'
  <2> DEFINE m == [kind |-> "ready", event |-> e]
  <2>1. Append(client[who].sent, m) \in Seq(Message)
    <3>1. m \in Message /\ client[who].sent \in Seq(Message)
      BY MessageTyped DEF NsTypeOK, Client
    <3> HIDE DEF m
    <3> QED
      BY <3>1
  <2>2. client' = [client EXCEPT ![who] = [client[who] EXCEPT !.at = e, !.sent = Append(@, m)]]
    BY <1>8 DEF Ready, NsTypeOK, Client
  <2>3. [client[who] EXCEPT !.at = e, !.sent = Append(@, m)] \in Client
    <3> HIDE DEF m
    <3> QED
      BY <2>1 DEF NsTypeOK, Client
  <2>4. client' \in [Process -> Client]
    <3> HIDE DEF m
    <3> QED
      BY <2>2, <2>3 DEF NsTypeOK
  <2> QED
    BY <1>8, <2>4 DEF Ready, NsTypeOK
<1>9. ASSUME NEW who \in Process, Receipt(who) PROVE NsTypeOK'
  <2> DEFINE m == [kind |-> "released", event |-> client[who].at]
  <2>1. Append(client[who].sent, m) \in Seq(Message)
    <3>1. m \in Message /\ client[who].sent \in Seq(Message)
      BY <1>9, MessageTyped DEF NsTypeOK, Client, Receipt
    <3> HIDE DEF m
    <3> QED
      BY <3>1
  <2>2. client' = [client EXCEPT ![who] = [client[who] EXCEPT !.at = None, !.sent = Append(@, m)]]
    BY <1>9 DEF Receipt, NsTypeOK, Client
  <2>3. [client[who] EXCEPT !.at = None, !.sent = Append(@, m)] \in Client
    <3> HIDE DEF m
    <3> QED
      BY <2>1 DEF NsTypeOK, Client
  <2>4. client' \in [Process -> Client]
    <3> HIDE DEF m
    <3> QED
      BY <2>2, <2>3 DEF NsTypeOK
  <2> QED
    BY <1>9, <2>4 DEF Receipt, NsTypeOK
<1>10. ASSUME Interrupted \/ Crash \/ Complete \/ LauncherGone PROVE NsTypeOK'
  BY <1>1, <1>2, <1>10 DEF Interrupted, Crash, Complete, LauncherGone
<1>11. ASSUME NEW who \in Process, TakeRegister(who), ~Fail PROVE NsTypeOK'
  <2>1. Waits(who, "register") /\ Alive(who) /\ Taken(who)
    BY <1>11 DEF TakeRegister
  <2>2. client' \in [Process -> Client] /\ Head1(who) \in Message
    BY <2>1, TakenTyped
  <2>3. PidOf(who) \in Nat
    BY <2>1, PidOfTyped, ScheduleFacts DEF Alive
  <2>4. reg' \in Registration
    <3>1. reg' = [NoReg EXCEPT !.who = who, !.message = Head1(who), !.next = PidOf(who)]
      BY <1>11, <2>1 DEF TakeRegister
    <3> QED
      BY <2>2, <2>3, <3>1, Blanks DEF Registration
  <2> QED
    BY <1>11, <2>1, <2>2, <2>4 DEF TakeRegister, Goto, NsTypeOK
<1>12. ASSUME ReadUp, ~Fail PROVE NsTypeOK'
  <2> DEFINE link == Snapshot(reg.next)
             chain == Append(reg.chain, link)
  <2>1. proc[reg.next] # None /\ reg.next \in Pid
    BY <1>12 DEF ReadUp, ChainInv
  <2>2. link \in Link
    BY <2>1 DEF Snapshot, Link, Proc, NsTypeOK
  <2>3. chain \in Seq(Link)
    <3> HIDE DEF link
    <3> QED
      BY <2>2 DEF NsTypeOK, Registration
  <2>4. reg' = [reg EXCEPT !.chain = chain, !.next = IF reg.next = Launcher THEN None ELSE link.ppid,
                           !.held = \A i \in DOMAIN chain : Is(chain[i])]
    BY <1>12 DEF ReadUp
  <2>5. link.ppid \in Nat
    BY <2>2, ScheduleFacts DEF Link
  <2>6. reg' \in Registration
    <3> HIDE DEF link, chain
    <3> QED
      BY <2>3, <2>4, <2>5 DEF NsTypeOK, Registration
  <2> QED
    BY <1>12, <2>6 DEF ReadUp, Goto, NsTypeOK
<1>13. ASSUME Recheck, ~Fail PROVE NsTypeOK'
  <2>1. Again \in Nat /\ Again - 1 \in Nat
    BY <1>13, SequenceTyped DEF Recheck, ChainInv, NsTypeOK, Registration
  <2>2. reg' = [reg EXCEPT !.next = Again - 1]
    BY <1>13 DEF Recheck
  <2>3. reg' \in Registration
    BY <2>1, <2>2 DEF NsTypeOK, Registration
  <2> QED
    BY <1>13, <2>3 DEF Recheck, Goto, NsTypeOK
<1>14. ASSUME Admit, ~Fail PROVE NsTypeOK'
  <2> DEFINE m == reg.message
             who == reg.who
             x == [who |-> who, role |-> m.role, event |-> m.event, chain |-> reg.chain]
  <2>1. who \in Process /\ m \in Message /\ m.kind = "register"
    BY <1>14 DEF Admit, ChainInv, NsTypeOK, Registration
  <2>2. m.role \in Role /\ m.event \in Event \union {None}
    BY <2>1, MessageTyped
  <2>3. entries' \subseteq Entry
    BY <1>14, <2>1, <2>2 DEF Admit, NsTypeOK, Entry, Registration
  <2>4. active' \in Holders
    BY <1>14, <2>1, <2>2 DEF Admit, NsTypeOK, Holders
  <2>5. state' \in [Event -> EventState]
    <3> DEFINE e == m.event
               r == m.role
    <3>1. state' = state \/ state' = [state EXCEPT ![e].allocated[r] = who]
      BY <1>14 DEF Admit
    <3>2. state \in [Event -> EventState] /\ r \in Role /\ who \in Process
      BY <2>1, <2>2 DEF NsTypeOK
    <3> HIDE DEF m, who, e, r
    <3> QED
      BY <3>1, <3>2, AllocatedTyped
  <2>6. client' \in [Process -> Client]
    <3>1. client' = [client EXCEPT ![who].injection = Assignment(m)]
      BY <1>14 DEF Admit
    <3>2. Assignment(m) \in {None, "pending", "already_fired"}
      BY DEF Assignment
    <3> HIDE DEF m, who
    <3> QED
      BY <3>1, <3>2 DEF NsTypeOK, Client
  <2> QED
    BY <1>14, <2>3, <2>4, <2>5, <2>6, Blanks DEF Admit, Goto, NsTypeOK
<1>15. ASSUME NEW who \in Process, TakeReady(who), ~Fail PROVE NsTypeOK'
  <2> DEFINE e == Head1(who).event
             role == EntryOf(who).role
  <2>1. Waits(who, "ready") /\ Taken(who) /\ state' = [state EXCEPT ![e].ready[role] = who]
    BY <1>15 DEF TakeReady
  <2>2. client' \in [Process -> Client]
    BY <2>1, TakenTyped
  <2>3. state' \in [Event -> EventState]
    <3> HIDE DEF e, role
    <3> QED
      BY <2>1 DEF NsTypeOK, EventState, Holders
  <2> QED
    BY <1>15, <2>2, <2>3 DEF TakeReady, NsTypeOK
<1>16. ASSUME NEW who \in Process, TakeReceipt(who), ~Fail PROVE NsTypeOK'
  <2> DEFINE e == Head1(who).event
             role == EntryOf(who).role
             receipt == state[e].receipt \union {role}
  <2>1. /\ Waits(who, "released") /\ Taken(who)
        /\ state' = [state EXCEPT ![e].receipt = receipt,
                        ![e].phase = IF receipt = Others(e) THEN "released" ELSE @]
    BY <1>16 DEF TakeReceipt
  <2>2. /\ client' \in [Process -> Client] /\ e \in Event
        /\ 1 \in DOMAIN client[who].sent /\ client[who].sent[1].kind = "released"
    BY <2>1, TakenTyped, MessageTyped
  <2>3. role \in Role
    BY <2>2, EntryOfTyped DEF EntryInv
  <2>4. receipt \in SUBSET Role
    BY <2>2, <2>3 DEF NsTypeOK, EventState
  <2>5. state' \in [Event -> EventState]
    <3> HIDE DEF e, role, receipt
    <3> QED
      BY <2>1, <2>2, <2>4 DEF NsTypeOK, EventState
  <2> QED
    BY <1>16, <2>2, <2>5 DEF TakeReceipt, NsTypeOK
<1>17. ASSUME NEW who \in Process, TakeEof(who), ~Fail PROVE NsTypeOK'
  <2>1. client' \in [Process -> Client]
    <3>1. PICK c : c = [client[who] EXCEPT !.open = FALSE]
      OBVIOUS
    <3>2. c \in Client
      BY <3>1 DEF NsTypeOK, Client
    <3>3. client' = [client EXCEPT ![who] = c]
      BY <1>17, <3>1 DEF TakeEof, NsTypeOK
    <3> QED
      BY <3>2, <3>3 DEF NsTypeOK
  <2> QED
    BY <1>17, <2>1 DEF TakeEof, NsTypeOK
<1>18. ASSUME Arm, ~Fail PROVE NsTypeOK'
  BY <1>18 DEF Arm, Goto, NsTypeOK
<1>19. ASSUME Kill, ~Fail PROVE NsTypeOK'
  <2> DEFINE e == Current
             who == state[e].ready[Target[e]]
  <2>1. e \in Event
    BY <1>19, CurrentIsFirst DEF Kill, CurrentInv
  <2>2. Target[e] \in Waiters[e] /\ Target[e] \in Role
    BY <2>1, NamespaceAssumption
  <2>3. who \in Process
    BY <1>19, <2>1, <2>2 DEF Kill, CurrentInv, NsTypeOK, EventState, Holders
  <2>4. shots' \in Seq(Event \X Process)
    <3>1. shots' = Append(shots, <<e, who>>)
      BY <1>19 DEF Kill
    <3>2. <<e, who>> \in Event \X Process
      BY <2>1, <2>3
    <3> HIDE DEF e, who
    <3> QED
      BY <3>1, <3>2 DEF NsTypeOK
  <2>5. proc' \in [Pid -> {None} \union Proc]
    BY <1>19, EndedTyped DEF Kill, NsTypeOK
  <2> QED
    BY <1>19, <2>4, <2>5 DEF Kill, Goto, NsTypeOK
<1>20. ASSUME ObserveExit PROVE NsTypeOK'
  <2>1. Current \in Event
    BY <1>20, CurrentIsFirst DEF ObserveExit, CurrentInv
  <2>2. Others(Current) \subseteq Role
    BY <2>1, NamespaceAssumption DEF Others
  <2>3. state' \in [Event -> EventState]
    BY <1>20 DEF ObserveExit, NsTypeOK, EventState
  <2> QED
    BY <1>20, <2>2, <2>3 DEF ObserveExit, Goto, NsTypeOK
<1>21. ASSUME NEW r \in Role, ReleaseWaiter(r), ~Fail PROVE NsTypeOK'
  <2>1. Current \in Event
    BY <1>21, CurrentIsFirst DEF ReleaseWaiter, CurrentInv
  <2>2. client' \in [Process -> Client]
    <3> DEFINE e == Current
               who == state[e].ready[r]
    <3>1. client' = [client EXCEPT ![who].freed = e]
      BY <1>21 DEF ReleaseWaiter
    <3> HIDE DEF e, who
    <3>2. e \in Event
      BY <2>1 DEF e
    <3> QED
      BY <3>1, <3>2 DEF NsTypeOK, Client
  <2> QED
    BY <1>21, <2>2 DEF ReleaseWaiter, Goto, NsTypeOK
<1> QED
  BY <1>2, <1>3, <1>4, <1>5, <1>6, <1>7, <1>8, <1>9, <1>10, <1>11, <1>12, <1>13, <1>14, <1>15,
     <1>16, <1>17, <1>18, <1>19, <1>20, <1>21 DEF NsStep, NsNext, Controller, Step

-----------------------------------------------------------------------------
(* What a step does to the processes *)
LEMMA ProcSteps ==
    ASSUME NsTypeOK, ProcessInv, NsStep
    PROVE  \/ Boot
           \/ \E v : End(v)
           \/ \E p, q \in Pid : Fork(p, q)
           \/ \E p \in Pid : Reap(p)
           \/ /\ \E p : proc' = Ended(p)
              /\ UNCHANGED forks /\ Running /\ Running'
           \/ UNCHANGED <<proc, forks>> /\ Running /\ Running'
<1> DEFINE Kept == UNCHANGED <<proc, forks>> /\ Running /\ Running'
           Goal == \/ \E v : End(v)
                   \/ \E p : proc' = Ended(p) /\ UNCHANGED forks /\ Running /\ Running'
                   \/ Kept
<1>1. ASSUME NEW who, Alive(who) PROVE Running
  BY <1>1, PidOfTyped DEF Alive, ProcessInv, Running
<1>2. ASSUME Fail PROVE Goal
  BY <1>2 DEF Fail
<1>3. ASSUME NEW p \in Pid, Exit(p) PROVE Goal
  BY <1>3 DEF Exit, ProcessInv, Running
<1>4. ASSUME NEW who \in Process, NEW ask \in Asks, Register(who, ask[1], ask[2]) PROVE Kept
  BY <1>4 DEF Register, Running
<1>5. ASSUME NEW who \in Process, NEW e \in Event, Ready(who, e) PROVE Kept
  BY <1>5 DEF Ready, Running
<1>6. ASSUME NEW who \in Process, Receipt(who) PROVE Kept
  BY <1>1, <1>6 DEF Receipt, Running
<1>7. ASSUME Interrupted \/ Crash \/ Complete \/ LauncherGone PROVE Goal
  BY <1>2, <1>7 DEF Interrupted, Crash, Complete, LauncherGone
<1>8. ASSUME NEW who \in Process, Step(who), ~Fail PROVE Kept
  BY <1>8 DEF Step, TakeRegister, TakeReady, TakeReceipt, TakeEof, Waits, Goto, Running
<1>9. ASSUME ReadUp \/ Recheck \/ Admit \/ Arm \/ ObserveExit, ~Fail PROVE Kept
  BY <1>9 DEF ReadUp, Recheck, Admit, Arm, ObserveExit, Goto, Running
<1>10. ASSUME NEW r \in Role, ReleaseWaiter(r), ~Fail PROVE Kept
  BY <1>10 DEF ReleaseWaiter, Goto, Running
<1>11. ASSUME Kill, ~Fail PROVE Goal
  BY <1>11 DEF Kill, Goto, Running
<1> QED
  BY <1>2, <1>3, <1>4, <1>5, <1>6, <1>7, <1>8, <1>9, <1>10, <1>11 DEF NsStep, NsNext, Controller

LEMMA StepProcesses ==
    ASSUME NsTypeOK, ProcessInv, NsStep
    PROVE  ProcessInv'
<1> USE ScheduleFacts
<1>1. ASSUME Boot PROVE ProcessInv'
  <2>1. proc \in [Pid -> {None} \union Proc] /\ \A p \in Pid : proc[p] = None
    BY <1>1 DEF Boot, ProcessInv, NsTypeOK
  <2>2. CASE proc' = [proc EXCEPT ![Launcher] = Roots] /\ forks' = 1 /\ pc' = "loop"
    <3>1. proc'[Launcher] = Roots /\ \A p \in Pid : p # Launcher => proc'[p] = None
      BY <2>1, <2>2
    <3>2. Roots # None /\ Roots.start = 1 /\ Roots.ppid = 1
      BY Blanks DEF Roots
    <3> QED
      BY <2>2, <3>1, <3>2 DEF ProcessInv, Running, Is, Snapshot, Root
  <2>3. CASE UNCHANGED <<proc, forks>> /\ pc' = "ended"
    BY <2>1, <2>3 DEF ProcessInv, Running
  <2> QED
    BY <1>1, <2>2, <2>3 DEF Boot, Goto
<1>2. ASSUME NEW v, End(v) PROVE ProcessInv'
  BY <1>2, EndBlank DEF ProcessInv, Running
<1>3. ASSUME NEW p \in Pid, NEW q \in Pid, Fork(p, q) PROVE ProcessInv'
  <2>1. Running /\ q # Launcher /\ UNCHANGED pc
    BY <1>3 DEF Fork, ProcessInv, Running
  <2>2. /\ \A x \in Pid : x # q => proc'[x] = proc[x]
        /\ proc'[q].start = forks'
        /\ forks \in Nat /\ forks' = forks + 1
    BY <1>3 DEF Fork, NsTypeOK
  <2>3. \A x \in Pid : proc[x] # None => proc[x].start \in Nat
    BY DEF NsTypeOK, Proc
  <2> QED
    BY <2>1, <2>2, <2>3 DEF ProcessInv, Running, Is, Snapshot, Root
<1>4. ASSUME NEW p \in Pid, Reap(p) PROVE ProcessInv'
  <2>1. Running
    BY <1>4 DEF Reap, ProcessInv, Running
  <2>2. p # Launcher
    BY <1>4, <2>1 DEF Reap, ProcessInv, Is, Snapshot, Root
  <2>3. \A x \in Pid : proc'[x] = IF x = p THEN None ELSE proc[x]
    BY <1>4 DEF Reap, NsTypeOK
  <2> QED
    BY <1>4, <2>1, <2>2, <2>3 DEF Reap, ProcessInv, Running, Is, Snapshot, Root
<1>5. ASSUME NEW p, proc' = Ended(p), UNCHANGED forks, Running, Running' PROVE ProcessInv'
  <2>1. \A q \in Pid : /\ proc[q] = None <=> proc'[q] = None
                       /\ proc[q] # None => /\ proc'[q].start = proc[q].start
                                            /\ proc'[q].ppid = proc[q].ppid \/ proc'[q].ppid = 1
    BY <1>5, EndedTyped
  <2>2. Is(Root)'
    BY <1>5, <2>1 DEF ProcessInv, Is, Snapshot, Root
  <2> QED
    BY <1>5, <2>1, <2>2 DEF ProcessInv, Running
<1>6. ASSUME UNCHANGED <<proc, forks>>, Running, Running' PROVE ProcessInv'
  BY <1>6 DEF ProcessInv, Running, Is, Snapshot
<1> QED
  BY <1>1, <1>2, <1>3, <1>4, <1>5, <1>6, ProcSteps

(* A link that is gone does not come back, and nothing is older than it was. *)
LEMMA LinksStayGone ==
    ASSUME NsTypeOK, ProcessInv, NsStep, Running, pc' # "ended"
    PROVE  /\ forks \in Nat /\ forks' \in Nat /\ forks <= forks'
           /\ \A link \in Link :
                link.ppid # 1 /\ link.start <= forks /\ ~Is(link) => ~Is(link)'
<1> USE ScheduleFacts
<1> DEFINE Goal == /\ forks \in Nat /\ forks' \in Nat /\ forks <= forks'
                   /\ \A link \in Link :
                        link.ppid # 1 /\ link.start <= forks /\ ~Is(link) => ~Is(link)'
<1>0. forks \in Nat
  BY DEF NsTypeOK
<1>1. ASSUME NEW p \in Pid, NEW q \in Pid, Fork(p, q) PROVE Goal
  <2>1. forks' = forks + 1 /\ proc' = [proc EXCEPT ![q] = [start |-> forks', ppid |-> p, zombie |-> FALSE]]
    BY <1>1 DEF Fork
  <2>2. \A x \in Pid : x # q => proc'[x] = proc[x]
    BY <2>1 DEF NsTypeOK
  <2>3. proc'[q].start = forks'
    BY <2>1 DEF NsTypeOK
  <2>4. ASSUME NEW link \in Link, link.start <= forks, ~Is(link) PROVE ~Is(link)'
    <3>1. link.pid \in Pid /\ link.start \in Nat
      BY DEF Link
    <3>2. CASE link.pid = q
      BY <1>0, <2>1, <2>3, <2>4, <3>1, <3>2 DEF Is, Snapshot
    <3>3. CASE link.pid # q
      BY <2>2, <2>4, <3>1, <3>3 DEF Is, Snapshot
    <3> QED
      BY <3>2, <3>3
  <2> QED
    BY <1>0, <2>1, <2>4
<1>2. ASSUME NEW p \in Pid, Reap(p) PROVE Goal
  <2>1. UNCHANGED forks /\ \A x \in Pid : proc'[x] = proc[x] \/ proc'[x] = None
    BY <1>2 DEF Reap, NsTypeOK
  <2>2. ASSUME NEW link \in Link, Is(link)' PROVE Is(link)
    <3>1. link.pid \in Pid
      BY DEF Link
    <3> QED
      BY <2>1, <2>2, <3>1 DEF Is, Snapshot
  <2> QED
    BY <1>0, <2>1, <2>2
<1>3. ASSUME NEW p, proc' = Ended(p), UNCHANGED forks PROVE Goal
  <2>1. \A q \in Pid : /\ proc[q] = None <=> proc'[q] = None
                       /\ proc[q] # None => /\ proc'[q].start = proc[q].start
                                            /\ proc'[q].ppid = proc[q].ppid \/ proc'[q].ppid = 1
    BY <1>3, EndedTyped
  <2>2. ASSUME NEW link \in Link, link.ppid # 1, Is(link)' PROVE Is(link)
    BY <2>1, <2>2 DEF Is, Snapshot, Link
  <2> QED
    BY <1>0, <1>3, <2>2
<1>4. ASSUME UNCHANGED <<proc, forks>> PROVE Goal
  BY <1>0, <1>4 DEF Is, Snapshot
<1>5. ~Boot /\ ~ \E v : End(v)
  BY DEF Boot, End, Goto, Running
<1> QED
  BY <1>1, <1>2, <1>3, <1>4, <1>5, ProcSteps

-----------------------------------------------------------------------------
(* What a step does to the registration that is being validated *)
Chained == {"lineage", "recheck", "admit"}

LEMMA ChainSteps ==
    ASSUME NsTypeOK, ProcessInv, NsStep, pc' \in Chained
    PROVE  \/ UNCHANGED <<pc, reg>>
           \/ \E who \in Process : TakeRegister(who) /\ ~Fail
           \/ ReadUp /\ ~Fail
           \/ Recheck /\ ~Fail
<1> DEFINE Kept == UNCHANGED <<pc, reg>>
<1>1. ASSUME Boot \/ \E v : End(v) PROVE FALSE
  BY <1>1 DEF Boot, End, Goto, Chained
<1>2. ~Fail
  BY <1>1 DEF Fail
<1>3. ASSUME Interrupted \/ Crash \/ Complete \/ LauncherGone PROVE FALSE
  BY <1>1, <1>2, <1>3 DEF Interrupted, Crash, Complete, LauncherGone
<1>4. ASSUME NEW p \in Pid, NEW q \in Pid, Fork(p, q) PROVE Kept
  BY <1>4 DEF Fork
<1>5. ASSUME NEW p \in Pid, Exit(p) \/ Reap(p) PROVE Kept
  BY <1>5 DEF Exit, Reap
<1>6. ASSUME NEW who \in Process, NEW ask \in Asks, Register(who, ask[1], ask[2]) PROVE Kept
  BY <1>6 DEF Register
<1>7. ASSUME NEW who \in Process, Receipt(who) \/ \E e \in Event : Ready(who, e) PROVE Kept
  BY <1>7 DEF Receipt, Ready
<1>8. ASSUME NEW who \in Process, TakeReady(who) \/ TakeReceipt(who) \/ TakeEof(who) PROVE Kept
  BY <1>2, <1>8 DEF TakeReady, TakeReceipt, TakeEof
<1>9. ASSUME Admit \/ Arm \/ Kill \/ ObserveExit \/ \E r \in Role : ReleaseWaiter(r) PROVE FALSE
  BY <1>2, <1>9 DEF Admit, Arm, Kill, ObserveExit, ReleaseWaiter, Goto, Chained
<1> QED
  BY <1>1, <1>2, <1>3, <1>4, <1>5, <1>6, <1>7, <1>8, <1>9 DEF NsStep, NsNext, Controller, Step

(* A link to the launcher as it was started, or one that cannot come back *)
Sound(link) == link = Root \/ (link.ppid # 1 /\ link.start <= forks)

(* The two sides of the chain: what was read up to now, what is still to be read again *)
LEMMA StepChain ==
    ASSUME NsTypeOK, ProcessInv, ChainInv, AncestryHeld, NsStep
    PROVE  ChainInv' /\ AncestryHeld'
<1> USE ScheduleFacts
<1> DEFINE Goal == ChainInv' /\ AncestryHeld'
<1>1. ASSUME pc' \notin Chained PROVE Goal
  BY <1>1 DEF ChainInv, AncestryHeld, Chained
<1>2. ASSUME UNCHANGED <<pc, reg>>, pc' \in Chained PROVE Goal
  <2>1. Running /\ pc' # "ended" /\ pc \in Chained
    BY <1>2 DEF Running, Chained
  <2>2. /\ forks \in Nat /\ forks' \in Nat /\ forks <= forks'
        /\ \A link \in Link :
             link.ppid # 1 /\ link.start <= forks /\ ~Is(link) => ~Is(link)'
    BY <2>1, LinksStayGone
  <2>3. reg.chain \in Seq(Link) /\ DOMAIN reg.chain \subseteq Nat
        /\ \A i \in DOMAIN reg.chain : reg.chain[i] \in Link
    BY DEF NsTypeOK, Registration
  <2>4. ASSUME NEW i \in DOMAIN reg.chain
        PROVE  /\ Sound(reg.chain[i])
               /\ reg.chain[i] = Root \/ (reg.chain[i].ppid # 1 /\ reg.chain[i].start <= forks')
    <3>1. Sound(reg.chain[i])
      BY <1>2, <2>1 DEF ChainInv, Sound, Chained
    <3>2. reg.chain[i].start \in Nat
      BY <2>3 DEF Link
    <3> QED
      BY <2>2, <3>1, <3>2 DEF Sound
  <2>5. ASSUME NEW i \in DOMAIN reg.chain, ~Is(reg.chain[i]) PROVE ~Is(reg.chain[i])'
    <3>1. reg.chain[i] # Root
      BY <2>1, <2>5 DEF ProcessInv
    <3> DEFINE link == reg.chain[i]
    <3>2. link \in Link /\ link.ppid # 1 /\ link.start <= forks
      BY <2>3, <2>4, <3>1 DEF Sound
    <3>3. reg.chain'[i] = reg.chain[i]
      BY <1>2
    <3> QED
      BY <1>2, <2>2, <2>5, <3>2, <3>3 DEF Is, Snapshot
  <2>6. Again' = Again
    BY <1>2 DEF Again
  <2>7. ASSUME pc = "recheck", ~reg.held PROVE \E j \in 1 .. Again : ~Is(reg.chain[j])'
    <3>1. PICK j \in 1 .. Again : ~Is(reg.chain[j])
      BY <2>7 DEF ChainInv
    <3>2. j \in DOMAIN reg.chain
      BY <2>3, <2>7, <3>1 DEF ChainInv
    <3> QED
      BY <2>5, <3>1, <3>2
  <2> QED
    BY <1>2, <2>1, <2>4, <2>6, <2>7 DEF ChainInv, AncestryHeld, Chained
<1>3. ASSUME NEW who \in Process, TakeRegister(who), ~Fail PROVE Goal
  <2>1. Waits(who, "register") /\ Taken(who) /\ Alive(who) /\ pc' = "lineage"
        /\ reg' = [NoReg EXCEPT !.who = who, !.message = Head1(who), !.next = PidOf(who)]
    BY <1>3 DEF TakeRegister, Goto
  <2>2. Head1(who) \in Message /\ Head1(who).kind = "register"
    BY <2>1, TakenTyped
  <2>3. PidOf(who) \in Pid
    BY <2>1, PidOfTyped DEF Alive
  <2>4. Head1(who) # None
    BY <2>2
  <2>5. /\ reg'.who = who /\ reg'.message = Head1(who) /\ reg'.next = PidOf(who)
        /\ reg'.chain = <<>>
    BY <2>1 DEF NoReg
  <2> QED
    BY <2>1, <2>2, <2>3, <2>4, <2>5 DEF ChainInv, AncestryHeld

<1>4. ASSUME ReadUp, ~Fail PROVE Goal
  <2> DEFINE p == reg.next
             link == Snapshot(p)
             chain == Append(reg.chain, link)
  <2>1. /\ pc = "lineage" /\ proc[p] # None /\ p \in Pid
        /\ p = Launcher => link = Root
        /\ p # Launcher => link.ppid > 1
        /\ UNCHANGED <<proc, forks>>
    <3>1. pc = "lineage" /\ p \in Pid /\ UNCHANGED <<proc, forks>>
      BY <1>4 DEF ReadUp, ChainInv
    <3>2. ~ \/ proc[p] = None
            \/ (p = Launcher /\ link # Root)
            \/ (p # Launcher /\ link.ppid <= 1)
      BY <1>4 DEF ReadUp
    <3>3. link.ppid \in Nat
      BY <3>1, <3>2 DEF Snapshot, Proc, NsTypeOK
    <3> HIDE DEF link, p
    <3> QED
      BY <3>1, <3>2, <3>3
  <2>2. /\ reg' = [reg EXCEPT !.chain = chain, !.next = IF p = Launcher THEN None ELSE link.ppid,
                              !.held = \A i \in DOMAIN chain : Is(chain[i])]
        /\ pc' = IF p = Launcher THEN "recheck" ELSE "lineage"
    BY <1>4 DEF ReadUp, Goto
  <2>3. link \in Link
    BY <2>1 DEF Snapshot, Link, Proc, NsTypeOK
  <2>4. Sound(link)
    <3>1. link.start <= forks
      BY <2>1 DEF Snapshot, ProcessInv
    <3>2. p # Launcher => link.ppid # 1
      BY <2>1
    <3> HIDE DEF link
    <3> QED
      BY <2>1, <3>1, <3>2 DEF Sound
  <2>5. /\ reg.chain \in Seq(Link) /\ Len(reg.chain) \in Nat
        /\ DOMAIN chain = 1 .. Len(reg.chain) + 1 /\ DOMAIN reg.chain = 1 .. Len(reg.chain)
        /\ \A i \in DOMAIN reg.chain : chain[i] = reg.chain[i]
        /\ chain[Len(reg.chain) + 1] = link
        /\ Len(chain) = Len(reg.chain) + 1
    <3>1. reg.chain \in Seq(Link)
      BY DEF NsTypeOK, Registration
    <3> HIDE DEF link
    <3> QED
      BY <2>3, <3>1, SequenceTyped
  <2>6. \A i \in DOMAIN chain : Sound(chain[i])
    <3>1. \A i \in DOMAIN reg.chain : Sound(reg.chain[i])
      BY <2>1 DEF ChainInv, Sound
    <3> HIDE DEF chain, link
    <3> QED
      BY <2>4, <2>5, <3>1
  <2>7. /\ reg'.chain = chain /\ reg'.who = reg.who /\ reg'.message = reg.message
        /\ reg'.next = IF p = Launcher THEN None ELSE link.ppid
        /\ reg'.held = \A i \in DOMAIN chain : Is(chain[i])
    <3> HIDE DEF chain, link, p
    <3> QED
      BY <2>2 DEF NsTypeOK, Registration
  <2>8. CASE p = Launcher
    <3>1. Again' = Len(chain)
      BY <2>7, <2>8 DEF Again
    <3>2. reg'.held \/ \E j \in DOMAIN chain : ~Is(chain[j])
      BY <2>7
    <3>3. \A j \in DOMAIN chain : ~Is(chain[j]) => ~Is(reg.chain[j])'
      BY <2>1, <2>7 DEF Is, Snapshot
    <3>4. DOMAIN chain = 1 .. Len(chain) /\ Len(chain) \in DOMAIN chain
      <4> HIDE DEF chain
      <4> QED
        BY <2>5
    <3>5. pc' = "recheck" /\ UNCHANGED forks
      BY <2>1, <2>2, <2>8
    <3> HIDE DEF chain, link, p
    <3>6. reg'.held \/ \E j \in 1 .. Again' : ~Is(reg.chain[j])'
      BY <3>1, <3>2, <3>3, <3>4
    <3> QED
      BY <2>1, <2>6, <2>7, <3>1, <3>4, <3>5, <3>6 DEF ChainInv, AncestryHeld, Sound
  <2>9. CASE p # Launcher
    <3>1. link.ppid \in Pid
      <4>1. link.ppid \in Pid \union {1} /\ link.ppid # 1
        BY <2>1, <2>3, <2>9 DEF Link
      <4> QED
        BY <4>1
    <3>2. pc' = "lineage" /\ UNCHANGED forks /\ reg'.next = link.ppid
      BY <2>1, <2>2, <2>7, <2>9
    <3> HIDE DEF chain, link, p
    <3> QED
      BY <2>1, <2>6, <2>7, <3>1, <3>2 DEF ChainInv, AncestryHeld, Sound
  <2> QED
    BY <2>8, <2>9
<1>5. ASSUME Recheck, ~Fail PROVE Goal
  <2>1. /\ pc = "recheck" /\ Is(reg.chain[Again]) /\ UNCHANGED <<proc, forks>>
        /\ pc' = IF Again = 1 THEN "admit" ELSE "recheck"
        /\ reg' = [reg EXCEPT !.next = Again - 1]
    BY <1>5 DEF Recheck, Goto
  <2>2. /\ DOMAIN reg.chain = 1 .. Len(reg.chain) /\ Len(reg.chain) \in Nat
        /\ Again \in DOMAIN reg.chain
        /\ reg.held \/ \E j \in 1 .. Again : ~Is(reg.chain[j])
    BY <2>1 DEF ChainInv, NsTypeOK, Registration
  <2>3. reg.held \/ \E j \in 1 .. Again - 1 : ~Is(reg.chain[j])
    BY <2>1, <2>2
  <2>4. /\ reg'.chain = reg.chain /\ reg'.who = reg.who /\ reg'.message = reg.message
        /\ reg'.held = reg.held /\ reg'.next = Again - 1
    BY <2>1 DEF NsTypeOK, Registration
  <2>5. Again - 1 \in Nat /\ Again' = Again - 1
    <3>1. Again - 1 \in Nat
      BY <2>2
    <3> QED
      BY <2>4, <3>1 DEF Again
  <2>6. CASE Again = 1
    <3>1. reg.held
      BY <2>3, <2>6
    <3> QED
      BY <2>1, <2>4, <2>6, <3>1 DEF ChainInv, AncestryHeld
  <2>7. CASE Again # 1
    <3>1. Again - 1 \in DOMAIN reg.chain
      BY <2>2, <2>7
    <3>2. reg.held \/ \E j \in 1 .. Again' : ~Is(reg.chain[j])'
      BY <2>1, <2>3, <2>4, <2>5 DEF Is, Snapshot
    <3> QED
      BY <2>1, <2>4, <2>5, <2>7, <3>1, <3>2 DEF ChainInv, AncestryHeld
  <2> QED
    BY <2>6, <2>7
<1> QED
  BY <1>1, <1>2, <1>3, <1>4, <1>5, ChainSteps

-----------------------------------------------------------------------------
(* What a step does to the client of a process *)
Adds(c, d, kind, e) ==
    /\ d.freed = c.freed
    /\ DOMAIN d.sent = 1 .. Len(c.sent) + 1
    /\ \A i \in DOMAIN c.sent : d.sent[i] = c.sent[i]
    /\ d.sent[Len(c.sent) + 1].kind = kind /\ d.sent[Len(c.sent) + 1].event = e
    /\ DOMAIN c.sent = 1 .. Len(c.sent) /\ Len(c.sent) \in Nat

ClientStep(x) ==
    LET c == client[x]  d == client'[x]
    IN  \/ d.at = c.at /\ d.freed = c.freed /\ d.sent = c.sent
        \/ /\ c = NoClient /\ d.at = None /\ d.freed = None
           /\ \A i \in DOMAIN d.sent : d.sent[i].kind = "register"
        \/ \E e \in Event : /\ Registered(x) /\ c.at = None /\ c.freed # e
                            /\ d.at = e /\ Adds(c, d, "ready", e)
        \/ \E e \in Event : /\ c.at = e /\ c.freed = e /\ d.at = None /\ Adds(c, d, "released", e)
        \/ /\ d.at = c.at /\ d.freed = c.freed
           /\ \A i \in DOMAIN d.sent : i + 1 \in DOMAIN c.sent /\ d.sent[i] = c.sent[i + 1]
        \/ pc = "release" /\ d.at = c.at /\ d.sent = c.sent /\ d.freed = Current

LEMMA ClientSteps ==
    ASSUME NsTypeOK, NsStep, NEW x \in Process
    PROVE  ClientStep(x) \/ \E v : End(v)
<1> DEFINE Same == client'[x].at = client[x].at /\ client'[x].freed = client[x].freed
                   /\ client'[x].sent = client[x].sent
<1>1. ASSUME UNCHANGED client PROVE ClientStep(x)
  BY <1>1 DEF ClientStep
<1>2. ASSUME Interrupted \/ Crash \/ Complete \/ LauncherGone PROVE \E v : End(v)
  BY <1>2 DEF Interrupted, Crash, Complete, LauncherGone, Fail
<1>3. ASSUME Boot \/ \E p \in Pid : Exit(p) \/ Reap(p) \/ \E q \in Pid : Fork(p, q)
      PROVE  ClientStep(x)
  BY <1>1, <1>3 DEF Boot, Exit, Reap, Fork
<1>4. ASSUME ReadUp \/ Recheck \/ Arm \/ Kill \/ ObserveExit, ~Fail PROVE ClientStep(x)
  BY <1>1, <1>4 DEF ReadUp, Recheck, Arm, Kill, ObserveExit
<1>5. client \in [Process -> Client] /\ client[x] \in Client /\ client[x].sent \in Seq(Message)
  BY DEF NsTypeOK, Client
<1>6. ASSUME NEW who, Taken(who), client[who].sent # <<>> PROVE ClientStep(x)
  <2>1. CASE who # x
    <3>1. client'[x] = client[x]
      BY <1>5, <1>6, <2>1 DEF Taken
    <3> QED
      BY <3>1 DEF ClientStep
  <2>2. CASE who = x
    <3>1. client'[x] = [client[x] EXCEPT !.sent = Tail(@)]
      BY <1>5, <1>6, <2>2 DEF Taken
    <3>2. client'[x].at = client[x].at /\ client'[x].freed = client[x].freed
          /\ client'[x].sent = Tail(client[x].sent)
      BY <1>5, <3>1 DEF Client
    <3>3. \A i \in DOMAIN Tail(client[x].sent) :
             i + 1 \in DOMAIN client[x].sent /\ Tail(client[x].sent)[i] = client[x].sent[i + 1]
      BY <1>5, <1>6, <2>2, SequenceTyped
    <3> QED
      BY <3>2, <3>3 DEF ClientStep
  <2> QED
    BY <2>1, <2>2
<1>7. ASSUME NEW who \in Process, Step(who), ~Fail PROVE ClientStep(x)
  <2>1. ASSUME TakeEof(who) PROVE ClientStep(x)
    <3>1. client' = [client EXCEPT ![who].open = FALSE]
      BY <1>7, <2>1 DEF TakeEof
    <3>2. Same
      BY <1>5, <3>1 DEF Client
    <3> QED
      BY <3>2 DEF ClientStep
  <2> QED
    BY <1>6, <1>7, <2>1 DEF Step, TakeRegister, TakeReady, TakeReceipt, Waits
<1>8. ASSUME Admit, ~Fail PROVE ClientStep(x)
  <2> DEFINE who == reg.who
             kind == Assignment(reg.message)
  <2>1. client' = [client EXCEPT ![who].injection = kind]
    BY <1>8 DEF Admit
  <2> HIDE DEF who, kind
  <2>2. Same
    BY <1>5, <2>1 DEF Client
  <2> QED
    BY <2>2 DEF ClientStep
<1>9. ASSUME NEW r \in Role, ReleaseWaiter(r), ~Fail PROVE ClientStep(x)
  <2> DEFINE e == Current
             who == state[e].ready[r]
  <2>1. client' = [client EXCEPT ![who].freed = e] /\ pc = "release"
    BY <1>9 DEF ReleaseWaiter
  <2> HIDE DEF who, e
  <2>2. Same \/ (client'[x].at = client[x].at /\ client'[x].sent = client[x].sent /\ client'[x].freed = e)
    BY <1>5, <2>1 DEF Client
  <2> QED
    BY <2>1, <2>2 DEF ClientStep, e
<1>10. ASSUME NEW who \in Process, NEW ask \in Asks, Register(who, ask[1], ask[2])
       PROVE  ClientStep(x)
  <2> DEFINE m == [kind |-> "register", role |-> ask[1], event |-> ask[2]]
  <2>1. client' = [client EXCEPT ![who] = [NoClient EXCEPT !.open = TRUE, !.sent = <<m>>]]
        /\ client[who] = NoClient
    BY <1>10 DEF Register
  <2>2. m.kind = "register"
    OBVIOUS
  <2> HIDE DEF m
  <2>3. CASE who = x
    <3>1. client'[x] = [NoClient EXCEPT !.open = TRUE, !.sent = <<m>>]
      BY <1>5, <2>1, <2>3
    <3>2. client'[x].at = None /\ client'[x].freed = None /\ client'[x].sent = <<m>>
      BY <3>1 DEF NoClient
    <3> QED
      BY <2>1, <2>2, <2>3, <3>2 DEF ClientStep
  <2>4. CASE who # x
    BY <1>5, <2>1, <2>4 DEF ClientStep
  <2> QED
    BY <2>3, <2>4
<1>11. ASSUME NEW e \in Event, Ready(x, e) PROVE ClientStep(x)
  <2> DEFINE m == [kind |-> "ready", event |-> e]
  <2>1. client' = [client EXCEPT ![x].at = e, ![x].sent = Append(@, m)]
        /\ Registered(x) /\ client[x].at = None /\ client[x].freed # e
    BY <1>11 DEF Ready
  <2>2. m.kind = "ready" /\ m.event = e /\ m \in Message
    BY MessageTyped
  <2> HIDE DEF m
  <2>3. client'[x].at = e /\ client'[x].freed = client[x].freed
        /\ client'[x].sent = Append(client[x].sent, m)
    BY <1>5, <2>1 DEF Client
  <2>4. Adds(client[x], client'[x], "ready", e)
    <3>1. /\ DOMAIN Append(client[x].sent, m) = 1 .. Len(client[x].sent) + 1
          /\ \A i \in DOMAIN client[x].sent : Append(client[x].sent, m)[i] = client[x].sent[i]
          /\ Append(client[x].sent, m)[Len(client[x].sent) + 1] = m
          /\ DOMAIN client[x].sent = 1 .. Len(client[x].sent) /\ Len(client[x].sent) \in Nat
      BY <1>5, <2>2, SequenceTyped
    <3> QED
      BY <2>2, <2>3, <3>1 DEF Adds
  <2> QED
    BY <2>1, <2>3, <2>4 DEF ClientStep
<1>12. ASSUME Receipt(x) PROVE ClientStep(x)
  <2> DEFINE e == client[x].at
             m == [kind |-> "released", event |-> e]
  <2>1. client' = [client EXCEPT ![x].at = None, ![x].sent = Append(@, m)]
        /\ e # None /\ client[x].freed = e
    BY <1>12 DEF Receipt
  <2>2. e \in Event
    BY <1>5, <2>1 DEF Client
  <2>3. m.kind = "released" /\ m.event = e /\ m \in Message
    BY <2>2, MessageTyped
  <2> HIDE DEF m
  <2>4. client'[x].at = None /\ client'[x].freed = client[x].freed
        /\ client'[x].sent = Append(client[x].sent, m)
    BY <1>5, <2>1 DEF Client
  <2>5. Adds(client[x], client'[x], "released", e)
    <3>1. /\ DOMAIN Append(client[x].sent, m) = 1 .. Len(client[x].sent) + 1
          /\ \A i \in DOMAIN client[x].sent : Append(client[x].sent, m)[i] = client[x].sent[i]
          /\ Append(client[x].sent, m)[Len(client[x].sent) + 1] = m
          /\ DOMAIN client[x].sent = 1 .. Len(client[x].sent) /\ Len(client[x].sent) \in Nat
      BY <1>5, <2>3, SequenceTyped
    <3> QED
      BY <2>3, <2>4, <3>1 DEF Adds
  <2> QED
    BY <2>1, <2>2, <2>4, <2>5 DEF ClientStep
<1>13. ASSUME NEW who \in Process, who # x, Receipt(who) \/ \E e \in Event : Ready(who, e)
       PROVE  ClientStep(x)
  <2>1. client'[x] = client[x]
    <3>1. ASSUME Receipt(who) PROVE client'[x] = client[x]
      BY <1>5, <1>13, <3>1 DEF Receipt
    <3>2. ASSUME NEW e \in Event, Ready(who, e) PROVE client'[x] = client[x]
      BY <1>5, <1>13, <3>2 DEF Ready
    <3> QED
      BY <1>13, <3>1, <3>2
  <2> QED
    BY <2>1 DEF ClientStep
<1> QED
  BY <1>2, <1>3, <1>4, <1>7, <1>8, <1>9, <1>10, <1>11, <1>12, <1>13 DEF NsStep, NsNext, Controller, Fail

-----------------------------------------------------------------------------
(* What a step does to the phases of the events and to who is ready for them *)
QuietState == \A e \in Event : state'[e].phase = state[e].phase /\ state'[e].ready = state[e].ready

(* A waiter is ready that said so, or an event that was released already gets a receipt,
   or the target of the current event was seen to be gone.                             *)
TakesReady(who) ==
    /\ pc = "loop" /\ UNCHANGED <<pc, shots, result>>
    /\ client[who].sent[1].kind = "ready" /\ 1 \in DOMAIN client[who].sent
    /\ \A e \in Event :
         /\ state'[e].phase = state[e].phase
         /\ \A r \in Role : \/ state'[e].ready[r] = state[e].ready[r]
                            \/ client[who].sent[1].event = e /\ state'[e].ready[r] = who

TakesReceipt ==
    /\ pc = "loop" /\ UNCHANGED <<pc, shots, result>>
    /\ \A e \in Event :
         /\ state'[e].ready = state[e].ready
         /\ \/ state'[e].phase = state[e].phase
            \/ state[e].phase # "waiting" /\ state'[e].phase # "waiting"

SeesExit ==
    /\ pc = "sent" /\ pc' \in {"loop", "release"} /\ UNCHANGED <<shots, result>>
    /\ \A e \in Event :
         /\ state'[e].ready = state[e].ready
         /\ e # Current => state'[e].phase = state[e].phase
    /\ state'[Current].phase \in {"releasing", "released"}
    /\ pc' = "release" => state'[Current].phase = "releasing"

LEMMA TakesReadyIs ==
    ASSUME NsTypeOK, NEW who \in Process, TakeReady(who), ~Fail PROVE TakesReady(who)
<1> DEFINE e == Head1(who).event
           role == EntryOf(who).role
<1>1. Waits(who, "ready") /\ Taken(who) /\ state' = [state EXCEPT ![e].ready[role] = who]
      /\ UNCHANGED <<pc, shots, result>>
  BY DEF TakeReady
<1>2. pc = "loop" /\ Head1(who).kind = "ready"
      /\ 1 \in DOMAIN client[who].sent /\ Head1(who) = client[who].sent[1]
  BY <1>1, TakenTyped
<1>3. \A x \in Event : state[x] \in EventState /\ state[x].ready \in Holders
  BY DEF NsTypeOK, EventState
<1>4. client[who].sent[1].event = e
  BY <1>2
<1> HIDE DEF e, role
<1>5. ASSUME NEW x \in Event
      PROVE  /\ state'[x].phase = state[x].phase
             /\ \A r \in Role : state'[x].ready[r] = state[x].ready[r] \/ (x = e /\ state'[x].ready[r] = who)
  <2>1. CASE x # e
    BY <1>1, <2>1 DEF NsTypeOK
  <2>2. CASE x = e
    <3> DEFINE h == [state[x].ready EXCEPT ![role] = who]
    <3>1. state' = [state EXCEPT ![x] = [state[x] EXCEPT !.ready = h]]
      BY <1>1, <1>3, <2>2 DEF NsTypeOK
    <3>2. \A r \in Role : h[r] = state[x].ready[r] \/ h[r] = who
      BY <1>3 DEF Holders
    <3> HIDE DEF h
    <3>3. state'[x].phase = state[x].phase /\ state'[x].ready = h
      BY <1>3, <3>1 DEF NsTypeOK, EventState
    <3> QED
      BY <2>2, <3>2, <3>3
  <2> QED
    BY <2>1, <2>2
<1> QED
  BY <1>1, <1>2, <1>4, <1>5 DEF TakesReady

LEMMA TakesReceiptIs ==
    ASSUME NsTypeOK, NEW who \in Process, TakeReceipt(who), ~Fail PROVE TakesReceipt
<1> DEFINE e == Head1(who).event
           role == EntryOf(who).role
           receipt == state[e].receipt \union {role}
<1>1. /\ pc = "loop" /\ UNCHANGED <<pc, shots, result>>
      /\ state[e].phase \in {"releasing", "released"}
      /\ state' = [state EXCEPT ![e].receipt = receipt,
                      ![e].phase = IF receipt = Others(e) THEN "released" ELSE @]
  BY DEF TakeReceipt, Waits
<1> HIDE DEF e, role, receipt
<1>2. ASSUME NEW x \in Event
      PROVE  /\ state'[x].ready = state[x].ready
             /\ \/ state'[x].phase = state[x].phase
                \/ x = e /\ state'[x].phase = "released"
  BY <1>1 DEF NsTypeOK, EventState
<1> QED
  BY <1>1, <1>2 DEF TakesReceipt

LEMMA SeesExitIs ==
    ASSUME NsTypeOK, CurrentInv, ObserveExit PROVE SeesExit
<1>1. Current \in Event
  BY CurrentIsFirst DEF ObserveExit, CurrentInv
<1> DEFINE c == Current
           phase == IF Others(c) = {} THEN "released" ELSE "releasing"
<1>2. state' = [state EXCEPT ![c].phase = phase] /\ pc = "sent" /\ UNCHANGED <<shots, result>>
      /\ pc' = (IF Others(c) = {} THEN "loop" ELSE "release")
  BY DEF ObserveExit, Goto
<1>3. phase \in {"releasing", "released"} /\ (pc' = "release" => phase = "releasing")
  BY <1>2
<1> HIDE DEF c, phase
<1>4. \A x \in Event : /\ state'[x].ready = state[x].ready
                       /\ state'[x].phase = IF x = c THEN phase ELSE state[x].phase
  BY <1>2 DEF NsTypeOK, EventState
<1> QED
  BY <1>1, <1>2, <1>3, <1>4 DEF SeesExit, c

LEMMA StateSteps ==
    ASSUME NsTypeOK, ChainInv, CurrentInv, NsStep
    PROVE  \/ \E v : End(v)
           \/ QuietState
           \/ \E who \in Process : TakesReady(who)
           \/ TakesReceipt
           \/ SeesExit
<1>1. ASSUME UNCHANGED state PROVE QuietState
  BY <1>1 DEF QuietState
<1>2. ASSUME Interrupted \/ Crash \/ Complete \/ LauncherGone PROVE \E v : End(v)
  BY <1>2 DEF Interrupted, Crash, Complete, LauncherGone, Fail
<1>3. ASSUME Boot \/ \E p \in Pid : Exit(p) \/ Reap(p) \/ \E q \in Pid : Fork(p, q)
      PROVE  QuietState
  BY <1>1, <1>3 DEF Boot, Exit, Reap, Fork
<1>4. ASSUME ReadUp \/ Recheck \/ Arm \/ Kill \/ \E r \in Role : ReleaseWaiter(r), ~Fail
      PROVE  QuietState
  BY <1>1, <1>4 DEF ReadUp, Recheck, Arm, Kill, ReleaseWaiter
<1>5. ASSUME NEW who \in Process, TakeRegister(who) \/ TakeEof(who), ~Fail PROVE QuietState
  BY <1>1, <1>5 DEF TakeRegister, TakeEof
<1>6. ASSUME NEW who \in Process, NEW ask \in Asks, Register(who, ask[1], ask[2]) PROVE QuietState
  BY <1>1, <1>6 DEF Register
<1>7. ASSUME NEW who \in Process, Receipt(who) \/ \E e \in Event : Ready(who, e) PROVE QuietState
  BY <1>1, <1>7 DEF Receipt, Ready
<1>8. ASSUME Admit, ~Fail PROVE QuietState
  <2> DEFINE m == reg.message
             e == m.event
             r == m.role
             who == reg.who
  <2>1. state' = state \/ state' = [state EXCEPT ![e].allocated[r] = who]
    BY <1>8 DEF Admit
  <2> HIDE DEF m, e, r, who
  <2>2. CASE state' = [state EXCEPT ![e].allocated[r] = who]
    <3> DEFINE h == [state[e].allocated EXCEPT ![r] = who]
    <3>1. state' = [state EXCEPT ![e] = [state[e] EXCEPT !.allocated = h]]
      BY <2>2
    <3> HIDE DEF h
    <3> QED
      BY <3>1 DEF QuietState, NsTypeOK, EventState
  <2> QED
    BY <1>1, <2>1, <2>2
<1> QED
  BY <1>2, <1>3, <1>4, <1>5, <1>6, <1>7, <1>8, TakesReadyIs, TakesReceiptIs, SeesExitIs
     DEF NsStep, NsNext, Controller, Step, Fail

-----------------------------------------------------------------------------
LEMMA StepEntries ==
    ASSUME NsTypeOK, EntryInv, NsStep PROVE EntryInv'
<1>1. ASSUME NEW v, End(v) PROVE EntryInv'
  BY <1>1, EndBlank, Blanks DEF EntryInv
<1>2. ASSUME ~ \E v : End(v), NEW x PROVE Registered(x) => Registered(x)'
  <2>1. entries \subseteq entries'
    <3>1. ASSUME Interrupted \/ Crash \/ Complete \/ LauncherGone PROVE FALSE
      BY <1>2, <3>1 DEF Interrupted, Crash, Complete, LauncherGone, Fail
    <3>2. ~Fail
      BY <1>2 DEF Fail
    <3>3. ASSUME NEW who \in Process, Step(who) PROVE entries' = entries
      BY <3>2, <3>3 DEF Step, TakeRegister, TakeReady, TakeReceipt, TakeEof
    <3>4. ASSUME ReadUp \/ Recheck \/ Arm \/ Kill \/ ObserveExit \/ \E r \in Role : ReleaseWaiter(r)
          PROVE  entries' = entries
      BY <3>2, <3>4 DEF ReadUp, Recheck, Arm, Kill, ObserveExit, ReleaseWaiter
    <3>5. ASSUME Admit PROVE entries \subseteq entries'
      BY <3>2, <3>5 DEF Admit
    <3>6. ASSUME Boot \/ \E p \in Pid : Exit(p) \/ Reap(p) \/ \E q \in Pid : Fork(p, q)
          PROVE  entries' = entries
      BY <3>6 DEF Boot, Exit, Reap, Fork
    <3>7. ASSUME NEW who \in Process, Receipt(who) \/ \E e \in Event : Ready(who, e)
          PROVE  entries' = entries
      BY <3>7 DEF Receipt, Ready
    <3>8. ASSUME NEW who \in Process, NEW ask \in Asks, Register(who, ask[1], ask[2])
          PROVE  entries' = entries
      BY <3>8 DEF Register
    <3> QED
      BY <3>1, <3>3, <3>4, <3>5, <3>6, <3>7, <3>8 DEF NsStep, NsNext, Controller
  <2> QED
    BY <2>1 DEF Registered
<1>3. ASSUME ~ \E v : End(v), NEW x \in Process
      PROVE  /\ client'[x].at # None => Registered(x)'
             /\ \A i \in DOMAIN client'[x].sent :
                   client'[x].sent[i].kind # "register" => Registered(x)'
  <2> DEFINE c == client[x]
             d == client'[x]
             Goal == /\ d.at # None => Registered(x)
                     /\ \A i \in DOMAIN d.sent : d.sent[i].kind # "register" => Registered(x)
  <2>1. /\ c.at # None => Registered(x)
        /\ \A i \in DOMAIN c.sent : c.sent[i].kind # "register" => Registered(x)
    BY DEF EntryInv
  <2>2. ClientStep(x)
    BY <1>3, ClientSteps
  <2>3. ASSUME NEW kind, NEW e \in Event, Adds(c, d, kind, e), Registered(x) PROVE Goal
    BY <2>3
  <2>4. \A e \in Event : e # None
    BY ScheduleFacts
  <2>5. Goal
    <3> HIDE DEF c, d
    <3>1. ASSUME d.at = c.at, d.sent = c.sent PROVE Goal
      BY <2>1, <3>1
    <3>2. ASSUME d.at = None, \A i \in DOMAIN d.sent : d.sent[i].kind = "register" PROVE Goal
      BY <3>2
    <3>3. ASSUME d.at = c.at,
                 \A i \in DOMAIN d.sent : i + 1 \in DOMAIN c.sent /\ d.sent[i] = c.sent[i + 1]
          PROVE  Goal
      BY <2>1, <3>3
    <3> QED
      BY <2>1, <2>2, <2>3, <2>4, <3>1, <3>2, <3>3 DEF ClientStep, c, d
  <2> QED
    BY <1>2, <1>3, <2>5
<1> QED
  BY <1>1, <1>3 DEF EntryInv

-----------------------------------------------------------------------------
(* The client of one process and one event *)
Stands(c, e) ==
    /\ c.freed # e
    /\ \A i \in DOMAIN c.sent : c.sent[i].kind = "ready" /\ c.sent[i].event = e => c.at = e

LEMMA StepStands ==
    ASSUME NsTypeOK, CurrentInv, BarrierInv, NsStep, ~ \E v : End(v),
           NEW e \in Event, state[e].phase = "waiting", NEW x \in Process
    PROVE  /\ Stands(client'[x], e)
           /\ client[x].at = e => client'[x].at = e
<1> DEFINE c == client[x]
           d == client'[x]
           Goal == Stands(d, e) /\ (c.at = e => d.at = e)
<1>1. Stands(c, e)
  BY DEF BarrierInv, Stands
<1>2. ClientStep(x)
  BY ClientSteps
<1>3. None \notin Event
  BY ScheduleFacts
<1>4. pc = "release" => Current # e
  BY DEF CurrentInv
<1>5. NoClient.at = None
  BY Blanks
<1> HIDE DEF c, d
<1>6. ASSUME d.at = c.at, d.freed = c.freed \/ d.freed # e, d.sent = c.sent PROVE Goal
  BY <1>1, <1>6 DEF Stands
<1>7. ASSUME c = NoClient, d.freed = None, \A i \in DOMAIN d.sent : d.sent[i].kind = "register"
      PROVE  Goal
  BY <1>3, <1>5, <1>7 DEF Stands
<1>8. ASSUME NEW f \in Event, c.at = None, d.at = f, Adds(c, d, "ready", f) PROVE Goal
  BY <1>1, <1>3, <1>8 DEF Stands, Adds
<1>9. ASSUME NEW f \in Event, c.at = f, c.freed = f, Adds(c, d, "released", f) PROVE Goal
  BY <1>1, <1>3, <1>9 DEF Stands, Adds
<1>10. ASSUME d.at = c.at, d.freed = c.freed,
              \A i \in DOMAIN d.sent : i + 1 \in DOMAIN c.sent /\ d.sent[i] = c.sent[i + 1]
       PROVE  Goal
  BY <1>1, <1>10 DEF Stands
<1>11. Goal
  BY <1>2, <1>4, <1>6, <1>7, <1>8, <1>9, <1>10 DEF ClientStep, c, d
<1> QED
  BY <1>11 DEF c, d

LEMMA StepBarrier ==
    ASSUME NsTypeOK, ChainInv, CurrentInv, BarrierInv, NsStep PROVE BarrierInv'
<1>1. ASSUME NEW v, End(v) PROVE BarrierInv'
  <2>1. None \notin Event /\ None \notin Process
    BY ScheduleFacts
  <2>2. \A e \in Event, x \in Process : client'[x].freed # e /\ client'[x].sent = <<>>
    BY <1>1, <2>1, EndBlank, Blanks
  <2>3. \A e \in Event, x \in Process, r \in Role : state'[e].ready[r] # x
    BY <1>1, <2>1, EndBlank, Blanks
  <2> QED
    BY <2>2, <2>3 DEF BarrierInv
<1>2. ASSUME ~ \E v : End(v), NEW e \in Event, state'[e].phase = "waiting", NEW x \in Process
      PROVE  /\ Stands(client'[x], e)
             /\ \A r \in Role : state'[e].ready[r] = x => client'[x].at = e
  <2>1. /\ state[e].phase = "waiting"
        /\ \A r \in Role : \/ state'[e].ready[r] = state[e].ready[r]
                           \/ \E who \in Process :
                                 /\ client[who].sent[1].kind = "ready" /\ 1 \in DOMAIN client[who].sent
                                 /\ client[who].sent[1].event = e /\ state'[e].ready[r] = who
    BY <1>2, StateSteps DEF QuietState, TakesReady, TakesReceipt, SeesExit
  <2>2. Stands(client'[x], e) /\ (client[x].at = e => client'[x].at = e)
    BY <1>2, <2>1, StepStands
  <2>3. ASSUME NEW r \in Role, state'[e].ready[r] = x PROVE client[x].at = e
    <3>1. CASE state[e].ready[r] = x
      BY <2>1, <3>1 DEF BarrierInv
    <3>2. CASE /\ client[x].sent[1].kind = "ready" /\ 1 \in DOMAIN client[x].sent
               /\ client[x].sent[1].event = e
      BY <2>1, <3>2 DEF BarrierInv
    <3> QED
      BY <2>1, <2>3, <3>1, <3>2
  <2> QED
    BY <2>2, <2>3
<1> QED
  BY <1>1, <1>2 DEF BarrierInv, Stands

-----------------------------------------------------------------------------
(* Where a step leaves the controller *)
Calm ==
    /\ UNCHANGED <<shots, result>>
    /\ \/ pc' = pc
       \/ pc \in {"loop", "lineage", "recheck", "admit", "release"}
          /\ pc' \in {"loop", "lineage", "recheck", "admit"}

LEMMA PcSteps ==
    ASSUME NsTypeOK, NsStep
    PROVE  \/ \E v : End(v) /\ (v = "execution_complete" => pc = "loop" /\ Released)
           \/ Boot
           \/ Arm /\ ~Fail
           \/ Kill /\ ~Fail
           \/ ObserveExit
           \/ Calm
<1>1. ASSUME Fail \/ Interrupted \/ Crash \/ Complete \/ LauncherGone
      PROVE  \E v : End(v) /\ (v = "execution_complete" => pc = "loop" /\ Released)
  BY <1>1 DEF Interrupted, Crash, Complete, LauncherGone, Fail
<1>2. ASSUME \E p \in Pid : Exit(p) \/ Reap(p) \/ \E q \in Pid : Fork(p, q) PROVE Calm
  BY <1>2 DEF Exit, Reap, Fork, Calm
<1>3. ASSUME ReadUp \/ Recheck \/ Admit, ~Fail PROVE Calm
  BY <1>3 DEF ReadUp, Recheck, Admit, Goto, Calm
<1>4. ASSUME NEW r \in Role, ReleaseWaiter(r), ~Fail PROVE Calm
  BY <1>4 DEF ReleaseWaiter, Goto, Calm
<1>5. ASSUME NEW who \in Process, Step(who), ~Fail PROVE Calm
  <2>1. pc = "loop" /\ UNCHANGED <<shots, result>> /\ pc' \in {"loop", "lineage"}
    BY <1>5 DEF Step, TakeRegister, TakeReady, TakeReceipt, TakeEof, Waits, Goto
  <2> QED
    BY <2>1 DEF Calm
<1>6. ASSUME NEW who \in Process, NEW ask \in Asks, Register(who, ask[1], ask[2]) PROVE Calm
  BY <1>6 DEF Register, Calm
<1>7. ASSUME NEW who \in Process, Receipt(who) \/ \E e \in Event : Ready(who, e) PROVE Calm
  BY <1>7 DEF Receipt, Ready, Calm
<1> QED
  BY <1>1, <1>2, <1>3, <1>4, <1>5, <1>6, <1>7 DEF NsStep, NsNext, Controller

(* The current event is a matter of the phases *)
LEMMA SamePhases ==
    ASSUME \A e \in Event : state'[e].phase = "released" <=> state[e].phase = "released"
    PROVE  Pending' = Pending /\ Current' = Current
<1>1. Pending' = Pending
  BY ScheduleFacts DEF Pending
<1> QED
  BY <1>1 DEF Current, First

LEMMA StepCurrent ==
    ASSUME NsTypeOK, ChainInv, CurrentInv, NsStep PROVE CurrentInv'
<1>1. ASSUME pc' \notin {"armed", "sent", "release"} PROVE CurrentInv'
  BY <1>1 DEF CurrentInv
<1>2. ASSUME QuietState, pc' = pc \/ (pc = "armed" /\ pc' = "sent") PROVE CurrentInv'
  <2>1. Pending' = Pending /\ Current' = Current
    BY <1>2, SamePhases DEF QuietState
  <2>2. pc' \in {"armed", "sent", "release"} => Current \in Event
    BY <1>2, CurrentIsFirst DEF CurrentInv
  <2> QED
    BY <1>2, <2>1, <2>2 DEF CurrentInv, QuietState
<1>3. ASSUME Arm, ~Fail PROVE CurrentInv'
  <2>1. UNCHANGED state /\ pc' = "armed" /\ Pending # {} /\ state[Current].phase = "waiting"
        /\ \A r \in Waiters[Current] : state[Current].ready[r] # None
    BY <1>3 DEF Arm, Goto
  <2>2. Pending' = Pending /\ Current' = Current
    BY <2>1, SamePhases
  <2> QED
    BY <2>1, <2>2 DEF CurrentInv
<1>4. ASSUME Kill, ~Fail PROVE CurrentInv'
  BY <1>2, <1>4 DEF Kill, Goto, QuietState
<1>5. ASSUME ObserveExit PROVE CurrentInv'
  <2>1. SeesExit
    BY <1>5, SeesExitIs
  <2>2. CASE pc' = "release"
    <3>1. Current \in Event /\ state[Current].phase = "waiting"
      BY <2>1, CurrentIsFirst DEF CurrentInv, SeesExit
    <3>2. state'[Current].phase = "releasing"
          /\ \A e \in Event : e # Current => state'[e].phase = state[e].phase
      BY <2>1, <2>2 DEF SeesExit
    <3>3. Pending' = Pending /\ Current' = Current
      BY <3>1, <3>2, SamePhases
    <3>4. Pending # {}
      BY <2>1 DEF CurrentInv, SeesExit
    <3> QED
      BY <2>2, <3>2, <3>3, <3>4 DEF CurrentInv
  <2> QED
    BY <1>1, <2>1, <2>2 DEF SeesExit
<1>6. ASSUME Calm, pc' = pc, pc \in {"armed", "sent", "release"} PROVE CurrentInv'
  <2>1. ~ \E v : End(v)
    BY <1>6 DEF End, Goto
  <2>2. ~ SeesExit
    BY <1>6 DEF SeesExit
  <2>3. QuietState
    BY <1>6, <2>1, <2>2, StateSteps DEF TakesReady, TakesReceipt
  <2> QED
    BY <1>2, <1>6, <2>3
<1>7. ASSUME Boot \/ \E v : End(v) PROVE CurrentInv'
  BY <1>1, <1>7 DEF Boot, End, Goto
<1> QED
  BY <1>1, <1>3, <1>4, <1>5, <1>6, <1>7, PcSteps DEF Calm

LEMMA NoneLeft ==
    ASSUME NEW n \in Nat, NEW k \in Nat, k <= n, \A i \in 1 .. n : ~ (k < i) PROVE k = n
<1> SUFFICES ASSUME k < n PROVE FALSE
  OBVIOUS
<1>1. n \in 1 .. n
  OBVIOUS
<1> QED
  BY <1>1

LEMMA StepOrder ==
    ASSUME NsTypeOK, ChainInv, CurrentInv, OrderInv, NsStep PROVE OrderInv'
<1> USE ScheduleFacts
<1>0. shots \in Seq(Event \X Process) /\ Len(shots) \in Nat /\ DOMAIN shots = 1 .. Len(shots)
  BY DEF NsTypeOK
<1>1. ASSUME NEW v, End(v), v = "execution_complete" => pc = "loop" /\ Released PROVE OrderInv'
  <2>1. pc' = "ended" /\ shots' = shots /\ result' = v
    BY <1>1, EndBlank
  <2>2. ASSUME v = "execution_complete" PROVE Len(shots) = Len(Schedule)
    <3>1. \A i \in DOMAIN Schedule : ~ (Len(shots) < i)
      BY <1>1, <2>2 DEF OrderInv, Released
    <3>2. Len(shots) <= Len(Schedule) /\ Len(Schedule) \in Nat
      BY DEF OrderInv
    <3>3. \A i \in 1 .. Len(Schedule) : ~ (Len(shots) < i)
      BY <3>1
    <3> QED
      BY <1>0, <3>2, <3>3, NoneLeft
  <2> QED
    BY <2>1, <2>2 DEF OrderInv
<1>2. ASSUME Boot PROVE OrderInv'
  <2>1. pc = "off" /\ UNCHANGED <<state, shots, result>> /\ pc' \in {"loop", "ended"}
    BY <1>2 DEF Boot, Goto
  <2> QED
    BY <2>1 DEF OrderInv
<1>3. ASSUME Arm, ~Fail PROVE OrderInv'
  <2>1. pc = "loop" /\ UNCHANGED <<state, shots, result>> /\ pc' = "armed"
    BY <1>3 DEF Arm, Goto
  <2> QED
    BY <2>1 DEF OrderInv
<1>4. ASSUME Kill, ~Fail PROVE OrderInv'
  <2> DEFINE shot == <<Current, state[Current].ready[Target[Current]]>>
  <2>1. pc = "armed" /\ pc' = "sent" /\ UNCHANGED <<state, result>> /\ shots' = Append(shots, shot)
    BY <1>4 DEF Kill, Goto
  <2>2. PICK c \in DOMAIN Schedule :
          /\ Current = Schedule[c]
          /\ \A j \in DOMAIN Schedule : j < c => state[Schedule[j]].phase = "released"
    BY <2>1, CurrentIsFirst DEF CurrentInv
  <2>3. \A i \in DOMAIN Schedule : state[Schedule[i]].phase = "waiting" <=> Len(shots) < i
    BY <2>1 DEF OrderInv
  <2>4. c = Len(shots) + 1
    <3>1. Len(shots) < c
      BY <2>1, <2>2, <2>3 DEF CurrentInv
    <3>2. ASSUME Len(shots) + 1 < c PROVE FALSE
      <4>1. Len(shots) + 1 \in DOMAIN Schedule
        BY <1>0, <2>2, <3>2
      <4> QED
        BY <1>0, <2>2, <2>3, <3>2, <4>1, SMTT(30)
    <3> QED
      BY <1>0, <2>2, <3>1, <3>2
  <2>5. /\ Len(shots') = Len(shots) + 1 /\ DOMAIN shots' = 1 .. Len(shots) + 1
        /\ \A i \in DOMAIN shots : shots'[i] = shots[i]
        /\ shots'[Len(shots) + 1] = shot
    <3> HIDE DEF shot
    <3> QED
      BY <1>0, <2>1
  <2>6. \A i \in DOMAIN shots' : shots'[i][1] = Schedule[i]
    <3>1. \A i \in DOMAIN shots : shots'[i][1] = Schedule[i]
      BY <2>5 DEF OrderInv
    <3>2. shots'[Len(shots) + 1][1] = Schedule[Len(shots) + 1]
      BY <2>2, <2>4, <2>5
    <3>3. DOMAIN shots' = DOMAIN shots \union {Len(shots) + 1}
      BY <1>0, <2>5
    <3> QED
      BY <3>1, <3>2, <3>3, Zenon
  <2>7. Len(shots') <= Len(Schedule) /\ 0 < Len(shots')
    BY <1>0, <2>2, <2>4, <2>5
  <2>8. \A i \in DOMAIN Schedule : state[Schedule[i]].phase = "waiting" <=> Len(shots') <= i
    BY <1>0, <2>3, <2>5
  <2>9. result' = "none"
    BY <2>1 DEF OrderInv
  <2> QED
    BY <2>1, <2>6, <2>7, <2>8, <2>9 DEF OrderInv
<1>5. ASSUME ObserveExit PROVE OrderInv'
  <2>1. SeesExit
    BY <1>5, SeesExitIs
  <2>2. pc = "sent" /\ pc' \in {"loop", "release"} /\ UNCHANGED <<shots, result>>
    BY <2>1 DEF SeesExit
  <2>3. PICK c \in DOMAIN Schedule :
          /\ Current = Schedule[c] /\ Current \in Event
          /\ \A j \in DOMAIN Schedule : j < c => state[Schedule[j]].phase = "released"
    BY <2>2, CurrentIsFirst DEF CurrentInv
  <2>4. /\ 0 < Len(shots) /\ Len(shots) <= Len(Schedule)
        /\ \A i \in DOMAIN Schedule : state[Schedule[i]].phase = "waiting" <=> Len(shots) <= i
    BY <2>2 DEF OrderInv
  <2>5. c = Len(shots)
    <3>1. Len(shots) <= c
      BY <2>2, <2>3, <2>4 DEF CurrentInv
    <3>2. ASSUME Len(shots) < c PROVE FALSE
      <4>1. Len(shots) \in DOMAIN Schedule
        BY <1>0, <2>4
      <4>2. state[Schedule[Len(shots)]].phase = "released"
        BY <2>3, <3>2, <4>1
      <4>3. state[Schedule[Len(shots)]].phase = "waiting"
        BY <1>0, <2>4, <4>1
      <4> QED
        BY <4>2, <4>3
    <3> QED
      BY <1>0, <2>3, <3>1, <3>2
  <2>6. \A i \in DOMAIN Schedule : i # c => Schedule[i] # Current
    BY <2>3
  <2>7. \A i \in DOMAIN Schedule : state'[Schedule[i]].phase = "waiting" <=> Len(shots) < i
    <3>1. state'[Current].phase # "waiting"
      BY <2>1 DEF SeesExit
    <3>2. \A i \in DOMAIN Schedule : i # c => state'[Schedule[i]].phase = state[Schedule[i]].phase
      BY <2>1, <2>6 DEF SeesExit
    <3> QED
      BY <1>0, <2>3, <2>4, <2>5, <3>1, <3>2
  <2> QED
    BY <2>2, <2>7 DEF OrderInv
<1>6. ASSUME Calm PROVE OrderInv'
  <2>1. CASE \E v : End(v)
    <3>1. pc' = "ended"
      BY <2>1 DEF End, Goto
    <3> QED
      BY <1>6, <3>1 DEF Calm, OrderInv
  <2>2. CASE ~ \E v : End(v)
    <3>1. ~ SeesExit
      BY <1>6 DEF SeesExit, Calm
    <3>2. \A e \in Event : state'[e].phase = "waiting" <=> state[e].phase = "waiting"
      BY <2>2, <3>1, StateSteps DEF QuietState, TakesReady, TakesReceipt
    <3>3. UNCHANGED <<shots, result>> /\ (pc \in {"sent", "ended"} \/ pc' \in {"sent", "ended"} => pc' = pc)
      BY <1>6 DEF Calm
    <3> QED
      BY <3>2, <3>3 DEF OrderInv
  <2> QED
    BY <2>1, <2>2
<1> QED
  BY <1>1, <1>2, <1>3, <1>4, <1>5, <1>6, PcSteps

(* The barrier and the schedule are what the order of the kills rests on. *)
LEMMA Ordered ==
    ASSUME NsInv PROVE KillsInOrder
<1>1. ASSUME pc \in {"armed", "sent"}, NEW r \in Waiters[Current]
      PROVE  /\ client[state[Current].ready[r]].at = Current
             /\ client[state[Current].ready[r]].freed # Current
  <2>1. Current \in Event /\ state[Current].phase = "waiting" /\ state[Current].ready[r] # None
    BY <1>1, CurrentIsFirst DEF NsInv, CurrentInv
  <2>2. r \in Role
    BY <2>1, NamespaceAssumption
  <2>3. state[Current].ready[r] \in Process
    BY <2>1, <2>2 DEF NsInv, NsTypeOK, EventState, Holders
  <2> QED
    BY <2>1, <2>2, <2>3 DEF NsInv, BarrierInv
<1> QED
  BY <1>1 DEF KillsInOrder, NsInv, OrderInv

-----------------------------------------------------------------------------
LEMMA InitNs ==
    ASSUME NsInit PROVE NsInv /\ AncestryHeld
<1> USE NsInit, ScheduleFacts, Blanks
<1>1. NsTypeOK
  <2>1. /\ proc \in [Pid -> {None} \union Proc] /\ client \in [Process -> Client]
        /\ reg \in Registration /\ active \in Holders /\ state \in [Event -> EventState]
    BY DEF NsInit, Holders
  <2>2. shots \in Seq(Event \X Process) /\ forks \in 0 .. MaxForks
    BY NamespaceAssumption DEF NsInit
  <2> QED
    BY <2>1, <2>2 DEF NsInit, NsTypeOK
<1>2. ProcessInv
  BY DEF NsInit, ProcessInv, Running
<1>3. ChainInv /\ AncestryHeld /\ CurrentInv
  BY DEF NsInit, ChainInv, AncestryHeld, CurrentInv
<1>4. EntryInv
  BY DEF NsInit, EntryInv
<1>5. BarrierInv
  BY DEF NsInit, BarrierInv
<1>6. OrderInv
  BY DEF NsInit, OrderInv
<1> QED
  BY <1>1, <1>2, <1>3, <1>4, <1>5, <1>6 DEF NsInv

LEMMA StepNs ==
    ASSUME NsInv, AncestryHeld, NsStep PROVE NsInv' /\ AncestryHeld'
BY StepNsTyped, StepProcesses, StepChain, StepEntries, StepBarrier, StepCurrent, StepOrder DEF NsInv

LEMMA StutterNs ==
    ASSUME NsInv, AncestryHeld, UNCHANGED nsVars PROVE NsInv' /\ AncestryHeld'
<1>1. NsTypeOK'
  BY DEF NsInv, NsTypeOK, nsVars
<1>2. ProcessInv'
  BY DEF NsInv, ProcessInv, nsVars, Running, Is, Snapshot
<1>3. ChainInv' /\ AncestryHeld'
  BY DEF NsInv, ChainInv, nsVars, Is, Snapshot, Again, AncestryHeld
<1>4. EntryInv'
  BY DEF NsInv, EntryInv, nsVars, Registered
<1>5. BarrierInv'
  BY DEF NsInv, BarrierInv, nsVars
<1>6. CurrentInv'
  <2>1. UNCHANGED <<pc, state>> /\ Pending' = Pending /\ Current' = Current
    BY SamePhases DEF nsVars
  <2> QED
    BY <2>1 DEF NsInv, CurrentInv
<1>7. OrderInv'
  BY DEF NsInv, OrderInv, nsVars
<1> QED
  BY <1>1, <1>2, <1>3, <1>4, <1>5, <1>6, <1>7 DEF NsInv

(* What the supervisor does is nothing to the namespace, or a step of it. *)
LEMMA NextIsNs ==
    ASSUME Next PROVE UNCHANGED nsVars \/ NsStep
<1>1. ASSUME Stop \/ Kill9 PROVE UNCHANGED nsVars \/ NsStep
  BY <1>1 DEF Stop, Kill9, NsStep, NsNext, Controller
<1>2. ASSUME Create \/ Start \/ LateStart \/ Watch \/ Cleanup \/ Inspect \/ RemoveBox \/ Result
      PROVE  UNCHANGED nsVars
  BY <1>2 DEF Create, Start, LateStart, Watch, Cleanup, Inspect, RemoveBox, Result
<1> QED
  BY <1>1, <1>2 DEF Next, Supervisor, NsStep

(* A controller that ended stays so, and one that was not started can only be started. *)
LEMMA EndedStays ==
    ASSUME NsInv, NsStep, pc = "ended" PROVE pc' = "ended" /\ result' = result
<1>1. \A p \in Pid : proc[p] = None
  BY DEF NsInv, ProcessInv
<1>2. ASSUME Boot \/ Controller PROVE FALSE
  BY <1>2 DEF Boot, Controller, Step, Interrupted, Crash, Running, TakeRegister, TakeReady,
              TakeReceipt, TakeEof, Waits, ReadUp, Recheck, Admit, Arm, Kill, ObserveExit, Complete,
              LauncherGone, ReleaseWaiter
<1>3. ASSUME \E p \in Pid : Exit(p) \/ Reap(p) \/ \E q \in Pid : Fork(p, q) PROVE FALSE
  BY <1>1, <1>3 DEF Exit, Reap, Fork
<1>4. ASSUME NEW who \in Process, Receipt(who) \/ \E e \in Event : Ready(who, e)
      PROVE  pc' = pc /\ result' = result
  BY <1>4 DEF Receipt, Ready
<1>5. ASSUME NEW who \in Process, NEW ask \in Asks, Register(who, ask[1], ask[2])
      PROVE  pc' = pc /\ result' = result
  BY <1>5 DEF Register
<1> QED
  BY <1>2, <1>3, <1>4, <1>5 DEF NsStep, NsNext

-----------------------------------------------------------------------------
(* The container and the supervisor *)
BoxInvs == NsInv /\ AncestryHeld /\ TypeOK /\ BoxInv /\ FindingsInv

LEMMA InitBox ==
    ASSUME Init PROVE BoxInvs
<1>1. NsInv /\ AncestryHeld
  BY InitNs DEF Init
<1>2. TypeOK
  BY <1>1 DEF Init, TypeOK, NsInv
<1>3. BoxInv /\ FindingsInv
  BY DEF Init, NsInit, BoxInv, FindingsInv, At
<1> QED
  BY <1>1, <1>2, <1>3 DEF BoxInvs

SupType == [pc : {"create", "start", "watch", "cleanup", "stop", "kill", "inspect", "remove",
                  "result", "done"},
            cid : BOOLEAN, failure : BOOLEAN, errors : BOOLEAN, clean : BOOLEAN]

LEMMA StepBox ==
    ASSUME BoxInvs, Next PROVE BoxInvs'
<1> USE DEF BoxInvs
<1>1. NsInv' /\ AncestryHeld'
  BY NextIsNs, StepNs, StutterNs
<1>2. sup \in SupType /\ NsTypeOK'
  BY <1>1 DEF TypeOK, SupType, NsInv
<1> DEFINE Goal == TypeOK' /\ BoxInv' /\ FindingsInv'
           Typed == /\ box' \in {"none", "created", "started", "removed"}
                    /\ starting' \in BOOLEAN /\ cidfile' \in BOOLEAN
                    /\ sup' \in SupType
<1>3. ASSUME Typed PROVE TypeOK'
  BY <1>2, <1>3 DEF TypeOK, SupType
<1>4. ASSUME Create PROVE Goal
  <2>1. Typed
    BY <1>2, <1>4 DEF Create, TypeOK, SupType, Fails
  <2> QED
    <3>1. /\ sup'.clean = sup.clean /\ UNCHANGED <<pc, starting>> /\ box' \in {"none", "created"}
          /\ sup'.pc = "cleanup" \/ (sup'.pc = "start" /\ box' = "created")
      BY <1>2, <1>4 DEF Create, Fails, SupType, nsVars
    <3>2. sup.pc = "create" /\ box = "none" /\ ~starting /\ ~sup.clean
      BY <1>4 DEF Create, At, BoxInv, FindingsInv
    <3> QED
      BY <1>3, <2>1, <3>1, <3>2 DEF At, BoxInv, FindingsInv
<1>5. ASSUME Start PROVE Goal
  <2>1. Typed
    BY <1>2, <1>5 DEF Start, TypeOK, SupType, Fails, To
  <2> QED
    BY <1>2, <1>3, <1>5, <2>1 DEF Start, Fails, To, At, BoxInv, FindingsInv, SupType, nsVars
<1>6. ASSUME LateStart PROVE Goal
  <2>1. Typed
    BY <1>2, <1>6 DEF LateStart, TypeOK, SupType
  <2> QED
    BY <1>2, <1>3, <1>6, <2>1 DEF LateStart, At, BoxInv, FindingsInv, nsVars, ExitZero
<1>7. ASSUME Watch PROVE Goal
  <2>1. Typed
    BY <1>2, <1>7 DEF Watch, TypeOK, SupType, Fails, To
  <2> QED
    BY <1>2, <1>3, <1>7, <2>1 DEF Watch, Fails, To, At, BoxInv, FindingsInv, SupType, nsVars
<1>8. ASSUME Cleanup PROVE Goal
  <2>1. Typed
    BY <1>2, <1>8 DEF Cleanup, TypeOK, SupType, To
  <2> QED
    <3>1. /\ sup'.clean = sup.clean /\ UNCHANGED <<pc, starting, box>>
          /\ sup'.pc \in {"result", "inspect"} \/ (sup'.pc = "stop" /\ box = "started")
      BY <1>2, <1>8 DEF Cleanup, To, SupType, nsVars, RunningBox
    <3>2. sup.pc = "cleanup" /\ ~sup.clean
      BY <1>8 DEF Cleanup, At, FindingsInv
    <3> QED
      BY <1>3, <2>1, <3>1, <3>2 DEF At, BoxInv, FindingsInv
<1>9. ASSUME Inspect PROVE Goal
  <2>1. Typed
    BY <1>2, <1>9 DEF Inspect, TypeOK, SupType, Errs
  <2> QED
    BY <1>2, <1>3, <1>9, <2>1 DEF Inspect, Errs, At, BoxInv, FindingsInv, SupType, nsVars, RunningBox, ExitZero
<1>10. ASSUME RemoveBox PROVE Goal
  <2>1. Typed
    BY <1>2, <1>10 DEF RemoveBox, TypeOK, SupType, Errs, To
  <2> QED
    BY <1>2, <1>3, <1>10, <2>1 DEF RemoveBox, Errs, To, At, BoxInv, FindingsInv, SupType, nsVars, RunningBox, ExitZero, TypeOK
<1>11. ASSUME Result PROVE Goal
  <2>1. Typed
    BY <1>2, <1>11 DEF Result, TypeOK, SupType, To
  <2> QED
    BY <1>2, <1>3, <1>11, <2>1 DEF Result, To, At, BoxInv, FindingsInv, SupType, nsVars, ExitZero
<1>12. ASSUME Stop PROVE Goal
  <2>1. Typed
    BY <1>2, <1>12 DEF Stop, TypeOK, SupType, Errs, To
  <2> QED
    BY <1>2, <1>3, <1>12, <2>1 DEF Stop, Errs, To, At, BoxInv, FindingsInv, SupType, RunningBox
<1>13. ASSUME Kill9 PROVE Goal
  <2>1. Typed
    BY <1>2, <1>13 DEF Kill9, TypeOK, SupType, Errs, To
  <2> QED
    BY <1>2, <1>3, <1>13, <2>1 DEF Kill9, Errs, To, At, BoxInv, FindingsInv, SupType
<1>14. ASSUME box = "started", NsStep, UNCHANGED <<box, starting, cidfile, sup>> PROVE Goal
  <2>1. Typed
    BY <1>2, <1>14 DEF TypeOK
  <2>2. ExitZero => ExitZero'
    BY <1>14, EndedStays DEF NsInv, OrderInv, ExitZero
  <2> QED
    BY <1>2, <1>3, <1>14, <2>1, <2>2 DEF At, BoxInv, FindingsInv
<1> QED
  BY <1>1, <1>4, <1>5, <1>6, <1>7, <1>8, <1>9, <1>10, <1>11, <1>12, <1>13, <1>14
     DEF Next, Supervisor, NsStep

LEMMA StutterBox ==
    ASSUME BoxInvs, UNCHANGED vars PROVE BoxInvs'
<1>1. NsInv' /\ AncestryHeld' /\ UNCHANGED <<box, starting, cidfile, sup, pc, result>>
  BY StutterNs DEF BoxInvs, vars, nsVars
<1> QED
  BY <1>1 DEF BoxInvs, TypeOK, NsInv, BoxInv, FindingsInv, At, ExitZero

LEMMA CleanSuccess ==
    ASSUME BoxInvs PROVE SuccessIsClean
<1> USE DEF BoxInvs
<1>1. ASSUME sup.pc = "done", sup.clean, ~sup.errors
      PROVE  box = "removed" /\ \A p \in Pid : proc[p] = None
  BY <1>1 DEF FindingsInv, BoxInv, NsInv, ProcessInv
<1>2. ASSUME result = "execution_complete" PROVE [i \in DOMAIN shots |-> shots[i][1]] = Schedule
  <2>1. Len(shots) = Len(Schedule) /\ \A i \in DOMAIN shots : shots[i][1] = Schedule[i]
    BY <1>2 DEF NsInv, OrderInv
  <2>2. DOMAIN shots = 1 .. Len(shots)
    BY DEF NsInv, NsTypeOK
  <2>3. Schedule = [i \in 1 .. Len(Schedule) |-> Schedule[i]]
    BY ScheduleFacts
  <2> QED
    BY <2>1, <2>2, <2>3
<1> QED
  BY <1>1, <1>2 DEF SuccessIsClean, FindingsInv, ExitZero

-----------------------------------------------------------------------------
(* The inductive invariant of the run, with the supervisor around the controller *)
THEOREM RunInvariant == Spec => []BoxInvs
<1>1. Init => BoxInvs
  BY InitBox
<1>2. BoxInvs /\ [Next]_vars => BoxInvs'
  BY StepBox, StutterBox
<1> QED
  BY <1>1, <1>2, PTL DEF Spec

(* Every variable of the controller, its clients and the supervisor keeps its shape. *)
THEOREM TypeCorrect == Spec => []TypeOK
<1>1. BoxInvs => TypeOK
  BY DEF BoxInvs
<1> QED
  BY <1>1, RunInvariant, PTL

(* However processes fork, exit, are reaped and have their pids used again between the
   reads of /proc, a process is admitted only with a chain of ancestors up to the
   launcher that was whole at one moment (descendants.py, recheck from the top).      *)
THEOREM AdmittedAncestry == Spec => []AncestryHeld
<1>1. BoxInvs => AncestryHeld
  BY DEF BoxInvs
<1> QED
  BY <1>1, RunInvariant, PTL

(* Targets are killed once each, in the order of the schedule, and only while every
   waiter of the event stands at its barrier.                                         *)
THEOREM ScheduledKills == Spec => []KillsInOrder
<1>1. BoxInvs => KillsInOrder
  BY Ordered DEF BoxInvs
<1> QED
  BY <1>1, RunInvariant, PTL

(* A supervisor that reports no error and a confirmed cleanup has left nothing running,
   and one that reports no failure has run the whole schedule.                        *)
THEOREM CleanEnd == Spec => []SuccessIsClean
<1>1. BoxInvs => SuccessIsClean
  BY CleanSuccess
<1> QED
  BY <1>1, RunInvariant, PTL

===============================================================================
