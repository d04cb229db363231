---------------------------- MODULE NamespaceRun ----------------------------
(***************************************************************************)
(* The controller of scripts/ft/namespace_run.py, PID 1 of a private       *)
(* namespace, with the registration of descendants of                      *)
(* scripts/ft/descendants.py and its client.                               *)
(*                                                                         *)
(* The controller starts one launcher.  Its descendants fork, exit, lose   *)
(* their parents and have their pids used again while the controller reads *)
(* their ancestry from /proc, one process at a time.  A process that has   *)
(* proved its descent holds a role; when all waiters of the next scheduled *)
(* event are ready the controller kills the target, sees it exit and       *)
(* releases the others.                                                    *)
(*                                                                         *)
(* A process is named by its start time, a number no other process has; it *)
(* stands for its pidfd and its incarnation.  Timeouts may strike whenever *)
(* what they watch has not happened.                                       *)
(***************************************************************************)
EXTENDS Naturals, FiniteSets, SequencesExt

CONSTANTS Pid,       \* pids of the namespace but 1
          Launcher,  \* the launcher's
          Role,
          Schedule,  \* config["schedule"]: the event ids in order
          Waiters, Target,
          Asks,      \* <<role, event>> the workers of the run register with; None is no event
          None,
          MaxForks   \* bound on the processes that ever exist, the launcher included

Event == Range(Schedule)
Process == 1..MaxForks
Proc == [start : Process, ppid : Pid \union {1}, zombie : BOOLEAN]  \* an entry of /proc
Message == [kind : {"register"}, role : Role, event : Event \union {None}]
           \union [kind : {"ready", "released"}, event : Event]             \* a packet of a client

ASSUME NamespaceAssumption ==
    /\ Pid \subseteq Nat \ {0, 1} /\ Launcher \in Pid
    /\ Schedule \in Seq(Event) /\ IsInjective(Schedule) /\ MaxForks \in Nat \ {0}
    /\ None \notin Event \union Role \union Nat \union Proc \union Message
    /\ Asks \subseteq Role \X (Event \union {None})
    /\ \A e \in Event : Target[e] \in Waiters[e] /\ Waiters[e] \subseteq Role

VARIABLES
    proc,     \* what /proc says of each pid
    forks,    \* processes that were started
    client,   \* the Client of each process, and the packets it has sent
    pc,       \* where the controller is
    reg,      \* the registration it is validating
    entries,  \* registered descendants: their role, requested event and ancestry
    active,   \* active_roles
    state,    \* states of the events
    todo,     \* waiters it still has to release
    shots,    \* journal: <<event, process>> of every signal_sent, in order
    result    \* the result record

nsVars == <<proc, forks, client, pc, reg, entries, active, state, todo, shots, result>>

Link == [pid : Pid, start : Process, ppid : Pid \union {1}]
Client == [at : Event \union {None}, injection : {None, "pending", "already_fired"},
           sent : Seq(Message), freed : Event \union {None}, open : BOOLEAN]
Registration == [who : Process \union {None}, message : Message \union {None}, chain : Seq(Link),
                 next : Nat \union {None}, held : BOOLEAN]
Entry == [who : Process, role : Role, event : Event \union {None}, chain : Seq(Link)]
Holders == [Role -> Process \union {None}]
EventState == [ready : Holders, receipt : SUBSET Role,
               phase : {"waiting", "releasing", "released"}, allocated : Holders]

Roots == [start |-> 1, ppid |-> 1, zombie |-> FALSE]
NoClient == [at |-> None, injection |-> None, sent |-> <<>>, freed |-> None, open |-> FALSE]
NoReg == [who |-> None, message |-> None, chain |-> <<>>, next |-> None, held |-> FALSE]
NoState == [ready |-> [r \in Role |-> None], receipt |-> {}, phase |-> "waiting",
            allocated |-> [r \in Role |-> None]]

----------------------------------------------------------------------------
(* Processes and /proc. *)

PidOf(who) == CHOOSE p \in Pid : proc[p] # None /\ proc[p].start = who
Exists(who) == \E p \in Pid : proc[p] # None /\ proc[p].start = who
Alive(who) == Exists(who) /\ ~proc[PidOf(who)].zombie

(* snapshot(pid) *)
Snapshot(p) == [pid |-> p, start |-> proc[p].start, ppid |-> proc[p].ppid]
Is(link) == proc[link.pid] # None /\ Snapshot(link.pid) = link
Root == [pid |-> Launcher, start |-> 1, ppid |-> 1]

Fork(p, q) ==
    /\ proc[p] # None /\ ~proc[p].zombie /\ proc[q] = None /\ forks < MaxForks
    /\ forks' = forks + 1
    /\ proc' = [proc EXCEPT ![q] = [start |-> forks', ppid |-> p, zombie |-> FALSE]]
    /\ UNCHANGED <<client, pc, reg, entries, active, state, todo, shots, result>>

(* A process that exits is a zombie and its children are children of PID 1. *)
Ended(p) == [q \in Pid |->
    IF proc[q] = None THEN None
    ELSE [proc[q] EXCEPT !.zombie = @ \/ q = p, !.ppid = IF @ = p THEN 1 ELSE @]]

Exit(p) ==
    /\ proc[p] # None /\ ~proc[p].zombie
    /\ proc' = Ended(p)
    /\ UNCHANGED <<forks, client, pc, reg, entries, active, state, todo, shots, result>>

(* Its pid is free when its parent has waited for it; the controller never does. *)
Reap(p) ==
    /\ proc[p] # None /\ proc[p].zombie /\ proc[p].ppid # 1
    /\ proc' = [proc EXCEPT ![p] = None]
    /\ UNCHANGED <<forks, client, pc, reg, entries, active, state, todo, shots, result>>

----------------------------------------------------------------------------
(* The client of a process. *)

Send(who, message) == client' = [client EXCEPT ![who].sent = Append(@, message)]
Running == pc \notin {"off", "ended"}

Register(who, role, event) ==
    /\ Running /\ Alive(who) /\ who # 1 /\ client[who] = NoClient
    /\ client' = [client EXCEPT ![who] = [NoClient EXCEPT !.open = TRUE,
                     !.sent = <<[kind |-> "register", role |-> role, event |-> event]>>]]
    /\ UNCHANGED <<proc, forks, pc, reg, entries, active, state, todo, shots, result>>

EntryOf(who) == CHOOSE x \in entries : x.who = who
Registered(who) == \E x \in entries : x.who = who

(* ready: not without an injection that is pending, if one was asked for. *)
Ready(who, e) ==
    /\ Running /\ Alive(who) /\ Registered(who) /\ client[who].open
    /\ client[who].at = None /\ client[who].freed # e
    /\ EntryOf(who).role \in Waiters[e]
    /\ EntryOf(who).event # None => EntryOf(who).event = e /\ client[who].injection = "pending"
    /\ client' = [client EXCEPT ![who].at = e,
                     ![who].sent = Append(@, [kind |-> "ready", event |-> e])]
    /\ UNCHANGED <<proc, forks, pc, reg, entries, active, state, todo, shots, result>>

(* wait_release returns and the receipt is sent. *)
Receipt(who) ==
    LET e == client[who].at
    IN  /\ Alive(who) /\ e # None /\ client[who].freed = e
        /\ client' = [client EXCEPT ![who].at = None,
                         ![who].sent = Append(@, [kind |-> "released", event |-> e])]
        /\ UNCHANGED <<proc, forks, pc, reg, entries, active, state, todo, shots, result>>

----------------------------------------------------------------------------
(* The controller. *)

Goto(step) == pc' = step

Blank ==
    /\ proc' = [p \in Pid |-> None] /\ forks' = 0
    /\ client' = [who \in Process |-> NoClient]
    /\ reg' = NoReg /\ entries' = {} /\ active' = [r \in Role |-> None]
    /\ state' = [e \in Event |-> NoState] /\ todo' = {}

(* main and control: the launcher is started, or cannot be. *)
Boot ==
    /\ pc = "off"
    /\ \/ /\ proc' = [proc EXCEPT ![Launcher] = Roots] /\ forks' = 1
          /\ Goto("loop")
       \/ Goto("ended") /\ UNCHANGED <<proc, forks>>
    /\ UNCHANGED <<result, client, reg, entries, active, state, todo, shots>>

(* PID 1 exits: the kernel kills every process of its namespace, and what they and the
   controller had in memory is gone; the journal stays. *)
End(verdict) ==
    /\ result' = verdict /\ Goto("ended")
    /\ Blank
    /\ UNCHANGED shots

Fail == End("technical_invalid")

(* A lease that is missing or expired, a deadline or watchdog, a signal, a write that
   raises; a crash leaves no record. *)
Interrupted == Running /\ Fail
Crash == pc # "ended" /\ End("none")

Head1(who) == Head(client[who].sent)
Waits(who, kind) == pc = "loop" /\ client[who].sent # <<>> /\ Head1(who).kind = kind
Taken(who) == client' = [client EXCEPT ![who].sent = Tail(@)]

(* Descendant.__init__: the pidfd is of a live sender, whose ancestry is read ... *)
TakeRegister(who) ==
    /\ Waits(who, "register")
    /\ IF Alive(who)
       THEN /\ Goto("lineage") /\ Taken(who)
            /\ reg' = [NoReg EXCEPT !.who = who, !.message = Head1(who), !.next = PidOf(who)]
            /\ UNCHANGED <<proc, forks, entries, active, state, todo, shots, result>>
       ELSE Fail

(* ... up to the launcher, one process after the other ... *)
ReadUp ==
    LET p == reg.next
        link == Snapshot(p)
        chain == Append(reg.chain, link)
        up == link.ppid
    IN  /\ pc = "lineage"
        /\ IF \/ proc[p] = None
              \/ (p = Launcher /\ link # Root)
              \/ (p # Launcher /\ (up <= 1 \/ \E i \in DOMAIN chain : chain[i].pid = up))
           THEN Fail
           ELSE /\ reg' = [reg EXCEPT !.chain = chain, !.next = IF p = Launcher THEN None ELSE up,
                                     !.held = \A i \in DOMAIN chain : Is(chain[i])]
                /\ IF p = Launcher THEN Goto("recheck") ELSE UNCHANGED pc
                /\ UNCHANGED <<proc, forks, client, entries, active, state, todo, shots, result>>

(* The links are not read again. *)
RecheckNothing ==
    /\ pc = "recheck" /\ Goto("admit")
    /\ UNCHANGED <<proc, forks, client, reg, entries, active, state, todo, shots, result>>

(* ... and down again: next counts what was read again. *)
Again == IF reg.next = None THEN Len(reg.chain) ELSE reg.next
Recheck ==
    /\ pc = "recheck"
    /\ IF Is(reg.chain[Again])
       THEN /\ reg' = [reg EXCEPT !.next = Again - 1]
            /\ IF Again = 1 THEN Goto("admit") ELSE UNCHANGED pc
            /\ UNCHANGED <<proc, forks, client, entries, active, state, todo, shots, result>>
       ELSE Fail

(* injection_assignment *)
AssignmentFails(m, who) ==
    /\ m.event # None
    /\ \/ m.role \notin Waiters[m.event]
       \/ state[m.event].phase \notin {"waiting", "releasing", "released"}
       \/ /\ state[m.event].phase = "waiting"
          /\ state[m.event].allocated[m.role] \notin {None, who}
Assignment(m) == IF m.event = None THEN None
                 ELSE IF state[m.event].phase = "waiting" THEN "pending" ELSE "already_fired"

(* The pidfd and the sender are validated once more; the role is taken. *)
Admit ==
    LET m == reg.message  who == reg.who  previous == active[m.role]
    IN  /\ pc = "admit"
        /\ IF \/ ~Alive(who) \/ ~Is(reg.chain[1])
              \/ (previous # None /\ Alive(previous))
              \/ AssignmentFails(m, who)
           THEN Fail
           ELSE /\ entries' = entries \union {[who |-> who, role |-> m.role, event |-> m.event,
                                              chain |-> reg.chain]}
                /\ active' = [active EXCEPT ![m.role] = who]
                /\ state' = IF Assignment(m) = "pending"
                           THEN [state EXCEPT ![m.event].allocated[m.role] = who] ELSE state
                /\ client' = [client EXCEPT ![who].injection = Assignment(m)]
                /\ reg' = NoReg /\ Goto("loop")
                /\ UNCHANGED <<proc, forks, todo, shots, result>>

(* Descendant.verify.  What it reads never comes back once it has changed, so reading
   it twice, one process at a time, says what one look says. *)
Verified(who) == Alive(who) /\ \A i \in DOMAIN EntryOf(who).chain : Is(EntryOf(who).chain[i])

Expects(who, e) == LET x == EntryOf(who)
                   IN  x.role \in Waiters[e] /\ x.event \in {None, e}

TakeReady(who) ==
    LET e == Head1(who).event  role == EntryOf(who).role
        prior == state[e].ready[role]
    IN  /\ Waits(who, "ready")
        /\ IF Expects(who, e) /\ (prior = who \/ (prior = None /\ Verified(who)))
           THEN /\ state' = [state EXCEPT ![e].ready[role] = who]
                /\ Taken(who)
                /\ UNCHANGED <<proc, forks, pc, reg, entries, active, todo, shots, result>>
           ELSE Fail

Others(e) == Waiters[e] \ {Target[e]}

TakeReceipt(who) ==
    LET e == Head1(who).event  role == EntryOf(who).role
        receipt == state[e].receipt \union {role}
    IN  /\ Waits(who, "released")
        /\ IF /\ Expects(who, e) /\ role # Target[e]
              /\ state[e].phase \in {"releasing", "released"} /\ state[e].ready[role] = who
           THEN /\ state' = [state EXCEPT ![e].receipt = receipt,
                                ![e].phase = IF receipt = Others(e) THEN "released" ELSE @]
                /\ Taken(who)
                /\ UNCHANGED <<proc, forks, pc, reg, entries, active, todo, shots, result>>
           ELSE Fail

(* The channel of a process that is gone is at its end: a failure of a process that
   was not registered, and of a waiter that owes a receipt. *)
Owes(who, e) ==
    LET role == EntryOf(who).role
    IN  /\ state[e].ready[role] = who
        /\ ~(role = Target[e] /\ state[e].phase \in {"releasing", "released"})
        /\ role \notin state[e].receipt

TakeEof(who) ==
    /\ pc = "loop" /\ client[who].open /\ client[who].sent = <<>> /\ ~Alive(who)
    /\ IF ~Registered(who) \/ \E e \in Event : Owes(who, e)
       THEN Fail
       ELSE /\ client' = [client EXCEPT ![who].open = FALSE]
            /\ UNCHANGED <<proc, forks, pc, reg, entries, active, state, todo, shots, result>>

Pending == {i \in DOMAIN Schedule : state[Schedule[i]].phase # "released"}
First(indices) == Schedule[CHOOSE i \in indices : \A j \in indices : i <= j]

(* The first event whose waiters are all ready, whatever comes before it. *)
FirstReady ==
    LET ready == {i \in Pending : \A r \in Waiters[Schedule[i]] : state[Schedule[i]].ready[r] # None}
    IN  First(IF ready = {} THEN Pending ELSE ready)

(* Only the first event that is not released is looked at. *)
Current == First(Pending)

Arm ==
    LET e == Current
    IN  /\ pc = "loop" /\ Pending # {} /\ state[e].phase = "waiting"
        /\ \A r \in Waiters[e] : state[e].ready[r] # None
        /\ IF \A r \in Waiters[e] : Verified(state[e].ready[r])
           THEN Goto("armed") /\ UNCHANGED <<proc, forks, client, reg, entries, active, state, todo, shots, result>>
           ELSE Fail

(* Descendant.kill; armed and signal_intent were recorded before. *)
Kill ==
    LET e == Current  who == state[e].ready[Target[e]]
    IN  /\ pc = "armed"
        /\ IF Verified(who)
           THEN /\ shots' = Append(shots, <<e, who>>)
                /\ proc' \in {proc, Ended(PidOf(who))}
                /\ Goto("sent")
                /\ UNCHANGED <<forks, client, reg, entries, active, state, todo, result>>
           ELSE Fail

(* The pidfd of the target is readable; now the others are released. *)
ObserveExit ==
    LET e == Current
    IN  /\ pc = "sent" /\ ~Alive(state[e].ready[Target[e]])
        /\ state' = [state EXCEPT ![e].phase = IF Others(e) = {} THEN "released" ELSE "releasing"]
        /\ todo' = Others(e)
        /\ Goto(IF Others(e) = {} THEN "loop" ELSE "release")
        /\ UNCHANGED <<proc, forks, client, reg, entries, active, shots, result>>

ReleaseWaiter(r) ==
    LET e == Current  who == state[e].ready[r]
    IN  /\ pc = "release" /\ r \in todo
        /\ IF Alive(who)
           THEN /\ client' = [client EXCEPT ![who].freed = e]
                /\ todo' = todo \ {r}
                /\ Goto(IF todo' = {} THEN "loop" ELSE "release")
                /\ UNCHANGED <<proc, forks, reg, entries, active, state, shots, result>>
           ELSE Fail

Released == \A e \in Event : state[e].phase = "released"

(* The run deadline, or the end of the launcher, after the whole schedule. *)
LauncherEnded == proc[Launcher].zombie
Complete == pc = "loop" /\ Released /\ End("execution_complete")
LauncherGone == /\ pc = "loop" /\ LauncherEnded /\ ~Released
                /\ \A who \in Process : ~client[who].open
                /\ Fail

Step(who) == TakeRegister(who) \/ TakeReady(who) \/ TakeReceipt(who) \/ TakeEof(who)
Controller ==
    \/ Interrupted \/ Crash \/ ReadUp \/ Recheck \/ Admit \/ Arm \/ Kill \/ ObserveExit
    \/ Complete \/ LauncherGone
    \/ \E who \in Process : Step(who)
    \/ \E r \in Role : ReleaseWaiter(r)

NsInit ==
    /\ proc = [p \in Pid |-> None] /\ forks = 0
    /\ client = [who \in Process |-> NoClient]
    /\ pc = "off" /\ reg = NoReg /\ entries = {} /\ active = [r \in Role |-> None]
    /\ state = [e \in Event |-> NoState] /\ todo = {} /\ shots = <<>> /\ result = "none"

NsNext ==
    \/ Controller
    \/ \E p, q \in Pid : Fork(p, q)
    \/ \E p \in Pid : Exit(p) \/ Reap(p)
    \/ \E who \in Process : Receipt(who) \/ \E e \in Event : Ready(who, e)
    \/ \E who \in Process, ask \in Asks : Register(who, ask[1], ask[2])

----------------------------------------------------------------------------
(* Everything has the shape its code gives it. *)
NsTypeOK ==
    /\ proc \in [Pid -> {None} \union Proc] /\ forks \in 0..MaxForks
    /\ client \in [Process -> Client]
    /\ pc \in {"off", "loop", "lineage", "recheck", "admit", "armed", "sent", "release", "ended"}
    /\ reg \in Registration /\ entries \subseteq Entry
    /\ active \in Holders /\ state \in [Event -> EventState] /\ todo \subseteq Role
    /\ shots \in Seq(Event \X Process)
    /\ result \in {"none", "execution_complete", "technical_invalid"}

(* A process is admitted only if, at one moment while its ancestry was read, every
   link of the chain to the launcher was there: no chain is put together of links of
   different moments, whatever forks, exits and reused pids happen between the reads. *)
AncestryHeld == pc = "admit" => reg.held

(* A target is killed for an event only after those of the events before it in the
   schedule, and when every waiter of the event stands at its barrier; and no event
   kills two processes. *)
KillsInOrder ==
    /\ \A i \in DOMAIN shots : shots[i][1] = Schedule[i]
    /\ pc \in {"armed", "sent"} => \A r \in Waiters[Current] :
          LET who == state[Current].ready[r]
          IN  client[who].at = Current /\ client[who].freed # Current
=============================================================================
