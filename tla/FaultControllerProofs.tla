------------------------ MODULE FaultControllerProofs ------------------------
(***************************************************************************)
(* Proofs about FaultController, for any configuration and schedule that   *)
(* passes preflight, any bounds, and a disk that may fail or not.          *)
(***************************************************************************)
EXTENDS FaultController, TLAPS

InAttempt == pc \in {"launch", "loop", "fire", "kill", "wait", "release", "abort", "drain", "reap"}

(* What messages in flight and standing workers say about the past *)
WiresInv ==
    /\ \A w \in Worker : \A i \in 1 .. Len(toWorker[w]) :
          toWorker[w][i].kind = "release" =>
              toWorker[w][i].event \in observed /\ w[2] \in Others(toWorker[w][i].event)
    /\ \A w \in Worker : \A i \in 1 .. Len(toCtl[w]) :
          /\ AttemptOf[toCtl[w][i].event] = w[1] /\ w[2] \in Waiters[toCtl[w][i].event]
          /\ toCtl[w][i].kind = "ready" => <<toCtl[w][i].event, w[2]>> \in reached
          /\ toCtl[w][i].kind = "released" => <<toCtl[w][i].event, w[2]>> \in passed
    /\ \A w \in Worker : at[w] # None =>
          AttemptOf[at[w]] = w[1] /\ w[2] \in Waiters[at[w]] /\ <<at[w], w[2]>> \in reached

(* Where an injection stands *)
CutInv ==
    /\ \A e \in observed : life[TargetOf(e)] = "killed"
    /\ pc \in {"fire", "kill", "wait", "release"} => ev \in Events(cur) /\ ready[ev] = Waiters[ev]
    /\ pc \in {"fire", "kill"} => shots[ev] = 0
    /\ pc \in {"kill", "wait", "release"} => ev \in fired
    /\ pc = "wait" => \A f \in observed : TargetOf(f) # TargetOf(ev)
    /\ pc = "release" => ev \in observed /\ todo \subseteq Others(ev)
    /\ \A e \in Event : \A r \in ready[e] : <<e, r>> \in reached
    /\ \A e \in Event : shots[e] > 0 => shots[e] = 1 /\ e \in fired /\ ready[e] = Waiters[e]
    /\ \A e, f \in observed : e # f => TargetOf(e) # TargetOf(f)
    /\ \A x \in passed : x[1] \in observed /\ x[2] \in Others(x[1])

(* Phases and ended attempts stand for receipts on disk *)
ReceiptInv ==
    /\ receipts \subseteq passed
    /\ \A e \in Event : \A r \in released[e] : <<e, r>> \in receipts
    /\ \A e \in Event : phase[e] # "waiting" => e \in observed
    /\ \A e \in Event : phase[e] = "released" => \A r \in Others(e) : <<e, r>> \in receipts
    /\ pc \in {"abort", "drain", "reap", "verdict"} /\ outcome = "ok" => AllReleased
    /\ \A e \in Event : AttemptOf[e] \in ended =>
          e \in observed /\ \A r \in Others(e) : <<e, r>> \in receipts
    /\ "execution_complete" \in Range(results) => Attempt \subseteq ended

(* Whose workers may be alive *)
OwnerInv ==
    /\ \A w \in Worker : Alive(w) => w[1] = cur /\ cur \in started /\ cur \notin ended
    /\ pc = "attempts" => started \subseteq ended
    /\ InAttempt => cur \in started /\ cur \notin ended /\ started \subseteq ended \cup {cur}
    /\ pc = "verdict" /\ outcome = "ok" =>
          /\ cur \in started /\ started \subseteq ended \cup {cur}
          /\ \A w \in Worker : ~Alive(w)

FInv == TypeOK /\ WiresInv /\ CutInv /\ ReceiptInv /\ OwnerInv

(* On a disk that works a result is the last thing the controller writes *)
DoneInv == results # <<>> /\ ~DiskFails => pc = "off"

AllDoomed == \A w \in Worker : Alive(w) => w \in signalled

(* Where a first run of the controller has seen to its processes *)
CleanInv ==
    /\ pc \in {"reap", "verdict"} => AllDoomed
    /\ results # <<>> => pc = "off" \/ (pc = "verdict" /\ outcome = "fail")
    /\ results # <<>> /\ runs <= 1 => AllDoomed
    /\ runs = 0 => pc = "off" /\ started = {}

-----------------------------------------------------------------------------
(* The messages in flight                                                    *)

SendOf(q, w, m) == [q EXCEPT ![w] = Append(@, m)]
TakeOf(q, w)    == [q EXCEPT ![w] = Tail(@)]
Silence         == [w \in Worker |-> <<>>]

(* What is in flight after a send was there before, or is what was sent *)
AddsOnly(q, w, m) ==
    \A v \in Worker : \A i \in 1 .. Len(SendOf(q, w, m)[v]) :
        \/ i \in 1 .. Len(q[v]) /\ SendOf(q, w, m)[v][i] = q[v][i]
        \/ v = w /\ SendOf(q, w, m)[v][i] = m

(* Sending appends the message for one worker. *)
LEMMA SendFacts ==
  ASSUME NEW q \in [Worker -> Seq(Message)], NEW w \in Worker, NEW m \in Message
  PROVE  /\ SendOf(q, w, m) \in [Worker -> Seq(Message)]
         /\ AddsOnly(q, w, m)
<1>1. /\ Append(q[w], m) \in Seq(Message) /\ Len(Append(q[w], m)) = Len(q[w]) + 1
      /\ \A i \in 1 .. Len(q[w]) : Append(q[w], m)[i] = q[w][i]
      /\ Append(q[w], m)[Len(q[w]) + 1] = m
      /\ Len(q[w]) \in Nat
  OBVIOUS
<1>2. SendOf(q, w, m) \in [Worker -> Seq(Message)]
  BY <1>1 DEF SendOf
<1>3. \A v \in Worker : SendOf(q, w, m)[v] = IF v = w THEN Append(q[w], m) ELSE q[v]
  BY DEF SendOf
<1>4. ASSUME NEW v \in Worker, NEW i \in 1 .. Len(SendOf(q, w, m)[v])
      PROVE  \/ i \in 1 .. Len(q[v]) /\ SendOf(q, w, m)[v][i] = q[v][i]
             \/ v = w /\ SendOf(q, w, m)[v][i] = m
  <2>1. CASE v # w
    <3>1. SendOf(q, w, m)[v] = q[v]
      BY <1>3, <2>1
    <3> QED BY <3>1
  <2>2. CASE v = w
    <3>1. SendOf(q, w, m)[v] = Append(q[w], m)
      BY <1>3, <2>2
    <3>2. i \in 1 .. Len(q[w]) + 1
      BY <1>1, <3>1
    <3>3. i \in 1 .. Len(q[w]) \/ i = Len(q[w]) + 1
      BY <1>1, <3>2
    <3> QED BY <1>1, <2>2, <3>1, <3>3
  <2> QED BY <2>1, <2>2
<1> QED BY <1>2, <1>4 DEF AddsOnly

(* Taking drops the first message of one worker. *)
LEMMA TakeFacts ==
  ASSUME NEW q \in [Worker -> Seq(Message)], NEW w \in Worker, q[w] # <<>>
  PROVE  /\ TakeOf(q, w) \in [Worker -> Seq(Message)]
         /\ \A v \in Worker : \A i \in 1 .. Len(TakeOf(q, w)[v]) :
               \E j \in 1 .. Len(q[v]) : TakeOf(q, w)[v][i] = q[v][j]
<1>1. /\ Tail(q[w]) \in Seq(Message) /\ Len(Tail(q[w])) = Len(q[w]) - 1
      /\ \A i \in 1 .. Len(Tail(q[w])) : i + 1 \in 1 .. Len(q[w]) /\ Tail(q[w])[i] = q[w][i + 1]
      /\ Len(q[w]) \in Nat
  OBVIOUS
<1>2. TakeOf(q, w) \in [Worker -> Seq(Message)]
  BY <1>1 DEF TakeOf
<1>3. \A v \in Worker : TakeOf(q, w)[v] = IF v = w THEN Tail(q[w]) ELSE q[v]
  BY DEF TakeOf
<1> QED BY <1>1, <1>2, <1>3

(* A closed channel holds nothing. *)
LEMMA SilenceFacts ==
  /\ Silence \in [Worker -> Seq(Message)]
  /\ \A v \in Worker : Silence[v] = <<>> /\ Len(Silence[v]) = 0
BY DEF Silence

(* A message the controller takes is about an event of its attempt and one of
   its waiters, and says that the barrier was reached or passed.             *)
LEMMA ReceivedFacts ==
  ASSUME FInv, NEW w \in Worker, NEW e \in Event, NEW kind \in {"ready", "released"},
         Received(w, kind, e)
  PROVE  /\ w[1] = cur /\ AttemptOf[e] = cur /\ w[2] \in Waiters[e] /\ w[2] \in Role
         /\ kind = "ready" => <<e, w[2]>> \in reached
         /\ kind = "released" => <<e, w[2]>> \in passed
         /\ toCtl[w] \in Seq(Message) /\ toCtl[w] # <<>>
         /\ toCtl' = TakeOf(toCtl, w)
<1>1. toCtl[w] \in Seq(Message) /\ toCtl[w] # <<>> /\ Head(toCtl[w]) = toCtl[w][1]
      /\ 1 \in 1 .. Len(toCtl[w])
  BY DEF FInv, TypeOK, WireTypeOK, Received
<1>2. toCtl[w][1].kind = kind /\ toCtl[w][1].event = e
  BY <1>1 DEF Received
<1>3. w[1] = cur /\ w[2] \in Role
  BY DEF Received, Mine, Worker
<1> QED BY <1>1, <1>2, <1>3 DEF FInv, WiresInv, Received, TakeOf

(* What an abort step writes. *)
LEMMA AbortFacts ==
  ASSUME FInv, Abort
  PROVE  /\ \/ \E w \in Worker, e \in Event :
                  /\ toWorker' = SendOf(toWorker, w, [kind |-> "abort", event |-> e])
                  /\ pending' = pending \cup {<<w, e>>}
                  /\ pc' = pc
            \/ pc' = "drain" /\ UNCHANGED <<toWorker, pending>>
         /\ pc = "abort"
         /\ UNCHANGED <<file, cur, ev, todo, outcome, ready, released, phase, eof, late, runs, procs,
                        barrier, linked, toCtl>>
<1>1. ASSUME NEW x \in Unreleased
      PROVE  x[1] \in Worker /\ x[2] \in Event /\ x = <<x[1], x[2]>>
  BY DEF Unreleased, Mine, Events
<1>2. ASSUME NEW x \in Unreleased \ pending,
             toWorker' = [toWorker EXCEPT ![x[1]] = Append(@, [kind |-> "abort", event |-> x[2]])],
             pending' = pending \cup {x}, pc' = pc
      PROVE  \E w \in Worker, e \in Event :
                  /\ toWorker' = SendOf(toWorker, w, [kind |-> "abort", event |-> e])
                  /\ pending' = pending \cup {<<w, e>>}
                  /\ pc' = pc
  <2>1. x[1] \in Worker /\ x[2] \in Event /\ x = <<x[1], x[2]>>
    BY <1>1
  <2> QED BY <1>2, <2>1 DEF SendOf
<1> QED BY <1>2 DEF Abort

(* What a drain step drops. *)
LEMMA DrainFacts ==
  ASSUME FInv, Drain
  PROVE  /\ pending' \subseteq pending
         /\ \/ \E w \in Worker : toCtl[w] # <<>> /\ toCtl' = TakeOf(toCtl, w)
            \/ toCtl' = toCtl
         /\ UNCHANGED <<file, pc, cur, ev, todo, outcome, ready, released, phase, eof, late, runs,
                        procs, barrier, linked, toWorker>>
<1>1. \A x \in pending : x[1] \in Worker
  BY DEF FInv, TypeOK, ControlTypeOK
<1> QED BY <1>1 DEF Drain, TakeOf

(* The records stay about the schedule. *)
LEMMA FileStep ==
  ASSUME FInv, [Next]_vars
  PROVE  FileTypeOK'
<1>1. CASE Enter
  <2>1. results' \in Seq({"technical_invalid", "execution_complete"})
    BY <1>1 DEF FInv, TypeOK, FileTypeOK, Enter
  <2> QED BY <1>1, <2>1 DEF FInv, TypeOK, FileTypeOK, Enter
<1>2. CASE EnterUnreadable
  BY <1>2, FaultAssumption DEF FInv, TypeOK, FileTypeOK, Events, CutInv, OwnerInv, InAttempt,
     EnterUnreadable, file, memory, procs, barrier, wires
<1>3. CASE StartAttempt
  BY <1>3, FaultAssumption DEF FInv, TypeOK, FileTypeOK, Events, CutInv, OwnerInv, InAttempt,
     StartAttempt, IsNext, Finished, file, memory, procs, barrier, wires
<1>4. CASE Complete
  BY <1>4, FaultAssumption DEF FInv, TypeOK, FileTypeOK, Events, CutInv, OwnerInv, InAttempt,
     Complete, Finished, file, memory, procs, barrier, wires
<1>5. ASSUME NEW r \in Role, Launch(r)
      PROVE  FileTypeOK'
  BY <1>5, FaultAssumption DEF FInv, TypeOK, FileTypeOK, Events, CutInv, OwnerInv, InAttempt,
     Launch, file, memory, procs, barrier, wires
<1>6. CASE Deadline
  BY <1>6, FaultAssumption DEF FInv, TypeOK, FileTypeOK, Events, CutInv, OwnerInv, InAttempt,
     Deadline, Leave, Raise, file, memory, procs, barrier, wires
<1>7. CASE AllExited
  BY <1>7, FaultAssumption DEF FInv, TypeOK, FileTypeOK, Events, CutInv, OwnerInv, InAttempt,
     AllExited, Leave, Raise, file, memory, procs, barrier, wires
<1>8. ASSUME NEW w \in Worker, HandleEof(w)
      PROVE  FileTypeOK'
  BY <1>8, FaultAssumption DEF FInv, TypeOK, FileTypeOK, Events, CutInv, OwnerInv, InAttempt,
     HandleEof, Raise, file, memory, procs, barrier, wires
<1>9. ASSUME NEW w \in Worker, NEW e \in Event, HandleReady(w, e)
      PROVE  FileTypeOK'
  BY <1>9, FaultAssumption DEF FInv, TypeOK, FileTypeOK, Events, CutInv, OwnerInv, InAttempt,
     HandleReady, Received, LastReady, file, memory, procs, barrier, wires
<1>10. ASSUME NEW w \in Worker, NEW e \in Event, HandleReleased(w, e)
      PROVE  FileTypeOK'
  <2>1. Received(w, "released", e)
    BY <1>10 DEF HandleReleased
  <2>2. /\ w[1] = cur /\ AttemptOf[e] = cur /\ w[2] \in Waiters[e] /\ w[2] \in Role
        /\ <<e, w[2]>> \in passed
    BY <2>1, ReceivedFacts
  <2> QED BY <1>10, <2>2, FaultAssumption DEF FInv, TypeOK, FileTypeOK, Events, CutInv, OwnerInv,
     InAttempt, Others, HandleReleased, Raise, LastReady, file, memory, procs, barrier, wires
<1>11. CASE Fire
  BY <1>11, FaultAssumption DEF FInv, TypeOK, FileTypeOK, Events, CutInv, OwnerInv, InAttempt,
     Fire, Intention, file, memory, procs, barrier, wires
<1>12. CASE Kill
  BY <1>12, FaultAssumption DEF FInv, TypeOK, FileTypeOK, Events, CutInv, OwnerInv, InAttempt,
     Kill, Raise, file, memory, procs, barrier, wires
<1>13. CASE Observe
  BY <1>13, FaultAssumption DEF FInv, TypeOK, FileTypeOK, Events, CutInv, OwnerInv, InAttempt,
     Observe, Confirmed, file, memory, procs, barrier, wires
<1>14. CASE ObserveFails
  BY <1>14, FaultAssumption DEF FInv, TypeOK, FileTypeOK, Events, CutInv, OwnerInv, InAttempt,
     ObserveFails, Leave, Raise, file, memory, procs, barrier, wires
<1>15. CASE Injected
  BY <1>15, FaultAssumption DEF FInv, TypeOK, FileTypeOK, Events, CutInv, OwnerInv, InAttempt,
     Injected, file, memory, procs, barrier, wires
<1>16. ASSUME NEW r \in Role, Release(r)
      PROVE  FileTypeOK'
  BY <1>16, FaultAssumption DEF FInv, TypeOK, FileTypeOK, Events, CutInv, OwnerInv, InAttempt,
     Release, Raise, file, memory, procs, barrier, wires
<1>17. CASE Abort
  BY <1>17, AbortFacts DEF FInv, TypeOK, FileTypeOK, Events, CutInv, OwnerInv, InAttempt, file,
     memory, procs, barrier, wires
<1>18. CASE Drain
  BY <1>18, DrainFacts DEF FInv, TypeOK, FileTypeOK, Events, CutInv, OwnerInv, InAttempt, file,
     memory, procs, barrier, wires
<1>19. CASE CloseAndKill
  BY <1>19, FaultAssumption DEF FInv, TypeOK, FileTypeOK, Events, CutInv, OwnerInv, InAttempt,
     CloseAndKill, HangUp, ToKill, file, memory, procs, barrier, wires
<1>20. CASE Reap
  BY <1>20, FaultAssumption DEF FInv, TypeOK, FileTypeOK, Events, CutInv, OwnerInv, InAttempt,
     Reap, file, memory, procs, barrier, wires
<1>21. CASE Verdict
  <2>1. results' \in Seq({"technical_invalid", "execution_complete"})
    BY <1>21 DEF FInv, TypeOK, FileTypeOK, Verdict
  <2>2. ended' \subseteq started
    BY <1>21 DEF FInv, TypeOK, FileTypeOK, Verdict, OwnerInv
  <2> QED BY <1>21, <2>1, <2>2 DEF FInv, TypeOK, FileTypeOK, Verdict
<1>22. ASSUME NEW r \in Role, NEW created \in BOOLEAN, LaunchFails(r, created)
      PROVE  FileTypeOK'
  BY <1>22, FaultAssumption DEF FInv, TypeOK, FileTypeOK, Events, CutInv, OwnerInv, InAttempt,
     LaunchFails, Raise, file, memory, procs, barrier, wires
<1>23. CASE Watchdog
  BY <1>23, FaultAssumption DEF FInv, TypeOK, FileTypeOK, Events, CutInv, OwnerInv, InAttempt,
     Watchdog, Leave, Raise, file, memory, procs, barrier, wires
<1>24. CASE Interrupt
  BY <1>24, FaultAssumption DEF FInv, TypeOK, FileTypeOK, Events, CutInv, OwnerInv, InAttempt,
     Interrupt, Leave, Raise, InTry, file, memory, procs, barrier, wires
<1>25. CASE Crash
  BY <1>25, FaultAssumption DEF FInv, TypeOK, FileTypeOK, Events, CutInv, OwnerInv, InAttempt,
     Crash, HangUp, file, memory, procs, barrier, wires
<1>26. CASE AddFails
  <2>1. results' \in Seq({"technical_invalid", "execution_complete"})
    BY <1>26 DEF FInv, TypeOK, FileTypeOK, AddFails, StartLine, EndLine, CompleteLine, wires
  <2>2. started' \subseteq Attempt /\ ended' \subseteq started'
    BY <1>26 DEF FInv, TypeOK, FileTypeOK, OwnerInv, AddFails, StartLine, EndLine, CompleteLine, wires
  <2>3. torn' \in BOOLEAN
    BY <1>26 DEF FInv, TypeOK, FileTypeOK, AddFails
  <2>4. UNCHANGED <<fired, observed, receipts>>
    BY <1>26 DEF AddFails
  <2> QED BY <2>1, <2>2, <2>3, <2>4 DEF FInv, TypeOK, FileTypeOK, Others
<1>27. CASE DeadlinePasses
  BY <1>27, FaultAssumption DEF FInv, TypeOK, FileTypeOK, Events, CutInv, OwnerInv, InAttempt,
     DeadlinePasses, file, memory, procs, barrier, wires
<1>28. ASSUME NEW w \in Worker, NEW e \in Event, Arrive(w, e)
      PROVE  FileTypeOK'
  BY <1>28, FaultAssumption DEF FInv, TypeOK, FileTypeOK, Events, CutInv, OwnerInv, InAttempt,
     Arrive, Reply, file, memory, procs, barrier, wires
<1>29. ASSUME NEW w \in Worker, Hear(w)
      PROVE  FileTypeOK'
  BY <1>29, FaultAssumption DEF FInv, TypeOK, FileTypeOK, Events, CutInv, OwnerInv, InAttempt,
     Hear, Reply, Opens, file, memory, procs, barrier, wires
<1>30. ASSUME NEW w \in Worker, BarrierFails(w)
      PROVE  FileTypeOK'
  BY <1>30, FaultAssumption DEF FInv, TypeOK, FileTypeOK, Events, CutInv, OwnerInv, InAttempt,
     BarrierFails, file, memory, procs, barrier, wires
<1>31. ASSUME NEW w \in Worker, Exit(w)
      PROVE  FileTypeOK'
  BY <1>31, FaultAssumption DEF FInv, TypeOK, FileTypeOK, Events, CutInv, OwnerInv, InAttempt,
     Exit, file, memory, procs, barrier, wires
<1>32. CASE UNCHANGED vars
  BY <1>32 DEF FInv, TypeOK, FileTypeOK, Events, CutInv, OwnerInv, InAttempt, file, memory, procs,
     barrier, wires, vars
<1> QED BY <1>1, <1>2, <1>3, <1>4, <1>5, <1>6, <1>7, <1>8, <1>9, <1>10, <1>11, <1>12, <1>13,
   <1>14, <1>15, <1>16, <1>17, <1>18, <1>19, <1>20, <1>21, <1>22, <1>23, <1>24, <1>25, <1>26,
   <1>27, <1>28, <1>29, <1>30, <1>31, <1>32 DEF Next, Controller, Injecting, Looping, Leaving,
   Failing, Working

(* The controller's memory keeps its types. *)
LEMMA ControlStep ==
  ASSUME FInv, [Next]_vars
  PROVE  ControlTypeOK'
<1>1. CASE Enter
  BY <1>1, FaultAssumption DEF FInv, TypeOK, ControlTypeOK, FileTypeOK, Mine, Events, Others,
     Worker, CutInv, Preflight, Enter, Finished, Decided, file, memory, procs, barrier, wires
<1>2. CASE EnterUnreadable
  BY <1>2, FaultAssumption DEF FInv, TypeOK, ControlTypeOK, FileTypeOK, Mine, Events, Others,
     Worker, CutInv, Preflight, EnterUnreadable, file, memory, procs, barrier, wires
<1>3. CASE StartAttempt
  BY <1>3, FaultAssumption DEF FInv, TypeOK, ControlTypeOK, FileTypeOK, Mine, Events, Others,
     Worker, CutInv, Preflight, StartAttempt, IsNext, Finished, file, memory, procs, barrier,
     wires
<1>4. CASE Complete
  BY <1>4, FaultAssumption DEF FInv, TypeOK, ControlTypeOK, FileTypeOK, Mine, Events, Others,
     Worker, CutInv, Preflight, Complete, Finished, file, memory, procs, barrier, wires
<1>5. ASSUME NEW r \in Role, Launch(r)
      PROVE  ControlTypeOK'
  BY <1>5, FaultAssumption DEF FInv, TypeOK, ControlTypeOK, FileTypeOK, Mine, Events, Others,
     Worker, CutInv, Preflight, Launch, file, memory, procs, barrier, wires
<1>6. CASE Deadline
  BY <1>6, FaultAssumption DEF FInv, TypeOK, ControlTypeOK, FileTypeOK, Mine, Events, Others,
     Worker, CutInv, Preflight, Deadline, Leave, Raise, file, memory, procs, barrier, wires
<1>7. CASE AllExited
  BY <1>7, FaultAssumption DEF FInv, TypeOK, ControlTypeOK, FileTypeOK, Mine, Events, Others,
     Worker, CutInv, Preflight, AllExited, Leave, Raise, file, memory, procs, barrier, wires
<1>8. ASSUME NEW w \in Worker, HandleEof(w)
      PROVE  ControlTypeOK'
  BY <1>8, FaultAssumption DEF FInv, TypeOK, ControlTypeOK, FileTypeOK, Mine, Events, Others,
     Worker, CutInv, Preflight, HandleEof, Raise, file, memory, procs, barrier, wires
<1>9. ASSUME NEW w \in Worker, NEW e \in Event, HandleReady(w, e)
      PROVE  ControlTypeOK'
  BY <1>9, FaultAssumption DEF FInv, TypeOK, ControlTypeOK, FileTypeOK, Mine, Events, Others,
     Worker, CutInv, Preflight, HandleReady, Received, LastReady, file, memory, procs, barrier,
     wires
<1>10. ASSUME NEW w \in Worker, NEW e \in Event, HandleReleased(w, e)
      PROVE  ControlTypeOK'
  <2>1. Received(w, "released", e)
    BY <1>10 DEF HandleReleased
  <2>2. /\ w[1] = cur /\ AttemptOf[e] = cur /\ w[2] \in Waiters[e] /\ w[2] \in Role
        /\ <<e, w[2]>> \in passed
    BY <2>1, ReceivedFacts
  <2> QED BY <1>10, <2>2, FaultAssumption, SMTT(30) DEF FInv, TypeOK, ControlTypeOK, FileTypeOK, Mine, Events,
     Others, HandleReleased, Raise, LastReady, file, memory, procs, barrier, wires
<1>11. CASE Fire
  BY <1>11, FaultAssumption DEF FInv, TypeOK, ControlTypeOK, FileTypeOK, Mine, Events, Others,
     Worker, CutInv, Preflight, Fire, Intention, file, memory, procs, barrier, wires
<1>12. CASE Kill
  BY <1>12, FaultAssumption DEF FInv, TypeOK, ControlTypeOK, FileTypeOK, Mine, Events, Others,
     Worker, CutInv, Preflight, Kill, Raise, file, memory, procs, barrier, wires
<1>13. CASE Observe
  BY <1>13, FaultAssumption DEF FInv, TypeOK, ControlTypeOK, FileTypeOK, Mine, Events, Others,
     Worker, CutInv, Preflight, Observe, Confirmed, file, memory, procs, barrier, wires
<1>14. CASE ObserveFails
  BY <1>14, FaultAssumption DEF FInv, TypeOK, ControlTypeOK, FileTypeOK, Mine, Events, Others,
     Worker, CutInv, Preflight, ObserveFails, Leave, Raise, file, memory, procs, barrier, wires
<1>15. CASE Injected
  BY <1>15, FaultAssumption DEF FInv, TypeOK, ControlTypeOK, FileTypeOK, Mine, Events, Others,
     Worker, CutInv, Preflight, Injected, file, memory, procs, barrier, wires
<1>16. ASSUME NEW r \in Role, Release(r)
      PROVE  ControlTypeOK'
  BY <1>16, FaultAssumption DEF FInv, TypeOK, ControlTypeOK, FileTypeOK, Mine, Events, Others,
     Worker, CutInv, Preflight, Release, Raise, file, memory, procs, barrier, wires
<1>17. CASE Abort
  <2>1. pending' \subseteq Worker \X Event
    <3>1. \A w \in Worker, e \in Event : <<w, e>> \in Worker \X Event
      OBVIOUS
    <3> QED BY <1>17, <3>1, AbortFacts DEF FInv, TypeOK, ControlTypeOK
  <2>2. pc' \in {"abort", "drain"}
    BY <1>17, AbortFacts
  <2> QED BY <1>17, <2>1, <2>2, AbortFacts DEF FInv, TypeOK, ControlTypeOK
<1>18. CASE Drain
  BY <1>18, DrainFacts DEF FInv, TypeOK, ControlTypeOK, file, memory, procs, barrier, wires
<1>19. CASE CloseAndKill
  BY <1>19, FaultAssumption DEF FInv, TypeOK, ControlTypeOK, FileTypeOK, Mine, Events, Others,
     Worker, CutInv, Preflight, CloseAndKill, HangUp, ToKill, file, memory, procs, barrier, wires
<1>20. CASE Reap
  BY <1>20, FaultAssumption DEF FInv, TypeOK, ControlTypeOK, FileTypeOK, Mine, Events, Others,
     Worker, CutInv, Preflight, Reap, file, memory, procs, barrier, wires
<1>21. CASE Verdict
  BY <1>21, FaultAssumption DEF FInv, TypeOK, ControlTypeOK, FileTypeOK, Mine, Events, Others,
     Worker, CutInv, Preflight, Verdict, file, memory, procs, barrier, wires
<1>22. ASSUME NEW r \in Role, NEW created \in BOOLEAN, LaunchFails(r, created)
      PROVE  ControlTypeOK'
  BY <1>22, FaultAssumption DEF FInv, TypeOK, ControlTypeOK, FileTypeOK, Mine, Events, Others,
     Worker, CutInv, Preflight, LaunchFails, Raise, file, memory, procs, barrier, wires
<1>23. CASE Watchdog
  BY <1>23, FaultAssumption DEF FInv, TypeOK, ControlTypeOK, FileTypeOK, Mine, Events, Others,
     Worker, CutInv, Preflight, Watchdog, Leave, Raise, file, memory, procs, barrier, wires
<1>24. CASE Interrupt
  BY <1>24, FaultAssumption DEF FInv, TypeOK, ControlTypeOK, FileTypeOK, Mine, Events, Others,
     Worker, CutInv, Preflight, Interrupt, Leave, Raise, InTry, file, memory, procs, barrier,
     wires
<1>25. CASE Crash
  BY <1>25, FaultAssumption DEF FInv, TypeOK, ControlTypeOK, FileTypeOK, Mine, Events, Others,
     Worker, CutInv, Preflight, Crash, HangUp, file, memory, procs, barrier, wires
<1>26. CASE AddFails
  BY <1>26, FaultAssumption DEF FInv, TypeOK, ControlTypeOK, FileTypeOK, Mine, Events, Others,
     Worker, CutInv, Preflight, AddFails, InTry, Raise, HangUp, StartLine, EndLine, CompleteLine,
     IsNext, Finished, file, memory, procs, barrier, wires
<1>27. CASE DeadlinePasses
  BY <1>27, FaultAssumption DEF FInv, TypeOK, ControlTypeOK, FileTypeOK, Mine, Events, Others,
     Worker, CutInv, Preflight, DeadlinePasses, file, memory, procs, barrier, wires
<1>28. ASSUME NEW w \in Worker, NEW e \in Event, Arrive(w, e)
      PROVE  ControlTypeOK'
  BY <1>28, FaultAssumption DEF FInv, TypeOK, ControlTypeOK, FileTypeOK, Mine, Events, Others,
     Worker, CutInv, Preflight, Arrive, Reply, file, memory, procs, barrier, wires
<1>29. ASSUME NEW w \in Worker, Hear(w)
      PROVE  ControlTypeOK'
  BY <1>29, FaultAssumption DEF FInv, TypeOK, ControlTypeOK, FileTypeOK, Mine, Events, Others,
     Worker, CutInv, Preflight, Hear, Reply, Opens, file, memory, procs, barrier, wires
<1>30. ASSUME NEW w \in Worker, BarrierFails(w)
      PROVE  ControlTypeOK'
  BY <1>30, FaultAssumption DEF FInv, TypeOK, ControlTypeOK, FileTypeOK, Mine, Events, Others,
     Worker, CutInv, Preflight, BarrierFails, file, memory, procs, barrier, wires
<1>31. ASSUME NEW w \in Worker, Exit(w)
      PROVE  ControlTypeOK'
  BY <1>31, FaultAssumption DEF FInv, TypeOK, ControlTypeOK, FileTypeOK, Mine, Events, Others,
     Worker, CutInv, Preflight, Exit, file, memory, procs, barrier, wires
<1>32. CASE UNCHANGED vars
  BY <1>32 DEF FInv, TypeOK, ControlTypeOK, FileTypeOK, Mine, Events, Others, Worker, CutInv,
     Preflight, file, memory, procs, barrier, wires, vars
<1> QED BY <1>1, <1>2, <1>3, <1>4, <1>5, <1>6, <1>7, <1>8, <1>9, <1>10, <1>11, <1>12, <1>13,
   <1>14, <1>15, <1>16, <1>17, <1>18, <1>19, <1>20, <1>21, <1>22, <1>23, <1>24, <1>25, <1>26,
   <1>27, <1>28, <1>29, <1>30, <1>31, <1>32 DEF Next, Controller, Injecting, Looping, Leaving,
   Failing, Working

(* The deadline is a Boolean, the starts are bounded. *)
LEMMA ClockStep ==
  ASSUME FInv, [Next]_vars
  PROVE  ClockTypeOK'
<1>1. CASE Enter
  <2>1. runs' \in 0 .. MaxRuns
    BY <1>1, FaultAssumption DEF FInv, TypeOK, ClockTypeOK, Enter
  <2>2. late' \in BOOLEAN
    BY <1>1 DEF Enter
  <2> QED BY <2>1, <2>2 DEF ClockTypeOK
<1>2. CASE EnterUnreadable
  BY <1>2, FaultAssumption DEF FInv, TypeOK, ClockTypeOK, EnterUnreadable, file, memory, procs,
     barrier, wires
<1>3. CASE StartAttempt
  BY <1>3, FaultAssumption DEF FInv, TypeOK, ClockTypeOK, StartAttempt, IsNext, Finished, file,
     memory, procs, barrier, wires
<1>4. CASE Complete
  BY <1>4, FaultAssumption DEF FInv, TypeOK, ClockTypeOK, Complete, Finished, file, memory, procs,
     barrier, wires
<1>5. ASSUME NEW r \in Role, Launch(r)
      PROVE  ClockTypeOK'
  BY <1>5, FaultAssumption DEF FInv, TypeOK, ClockTypeOK, Launch, file, memory, procs, barrier,
     wires
<1>6. CASE Deadline
  BY <1>6, FaultAssumption DEF FInv, TypeOK, ClockTypeOK, Deadline, Leave, Raise, file, memory,
     procs, barrier, wires
<1>7. CASE AllExited
  BY <1>7, FaultAssumption DEF FInv, TypeOK, ClockTypeOK, AllExited, Leave, Raise, file, memory,
     procs, barrier, wires
<1>8. ASSUME NEW w \in Worker, HandleEof(w)
      PROVE  ClockTypeOK'
  BY <1>8, FaultAssumption DEF FInv, TypeOK, ClockTypeOK, HandleEof, Raise, file, memory, procs,
     barrier, wires
<1>9. ASSUME NEW w \in Worker, NEW e \in Event, HandleReady(w, e)
      PROVE  ClockTypeOK'
  BY <1>9, FaultAssumption DEF FInv, TypeOK, ClockTypeOK, HandleReady, Received, LastReady, file,
     memory, procs, barrier, wires
<1>10. ASSUME NEW w \in Worker, NEW e \in Event, HandleReleased(w, e)
      PROVE  ClockTypeOK'
  BY <1>10, FaultAssumption DEF FInv, TypeOK, ClockTypeOK, HandleReleased, Received, Raise, file,
     memory, procs, barrier, wires
<1>11. CASE Fire
  BY <1>11, FaultAssumption DEF FInv, TypeOK, ClockTypeOK, Fire, Intention, file, memory, procs,
     barrier, wires
<1>12. CASE Kill
  BY <1>12, FaultAssumption DEF FInv, TypeOK, ClockTypeOK, Kill, Raise, file, memory, procs,
     barrier, wires
<1>13. CASE Observe
  BY <1>13, FaultAssumption DEF FInv, TypeOK, ClockTypeOK, Observe, Confirmed, file, memory,
     procs, barrier, wires
<1>14. CASE ObserveFails
  BY <1>14, FaultAssumption DEF FInv, TypeOK, ClockTypeOK, ObserveFails, Leave, Raise, file,
     memory, procs, barrier, wires
<1>15. CASE Injected
  BY <1>15, FaultAssumption DEF FInv, TypeOK, ClockTypeOK, Injected, file, memory, procs, barrier,
     wires
<1>16. ASSUME NEW r \in Role, Release(r)
      PROVE  ClockTypeOK'
  BY <1>16, FaultAssumption DEF FInv, TypeOK, ClockTypeOK, Release, Raise, file, memory, procs,
     barrier, wires
<1>17. CASE Abort
  BY <1>17, AbortFacts DEF FInv, TypeOK, ClockTypeOK, file, memory, procs, barrier, wires
<1>18. CASE Drain
  BY <1>18, DrainFacts DEF FInv, TypeOK, ClockTypeOK, file, memory, procs, barrier, wires
<1>19. CASE CloseAndKill
  BY <1>19, FaultAssumption DEF FInv, TypeOK, ClockTypeOK, CloseAndKill, HangUp, ToKill, file,
     memory, procs, barrier, wires
<1>20. CASE Reap
  BY <1>20, FaultAssumption DEF FInv, TypeOK, ClockTypeOK, Reap, file, memory, procs, barrier,
     wires
<1>21. CASE Verdict
  BY <1>21, FaultAssumption DEF FInv, TypeOK, ClockTypeOK, Verdict, file, memory, procs, barrier,
     wires
<1>22. ASSUME NEW r \in Role, NEW created \in BOOLEAN, LaunchFails(r, created)
      PROVE  ClockTypeOK'
  BY <1>22, FaultAssumption DEF FInv, TypeOK, ClockTypeOK, LaunchFails, Raise, file, memory,
     procs, barrier, wires
<1>23. CASE Watchdog
  BY <1>23, FaultAssumption DEF FInv, TypeOK, ClockTypeOK, Watchdog, Leave, Raise, file, memory,
     procs, barrier, wires
<1>24. CASE Interrupt
  BY <1>24, FaultAssumption DEF FInv, TypeOK, ClockTypeOK, Interrupt, Leave, Raise, InTry, file,
     memory, procs, barrier, wires
<1>25. CASE Crash
  BY <1>25, FaultAssumption DEF FInv, TypeOK, ClockTypeOK, Crash, HangUp, file, memory, procs,
     barrier, wires
<1>26. CASE AddFails
  BY <1>26, FaultAssumption DEF FInv, TypeOK, ClockTypeOK, AddFails, InTry, Raise, HangUp,
     StartLine, EndLine, CompleteLine, IsNext, Finished, file, memory, procs, barrier, wires
<1>27. CASE DeadlinePasses
  BY <1>27, FaultAssumption DEF FInv, TypeOK, ClockTypeOK, DeadlinePasses, file, memory, procs,
     barrier, wires
<1>28. ASSUME NEW w \in Worker, NEW e \in Event, Arrive(w, e)
      PROVE  ClockTypeOK'
  BY <1>28, FaultAssumption DEF FInv, TypeOK, ClockTypeOK, Arrive, Reply, file, memory, procs,
     barrier, wires
<1>29. ASSUME NEW w \in Worker, Hear(w)
      PROVE  ClockTypeOK'
  BY <1>29, FaultAssumption DEF FInv, TypeOK, ClockTypeOK, Hear, Reply, Opens, file, memory,
     procs, barrier, wires
<1>30. ASSUME NEW w \in Worker, BarrierFails(w)
      PROVE  ClockTypeOK'
  BY <1>30, FaultAssumption DEF FInv, TypeOK, ClockTypeOK, BarrierFails, file, memory, procs,
     barrier, wires
<1>31. ASSUME NEW w \in Worker, Exit(w)
      PROVE  ClockTypeOK'
  BY <1>31, FaultAssumption DEF FInv, TypeOK, ClockTypeOK, Exit, file, memory, procs, barrier,
     wires
<1>32. CASE UNCHANGED vars
  BY <1>32 DEF FInv, TypeOK, ClockTypeOK, file, memory, procs, barrier, wires, vars
<1> QED BY <1>1, <1>2, <1>3, <1>4, <1>5, <1>6, <1>7, <1>8, <1>9, <1>10, <1>11, <1>12, <1>13,
   <1>14, <1>15, <1>16, <1>17, <1>18, <1>19, <1>20, <1>21, <1>22, <1>23, <1>24, <1>25, <1>26,
   <1>27, <1>28, <1>29, <1>30, <1>31, <1>32 DEF Next, Controller, Injecting, Looping, Leaving,
   Failing, Working

(* The processes keep their types, and only living ones stand at a barrier. *)
LEMMA WorkerStep ==
  ASSUME FInv, [Next]_vars
  PROVE  WorkerTypeOK'
<1>1. CASE Enter
  BY <1>1, FaultAssumption DEF FInv, TypeOK, WorkerTypeOK, Alive, ControlTypeOK, Mine, Worker,
     TargetOf, CutInv, WiresInv, Preflight, Enter, Finished, Decided, file, memory, procs,
     barrier, wires
<1>2. CASE EnterUnreadable
  BY <1>2, FaultAssumption DEF FInv, TypeOK, WorkerTypeOK, Alive, ControlTypeOK, Mine, Worker,
     TargetOf, CutInv, WiresInv, Preflight, EnterUnreadable, file, memory, procs, barrier, wires
<1>3. CASE StartAttempt
  BY <1>3, FaultAssumption DEF FInv, TypeOK, WorkerTypeOK, Alive, ControlTypeOK, Mine, Worker,
     TargetOf, CutInv, WiresInv, Preflight, StartAttempt, IsNext, Finished, file, memory, procs,
     barrier, wires
<1>4. CASE Complete
  BY <1>4, FaultAssumption DEF FInv, TypeOK, WorkerTypeOK, Alive, ControlTypeOK, Mine, Worker,
     TargetOf, CutInv, WiresInv, Preflight, Complete, Finished, file, memory, procs, barrier,
     wires
<1>5. ASSUME NEW r \in Role, Launch(r)
      PROVE  WorkerTypeOK'
  BY <1>5, FaultAssumption DEF FInv, TypeOK, WorkerTypeOK, Alive, ControlTypeOK, Mine, Worker,
     TargetOf, CutInv, WiresInv, Preflight, Launch, file, memory, procs, barrier, wires
<1>6. CASE Deadline
  BY <1>6, FaultAssumption DEF FInv, TypeOK, WorkerTypeOK, Alive, ControlTypeOK, Mine, Worker,
     TargetOf, CutInv, WiresInv, Preflight, Deadline, Leave, Raise, file, memory, procs, barrier,
     wires
<1>7. CASE AllExited
  BY <1>7, FaultAssumption DEF FInv, TypeOK, WorkerTypeOK, Alive, ControlTypeOK, Mine, Worker,
     TargetOf, CutInv, WiresInv, Preflight, AllExited, Leave, Raise, file, memory, procs, barrier,
     wires
<1>8. ASSUME NEW w \in Worker, HandleEof(w)
      PROVE  WorkerTypeOK'
  BY <1>8, FaultAssumption DEF FInv, TypeOK, WorkerTypeOK, Alive, ControlTypeOK, Mine, Worker,
     TargetOf, CutInv, WiresInv, Preflight, HandleEof, Raise, file, memory, procs, barrier, wires
<1>9. ASSUME NEW w \in Worker, NEW e \in Event, HandleReady(w, e)
      PROVE  WorkerTypeOK'
  BY <1>9, FaultAssumption DEF FInv, TypeOK, WorkerTypeOK, Alive, ControlTypeOK, Mine, Worker,
     TargetOf, CutInv, WiresInv, Preflight, HandleReady, Received, LastReady, file, memory, procs,
     barrier, wires
<1>10. ASSUME NEW w \in Worker, NEW e \in Event, HandleReleased(w, e)
      PROVE  WorkerTypeOK'
  BY <1>10, FaultAssumption DEF FInv, TypeOK, WorkerTypeOK, Alive, ControlTypeOK, Mine, Worker,
     TargetOf, CutInv, WiresInv, Preflight, HandleReleased, Received, Raise, file, memory, procs,
     barrier, wires
<1>11. CASE Fire
  BY <1>11, FaultAssumption DEF FInv, TypeOK, WorkerTypeOK, Alive, ControlTypeOK, Mine, Worker,
     TargetOf, CutInv, WiresInv, Preflight, Fire, Intention, file, memory, procs, barrier, wires
<1>12. CASE Kill
  <2>1. ev \in Event /\ TargetOf(ev) \in Worker
    BY <1>12, FaultAssumption DEF FInv, CutInv, Kill, Events, TargetOf, Worker, Preflight
  <2> QED BY <1>12, <2>1 DEF FInv, TypeOK, WorkerTypeOK, Kill, Alive, barrier
<1>13. CASE Observe
  BY <1>13, FaultAssumption DEF FInv, TypeOK, WorkerTypeOK, Alive, ControlTypeOK, Mine, Worker,
     TargetOf, CutInv, WiresInv, Preflight, Observe, Confirmed, file, memory, procs, barrier,
     wires
<1>14. CASE ObserveFails
  BY <1>14, FaultAssumption DEF FInv, TypeOK, WorkerTypeOK, Alive, ControlTypeOK, Mine, Worker,
     TargetOf, CutInv, WiresInv, Preflight, ObserveFails, Leave, Raise, file, memory, procs,
     barrier, wires
<1>15. CASE Injected
  BY <1>15, FaultAssumption DEF FInv, TypeOK, WorkerTypeOK, Alive, ControlTypeOK, Mine, Worker,
     TargetOf, CutInv, WiresInv, Preflight, Injected, file, memory, procs, barrier, wires
<1>16. ASSUME NEW r \in Role, Release(r)
      PROVE  WorkerTypeOK'
  BY <1>16, FaultAssumption DEF FInv, TypeOK, WorkerTypeOK, Alive, ControlTypeOK, Mine, Worker,
     TargetOf, CutInv, WiresInv, Preflight, Release, Raise, file, memory, procs, barrier, wires
<1>17. CASE Abort
  BY <1>17, AbortFacts DEF FInv, TypeOK, WorkerTypeOK, Alive, file, memory, procs, barrier, wires
<1>18. CASE Drain
  BY <1>18, DrainFacts DEF FInv, TypeOK, WorkerTypeOK, Alive, file, memory, procs, barrier, wires
<1>19. CASE CloseAndKill
  BY <1>19, FaultAssumption DEF FInv, TypeOK, WorkerTypeOK, Alive, ControlTypeOK, Mine, Worker,
     TargetOf, CutInv, WiresInv, Preflight, CloseAndKill, HangUp, ToKill, file, memory, procs,
     barrier, wires
<1>20. CASE Reap
  BY <1>20, FaultAssumption DEF FInv, TypeOK, WorkerTypeOK, Alive, ControlTypeOK, Mine, Worker,
     TargetOf, CutInv, WiresInv, Preflight, Reap, file, memory, procs, barrier, wires
<1>21. CASE Verdict
  BY <1>21, FaultAssumption DEF FInv, TypeOK, WorkerTypeOK, Alive, ControlTypeOK, Mine, Worker,
     TargetOf, CutInv, WiresInv, Preflight, Verdict, file, memory, procs, barrier, wires
<1>22. ASSUME NEW r \in Role, NEW created \in BOOLEAN, LaunchFails(r, created)
      PROVE  WorkerTypeOK'
  <2>1. <<cur, r>> \in Worker /\ life[<<cur, r>>] = "none"
    BY <1>22 DEF FInv, TypeOK, ControlTypeOK, LaunchFails, Worker
  <2> QED BY <1>22, <2>1 DEF FInv, TypeOK, WorkerTypeOK, LaunchFails, Alive, barrier
<1>23. CASE Watchdog
  BY <1>23, FaultAssumption DEF FInv, TypeOK, WorkerTypeOK, Alive, ControlTypeOK, Mine, Worker,
     TargetOf, CutInv, WiresInv, Preflight, Watchdog, Leave, Raise, file, memory, procs, barrier,
     wires
<1>24. CASE Interrupt
  BY <1>24, FaultAssumption DEF FInv, TypeOK, WorkerTypeOK, Alive, ControlTypeOK, Mine, Worker,
     TargetOf, CutInv, WiresInv, Preflight, Interrupt, Leave, Raise, InTry, file, memory, procs,
     barrier, wires
<1>25. CASE Crash
  BY <1>25, FaultAssumption DEF FInv, TypeOK, WorkerTypeOK, Alive, ControlTypeOK, Mine, Worker,
     TargetOf, CutInv, WiresInv, Preflight, Crash, HangUp, file, memory, procs, barrier, wires
<1>26. CASE AddFails
  BY <1>26, FaultAssumption DEF FInv, TypeOK, WorkerTypeOK, Alive, ControlTypeOK, Mine, Worker,
     TargetOf, CutInv, WiresInv, Preflight, AddFails, InTry, Raise, HangUp, StartLine, EndLine,
     CompleteLine, IsNext, Finished, file, memory, procs, barrier, wires
<1>27. CASE DeadlinePasses
  BY <1>27, FaultAssumption DEF FInv, TypeOK, WorkerTypeOK, Alive, ControlTypeOK, Mine, Worker,
     TargetOf, CutInv, WiresInv, Preflight, DeadlinePasses, file, memory, procs, barrier, wires
<1>28. ASSUME NEW w \in Worker, NEW e \in Event, Arrive(w, e)
      PROVE  WorkerTypeOK'
  BY <1>28, FaultAssumption DEF FInv, TypeOK, WorkerTypeOK, Alive, ControlTypeOK, Mine, Worker,
     TargetOf, CutInv, WiresInv, Preflight, Arrive, Reply, file, memory, procs, barrier, wires
<1>29. ASSUME NEW w \in Worker, Hear(w)
      PROVE  WorkerTypeOK'
  BY <1>29, FaultAssumption, SMTT(30) DEF FInv, TypeOK, WorkerTypeOK, Alive, ControlTypeOK, Mine, Worker,
     TargetOf, CutInv, WiresInv, Preflight, Hear, Reply, Opens, file, memory, procs, barrier,
     wires
<1>30. ASSUME NEW w \in Worker, BarrierFails(w)
      PROVE  WorkerTypeOK'
  BY <1>30, FaultAssumption DEF FInv, TypeOK, WorkerTypeOK, Alive, ControlTypeOK, Mine, Worker,
     TargetOf, CutInv, WiresInv, Preflight, BarrierFails, file, memory, procs, barrier, wires
<1>31. ASSUME NEW w \in Worker, Exit(w)
      PROVE  WorkerTypeOK'
  <2>1. life' \in [Worker -> {"none", "alive", "exited", "killed"}]
    BY <1>31 DEF FInv, TypeOK, WorkerTypeOK, Exit
  <2>2. \A v \in Worker : v # w => life'[v] = life[v] /\ at'[v] = at[v]
    BY <1>31 DEF FInv, TypeOK, WorkerTypeOK, Exit
  <2>3. at' \in [Worker -> Event \cup {None}] /\ at'[w] = None
    BY <1>31 DEF FInv, TypeOK, WorkerTypeOK, Exit
  <2> QED BY <1>31, <2>1, <2>2, <2>3 DEF FInv, TypeOK, WorkerTypeOK, Exit, Alive
<1>32. CASE UNCHANGED vars
  BY <1>32 DEF FInv, TypeOK, WorkerTypeOK, Alive, ControlTypeOK, Mine, Worker, TargetOf, CutInv,
     WiresInv, Preflight, file, memory, procs, barrier, wires, vars
<1> QED BY <1>1, <1>2, <1>3, <1>4, <1>5, <1>6, <1>7, <1>8, <1>9, <1>10, <1>11, <1>12, <1>13,
   <1>14, <1>15, <1>16, <1>17, <1>18, <1>19, <1>20, <1>21, <1>22, <1>23, <1>24, <1>25, <1>26,
   <1>27, <1>28, <1>29, <1>30, <1>31, <1>32 DEF Next, Controller, Injecting, Looping, Leaving,
   Failing, Working

(* What a step does to the messages on their way to the workers *)
ToWorkerStep ==
    \/ toWorker' = toWorker
    \/ \E w \in Worker, m \in Message :
          /\ toWorker' = SendOf(toWorker, w, m)
          /\ m.kind = "release" => m.event \in observed /\ w[2] \in Others(m.event)
    \/ \E w \in Worker : toWorker[w] # <<>> /\ toWorker' = TakeOf(toWorker, w)

(* and to those on their way to the controller *)
ToCtlStep ==
    \/ toCtl' = toCtl
    \/ toCtl' = Silence
    \/ \E w \in Worker, m \in Message :
          /\ toCtl' = SendOf(toCtl, w, m)
          /\ m.event \in Event /\ AttemptOf[m.event] = w[1] /\ w[2] \in Waiters[m.event]
          /\ m.kind = "ready" => <<m.event, w[2]>> \in reached'
          /\ m.kind = "released" => <<m.event, w[2]>> \in passed'
    \/ \E w \in Worker : toCtl[w] # <<>> /\ toCtl' = TakeOf(toCtl, w)

(* Releases are only sent for observed events, to other waiters. *)
LEMMA ToWorkerEffect ==
  ASSUME FInv, [Next]_vars
  PROVE  ToWorkerStep
<1>1. CASE Enter
  BY <1>1 DEF FInv, ToWorkerStep, HangUp, Enter, Finished, Decided, file, memory, procs, barrier,
     wires
<1>2. CASE EnterUnreadable
  BY <1>2 DEF FInv, ToWorkerStep, HangUp, EnterUnreadable, file, memory, procs, barrier, wires
<1>3. CASE StartAttempt
  BY <1>3 DEF FInv, ToWorkerStep, HangUp, StartAttempt, IsNext, Finished, file, memory, procs,
     barrier, wires
<1>4. CASE Complete
  BY <1>4 DEF FInv, ToWorkerStep, HangUp, Complete, Finished, file, memory, procs, barrier, wires
<1>5. ASSUME NEW r \in Role, Launch(r)
      PROVE  ToWorkerStep
  BY <1>5 DEF FInv, ToWorkerStep, HangUp, Launch, file, memory, procs, barrier, wires
<1>6. CASE Deadline
  BY <1>6 DEF FInv, ToWorkerStep, HangUp, Deadline, Leave, Raise, file, memory, procs, barrier,
     wires
<1>7. CASE AllExited
  BY <1>7 DEF FInv, ToWorkerStep, HangUp, AllExited, Leave, Raise, file, memory, procs, barrier,
     wires
<1>8. ASSUME NEW w \in Worker, HandleEof(w)
      PROVE  ToWorkerStep
  BY <1>8 DEF FInv, ToWorkerStep, HangUp, HandleEof, Raise, file, memory, procs, barrier, wires
<1>9. ASSUME NEW w \in Worker, NEW e \in Event, HandleReady(w, e)
      PROVE  ToWorkerStep
  BY <1>9 DEF FInv, ToWorkerStep, HangUp, HandleReady, Received, LastReady, file, memory, procs,
     barrier, wires
<1>10. ASSUME NEW w \in Worker, NEW e \in Event, HandleReleased(w, e)
      PROVE  ToWorkerStep
  BY <1>10 DEF FInv, ToWorkerStep, HangUp, HandleReleased, Received, Raise, file, memory, procs,
     barrier, wires
<1>11. CASE Fire
  BY <1>11 DEF FInv, ToWorkerStep, HangUp, Fire, Intention, file, memory, procs, barrier, wires
<1>12. CASE Kill
  BY <1>12 DEF FInv, ToWorkerStep, HangUp, Kill, Raise, file, memory, procs, barrier, wires
<1>13. CASE Observe
  BY <1>13 DEF FInv, ToWorkerStep, HangUp, Observe, Confirmed, file, memory, procs, barrier, wires
<1>14. CASE ObserveFails
  BY <1>14 DEF FInv, ToWorkerStep, HangUp, ObserveFails, Leave, Raise, file, memory, procs,
     barrier, wires
<1>15. CASE Injected
  BY <1>15 DEF FInv, ToWorkerStep, HangUp, Injected, file, memory, procs, barrier, wires
<1>16. ASSUME NEW r \in Role, Release(r)
      PROVE  ToWorkerStep
  <2>1. /\ <<cur, r>> \in Worker /\ <<cur, r>>[2] = r
        /\ [kind |-> "release", event |-> ev] \in Message
        /\ ev \in observed /\ r \in Others(ev)
    BY <1>16 DEF FInv, TypeOK, ControlTypeOK, CutInv, Release, Worker, Message, Events
  <2>2. PICK m \in Message : m = [kind |-> "release", event |-> ev]
    BY <2>1
  <2>3. CASE Alive(<<cur, r>>)
    <3>1. toWorker' = SendOf(toWorker, <<cur, r>>, m)
      BY <1>16, <2>2, <2>3 DEF Release, SendOf
    <3>2. m.kind = "release" => m.event \in observed /\ r \in Others(m.event)
      BY <2>1, <2>2
    <3> QED BY <2>1, <3>1, <3>2 DEF ToWorkerStep
  <2>4. CASE ~Alive(<<cur, r>>)
    BY <1>16, <2>4 DEF Release, ToWorkerStep
  <2> QED BY <2>3, <2>4
<1>17. CASE Abort
  <2>1. CASE toWorker' = toWorker
    BY <2>1 DEF ToWorkerStep
  <2>2. CASE toWorker' # toWorker
    <3>1. PICK w \in Worker, e \in Event : toWorker' = SendOf(toWorker, w, [kind |-> "abort", event |-> e])
      BY <1>17, <2>2, AbortFacts
    <3>2. PICK m \in Message : m = [kind |-> "abort", event |-> e]
      BY DEF Message
    <3>3. m.kind # "release"
      BY <3>2
    <3> QED BY <3>1, <3>2, <3>3 DEF ToWorkerStep
  <2> QED BY <2>1, <2>2
<1>18. CASE Drain
  BY <1>18, DrainFacts DEF ToWorkerStep
<1>19. CASE CloseAndKill
  BY <1>19 DEF FInv, ToWorkerStep, HangUp, CloseAndKill, HangUp, ToKill, file, memory, procs,
     barrier, wires
<1>20. CASE Reap
  BY <1>20 DEF FInv, ToWorkerStep, HangUp, Reap, file, memory, procs, barrier, wires
<1>21. CASE Verdict
  BY <1>21 DEF FInv, ToWorkerStep, HangUp, Verdict, file, memory, procs, barrier, wires
<1>22. ASSUME NEW r \in Role, NEW created \in BOOLEAN, LaunchFails(r, created)
      PROVE  ToWorkerStep
  BY <1>22 DEF FInv, ToWorkerStep, HangUp, LaunchFails, Raise, file, memory, procs, barrier, wires
<1>23. CASE Watchdog
  BY <1>23 DEF FInv, ToWorkerStep, HangUp, Watchdog, Leave, Raise, file, memory, procs, barrier,
     wires
<1>24. CASE Interrupt
  BY <1>24 DEF FInv, ToWorkerStep, HangUp, Interrupt, Leave, Raise, InTry, file, memory, procs,
     barrier, wires
<1>25. CASE Crash
  BY <1>25 DEF FInv, ToWorkerStep, HangUp, Crash, HangUp, file, memory, procs, barrier, wires
<1>26. CASE AddFails
  BY <1>26 DEF FInv, ToWorkerStep, HangUp, AddFails, InTry, Raise, HangUp, StartLine, EndLine,
     CompleteLine, IsNext, Finished, file, memory, procs, barrier, wires
<1>27. CASE DeadlinePasses
  BY <1>27 DEF FInv, ToWorkerStep, HangUp, DeadlinePasses, file, memory, procs, barrier, wires
<1>28. ASSUME NEW w \in Worker, NEW e \in Event, Arrive(w, e)
      PROVE  ToWorkerStep
  BY <1>28 DEF FInv, ToWorkerStep, HangUp, Arrive, Reply, file, memory, procs, barrier, wires
<1>29. ASSUME NEW w \in Worker, Hear(w)
      PROVE  ToWorkerStep
  <2>1. toWorker[w] # <<>> /\ toWorker' = TakeOf(toWorker, w)
    BY <1>29 DEF Hear, TakeOf
  <2> QED BY <2>1 DEF ToWorkerStep
<1>30. ASSUME NEW w \in Worker, BarrierFails(w)
      PROVE  ToWorkerStep
  BY <1>30 DEF FInv, ToWorkerStep, HangUp, BarrierFails, file, memory, procs, barrier, wires
<1>31. ASSUME NEW w \in Worker, Exit(w)
      PROVE  ToWorkerStep
  BY <1>31 DEF FInv, ToWorkerStep, HangUp, Exit, file, memory, procs, barrier, wires
<1>32. CASE UNCHANGED vars
  BY <1>32 DEF FInv, ToWorkerStep, HangUp, file, memory, procs, barrier, wires, vars
<1> QED BY <1>1, <1>2, <1>3, <1>4, <1>5, <1>6, <1>7, <1>8, <1>9, <1>10, <1>11, <1>12, <1>13,
   <1>14, <1>15, <1>16, <1>17, <1>18, <1>19, <1>20, <1>21, <1>22, <1>23, <1>24, <1>25, <1>26,
   <1>27, <1>28, <1>29, <1>30, <1>31, <1>32 DEF Next, Controller, Injecting, Looping, Leaving,
   Failing, Working

(* A worker's messages are about events it waits for. *)
LEMMA ToCtlEffect ==
  ASSUME FInv, [Next]_vars
  PROVE  ToCtlStep
<1>1. CASE Enter
  BY <1>1 DEF FInv, ToCtlStep, HangUp, Silence, Enter, Finished, Decided, file, memory, procs,
     barrier, wires
<1>2. CASE EnterUnreadable
  BY <1>2 DEF FInv, ToCtlStep, HangUp, Silence, EnterUnreadable, file, memory, procs, barrier,
     wires
<1>3. CASE StartAttempt
  BY <1>3 DEF FInv, ToCtlStep, HangUp, Silence, StartAttempt, IsNext, Finished, file, memory,
     procs, barrier, wires
<1>4. CASE Complete
  BY <1>4 DEF FInv, ToCtlStep, HangUp, Silence, Complete, Finished, file, memory, procs, barrier,
     wires
<1>5. ASSUME NEW r \in Role, Launch(r)
      PROVE  ToCtlStep
  BY <1>5 DEF FInv, ToCtlStep, HangUp, Silence, Launch, file, memory, procs, barrier, wires
<1>6. CASE Deadline
  BY <1>6 DEF FInv, ToCtlStep, HangUp, Silence, Deadline, Leave, Raise, file, memory, procs,
     barrier, wires
<1>7. CASE AllExited
  BY <1>7 DEF FInv, ToCtlStep, HangUp, Silence, AllExited, Leave, Raise, file, memory, procs,
     barrier, wires
<1>8. ASSUME NEW w \in Worker, HandleEof(w)
      PROVE  ToCtlStep
  BY <1>8 DEF FInv, ToCtlStep, HangUp, Silence, HandleEof, Raise, file, memory, procs, barrier,
     wires
<1>9. ASSUME NEW w \in Worker, NEW e \in Event, HandleReady(w, e)
      PROVE  ToCtlStep
  <2>1. toCtl[w] # <<>> /\ toCtl' = TakeOf(toCtl, w)
    BY <1>9 DEF HandleReady, Received, TakeOf
  <2> QED BY <2>1 DEF ToCtlStep
<1>10. ASSUME NEW w \in Worker, NEW e \in Event, HandleReleased(w, e)
      PROVE  ToCtlStep
  <2>1. toCtl[w] # <<>> /\ toCtl' = TakeOf(toCtl, w)
    BY <1>10 DEF HandleReleased, Received, TakeOf
  <2> QED BY <2>1 DEF ToCtlStep
<1>11. CASE Fire
  BY <1>11 DEF FInv, ToCtlStep, HangUp, Silence, Fire, Intention, file, memory, procs, barrier,
     wires
<1>12. CASE Kill
  BY <1>12 DEF FInv, ToCtlStep, HangUp, Silence, Kill, Raise, file, memory, procs, barrier, wires
<1>13. CASE Observe
  BY <1>13 DEF FInv, ToCtlStep, HangUp, Silence, Observe, Confirmed, file, memory, procs, barrier,
     wires
<1>14. CASE ObserveFails
  BY <1>14 DEF FInv, ToCtlStep, HangUp, Silence, ObserveFails, Leave, Raise, file, memory, procs,
     barrier, wires
<1>15. CASE Injected
  BY <1>15 DEF FInv, ToCtlStep, HangUp, Silence, Injected, file, memory, procs, barrier, wires
<1>16. ASSUME NEW r \in Role, Release(r)
      PROVE  ToCtlStep
  BY <1>16 DEF FInv, ToCtlStep, HangUp, Silence, Release, Raise, file, memory, procs, barrier,
     wires
<1>17. CASE Abort
  BY <1>17, AbortFacts DEF ToCtlStep
<1>18. CASE Drain
  BY <1>18, DrainFacts DEF ToCtlStep
<1>19. CASE CloseAndKill
  BY <1>19 DEF FInv, ToCtlStep, HangUp, Silence, CloseAndKill, HangUp, ToKill, file, memory,
     procs, barrier, wires
<1>20. CASE Reap
  BY <1>20 DEF FInv, ToCtlStep, HangUp, Silence, Reap, file, memory, procs, barrier, wires
<1>21. CASE Verdict
  BY <1>21 DEF FInv, ToCtlStep, HangUp, Silence, Verdict, file, memory, procs, barrier, wires
<1>22. ASSUME NEW r \in Role, NEW created \in BOOLEAN, LaunchFails(r, created)
      PROVE  ToCtlStep
  BY <1>22 DEF FInv, ToCtlStep, HangUp, Silence, LaunchFails, Raise, file, memory, procs, barrier,
     wires
<1>23. CASE Watchdog
  BY <1>23 DEF FInv, ToCtlStep, HangUp, Silence, Watchdog, Leave, Raise, file, memory, procs,
     barrier, wires
<1>24. CASE Interrupt
  BY <1>24 DEF FInv, ToCtlStep, HangUp, Silence, Interrupt, Leave, Raise, InTry, file, memory,
     procs, barrier, wires
<1>25. CASE Crash
  BY <1>25 DEF FInv, ToCtlStep, HangUp, Silence, Crash, HangUp, file, memory, procs, barrier,
     wires
<1>26. CASE AddFails
  <2>1. toCtl' = toCtl \/ toCtl' = Silence
    BY <1>26 DEF AddFails, HangUp, wires, Silence
  <2> QED BY <2>1 DEF ToCtlStep
<1>27. CASE DeadlinePasses
  BY <1>27 DEF FInv, ToCtlStep, HangUp, Silence, DeadlinePasses, file, memory, procs, barrier,
     wires
<1>28. ASSUME NEW w \in Worker, NEW e \in Event, Arrive(w, e)
      PROVE  ToCtlStep
  <2>1. PICK m \in Message : m = [kind |-> "ready", event |-> e]
    BY DEF Message
  <2>2. /\ m.kind = "ready" /\ m.event = e
        /\ AttemptOf[e] = w[1] /\ w[2] \in Waiters[e] /\ <<e, w[2]>> \in reached'
    BY <1>28, <2>1 DEF Arrive
  <2>3. toCtl' = toCtl \/ toCtl' = SendOf(toCtl, w, m)
    BY <1>28, <2>1 DEF Arrive, Reply, SendOf
  <2> QED BY <2>2, <2>3 DEF ToCtlStep
<1>29. ASSUME NEW w \in Worker, Hear(w)
      PROVE  ToCtlStep
  <2>1. at[w] \in Event /\ AttemptOf[at[w]] = w[1] /\ w[2] \in Waiters[at[w]]
    BY <1>29 DEF FInv, TypeOK, WorkerTypeOK, WiresInv, Hear
  <2>2. PICK m \in Message : m = [kind |-> "released", event |-> at[w]]
    BY <2>1 DEF Message
  <2>3. PICK n \in Message : n = [kind |-> "aborted", event |-> at[w]]
    BY <2>1 DEF Message
  <2>4. /\ m.kind = "released" /\ m.event = at[w]
        /\ n.kind = "aborted" /\ n.event = at[w]
    BY <2>2, <2>3
  <2>5. \/ toCtl' = toCtl
        \/ toCtl' = SendOf(toCtl, w, m) /\ <<at[w], w[2]>> \in passed'
        \/ toCtl' = SendOf(toCtl, w, n)
    BY <1>29, <2>2, <2>3 DEF Hear, Reply, SendOf
  <2> QED BY <2>1, <2>4, <2>5 DEF ToCtlStep
<1>30. ASSUME NEW w \in Worker, BarrierFails(w)
      PROVE  ToCtlStep
  BY <1>30 DEF FInv, ToCtlStep, HangUp, Silence, BarrierFails, file, memory, procs, barrier, wires
<1>31. ASSUME NEW w \in Worker, Exit(w)
      PROVE  ToCtlStep
  BY <1>31 DEF FInv, ToCtlStep, HangUp, Silence, Exit, file, memory, procs, barrier, wires
<1>32. CASE UNCHANGED vars
  BY <1>32 DEF FInv, ToCtlStep, HangUp, Silence, file, memory, procs, barrier, wires, vars
<1> QED BY <1>1, <1>2, <1>3, <1>4, <1>5, <1>6, <1>7, <1>8, <1>9, <1>10, <1>11, <1>12, <1>13,
   <1>14, <1>15, <1>16, <1>17, <1>18, <1>19, <1>20, <1>21, <1>22, <1>23, <1>24, <1>25, <1>26,
   <1>27, <1>28, <1>29, <1>30, <1>31, <1>32 DEF Next, Controller, Injecting, Looping, Leaving,
   Failing, Working

(* The messages in flight keep their type. *)
LEMMA WireTypeStep ==
  ASSUME FInv, [Next]_vars
  PROVE  WireTypeOK'
<1>1. linked' \subseteq Worker
  <2>1. ASSUME NEW r \in Role, Launch(r) \/ \E created \in BOOLEAN : LaunchFails(r, created)
        PROVE  linked' \subseteq Worker
    BY <2>1 DEF FInv, TypeOK, WireTypeOK, ControlTypeOK, Launch, LaunchFails, Worker
  <2>2. CASE Abort \/ Drain
    BY <2>2, AbortFacts, DrainFacts DEF FInv, TypeOK, WireTypeOK
  <2> QED BY <2>1, <2>2 DEF FInv, TypeOK, WireTypeOK, Next, Controller, Injecting, Looping, Leaving,
        Failing, Working, Enter, EnterUnreadable, StartAttempt, Complete, Deadline, AllExited,
        HandleEof, HandleReady, HandleReleased, Fire, Kill, Observe, ObserveFails, Injected, Release,
        CloseAndKill, HangUp, Reap, Verdict, Watchdog, Interrupt, Crash, AddFails, DeadlinePasses,
        Arrive, Hear, BarrierFails, Exit, Leave, wires, vars
<1>2. toWorker \in [Worker -> Seq(Message)] /\ toCtl \in [Worker -> Seq(Message)]
  BY DEF FInv, TypeOK, WireTypeOK
<1>3. toWorker' \in [Worker -> Seq(Message)]
  <2>1. ASSUME NEW w \in Worker, NEW m \in Message, toWorker' = SendOf(toWorker, w, m)
        PROVE  toWorker' \in [Worker -> Seq(Message)]
    <3>1. SendOf(toWorker, w, m) \in [Worker -> Seq(Message)]
      BY <1>2, SendFacts
    <3> QED BY <2>1, <3>1
  <2>2. ASSUME NEW w \in Worker, toWorker[w] # <<>>, toWorker' = TakeOf(toWorker, w)
        PROVE  toWorker' \in [Worker -> Seq(Message)]
    <3>1. TakeOf(toWorker, w) \in [Worker -> Seq(Message)]
      BY <1>2, <2>2, TakeFacts
    <3> QED BY <2>2, <3>1
  <2> QED BY <1>2, <2>1, <2>2, ToWorkerEffect DEF ToWorkerStep
<1>4. toCtl' \in [Worker -> Seq(Message)]
  <2>1. ASSUME NEW w \in Worker, NEW m \in Message, toCtl' = SendOf(toCtl, w, m)
        PROVE  toCtl' \in [Worker -> Seq(Message)]
    <3>1. SendOf(toCtl, w, m) \in [Worker -> Seq(Message)]
      BY <1>2, SendFacts
    <3> QED BY <2>1, <3>1
  <2>2. ASSUME NEW w \in Worker, toCtl[w] # <<>>, toCtl' = TakeOf(toCtl, w)
        PROVE  toCtl' \in [Worker -> Seq(Message)]
    <3>1. TakeOf(toCtl, w) \in [Worker -> Seq(Message)]
      BY <1>2, <2>2, TakeFacts
    <3> QED BY <2>2, <3>1
  <2> QED BY <1>2, <2>1, <2>2, ToCtlEffect, SilenceFacts DEF ToCtlStep
<1> QED BY <1>1, <1>3, <1>4 DEF WireTypeOK


(* What never shrinks, and where workers stand after a step *)
History ==
    /\ observed \subseteq observed' /\ reached \subseteq reached' /\ passed \subseteq passed'
    /\ receipts \subseteq receipts' /\ fired \subseteq fired'

(* Observed kills, reached and passed barriers are never forgotten. *)
LEMMA HistoryGrows ==
  ASSUME FInv, [Next]_vars
  PROVE  History
<1>1. CASE Enter
  BY <1>1 DEF FInv, History, vars, Enter, Finished, Decided, file, memory, procs, barrier, wires
<1>2. CASE EnterUnreadable
  BY <1>2 DEF FInv, History, vars, EnterUnreadable, file, memory, procs, barrier, wires
<1>3. CASE StartAttempt
  BY <1>3 DEF FInv, History, vars, StartAttempt, IsNext, Finished, file, memory, procs, barrier,
     wires
<1>4. CASE Complete
  BY <1>4 DEF FInv, History, vars, Complete, Finished, file, memory, procs, barrier, wires
<1>5. ASSUME NEW r \in Role, Launch(r)
      PROVE  History
  BY <1>5 DEF FInv, History, vars, Launch, file, memory, procs, barrier, wires
<1>6. CASE Deadline
  BY <1>6 DEF FInv, History, vars, Deadline, Leave, Raise, file, memory, procs, barrier, wires
<1>7. CASE AllExited
  BY <1>7 DEF FInv, History, vars, AllExited, Leave, Raise, file, memory, procs, barrier, wires
<1>8. ASSUME NEW w \in Worker, HandleEof(w)
      PROVE  History
  BY <1>8 DEF FInv, History, vars, HandleEof, Raise, file, memory, procs, barrier, wires
<1>9. ASSUME NEW w \in Worker, NEW e \in Event, HandleReady(w, e)
      PROVE  History
  BY <1>9 DEF FInv, History, vars, HandleReady, Received, LastReady, file, memory, procs, barrier,
     wires
<1>10. ASSUME NEW w \in Worker, NEW e \in Event, HandleReleased(w, e)
      PROVE  History
  BY <1>10 DEF FInv, History, vars, HandleReleased, Received, Raise, file, memory, procs, barrier,
     wires
<1>11. CASE Fire
  BY <1>11 DEF FInv, History, vars, Fire, Intention, file, memory, procs, barrier, wires
<1>12. CASE Kill
  BY <1>12 DEF FInv, History, vars, Kill, Raise, file, memory, procs, barrier, wires
<1>13. CASE Observe
  BY <1>13 DEF FInv, History, vars, Observe, Confirmed, file, memory, procs, barrier, wires
<1>14. CASE ObserveFails
  BY <1>14 DEF FInv, History, vars, ObserveFails, Leave, Raise, file, memory, procs, barrier,
     wires
<1>15. CASE Injected
  BY <1>15 DEF FInv, History, vars, Injected, file, memory, procs, barrier, wires
<1>16. ASSUME NEW r \in Role, Release(r)
      PROVE  History
  BY <1>16 DEF FInv, History, vars, Release, Raise, file, memory, procs, barrier, wires
<1>17. CASE Abort
  BY <1>17, AbortFacts DEF History, file, barrier
<1>18. CASE Drain
  BY <1>18, DrainFacts DEF History, file, barrier
<1>19. CASE CloseAndKill
  BY <1>19 DEF FInv, History, vars, CloseAndKill, HangUp, ToKill, file, memory, procs, barrier,
     wires
<1>20. CASE Reap
  BY <1>20 DEF FInv, History, vars, Reap, file, memory, procs, barrier, wires
<1>21. CASE Verdict
  BY <1>21 DEF FInv, History, vars, Verdict, file, memory, procs, barrier, wires
<1>22. ASSUME NEW r \in Role, NEW created \in BOOLEAN, LaunchFails(r, created)
      PROVE  History
  BY <1>22 DEF FInv, History, vars, LaunchFails, Raise, file, memory, procs, barrier, wires
<1>23. CASE Watchdog
  BY <1>23 DEF FInv, History, vars, Watchdog, Leave, Raise, file, memory, procs, barrier, wires
<1>24. CASE Interrupt
  BY <1>24 DEF FInv, History, vars, Interrupt, Leave, Raise, InTry, file, memory, procs, barrier,
     wires
<1>25. CASE Crash
  BY <1>25 DEF FInv, History, vars, Crash, HangUp, file, memory, procs, barrier, wires
<1>26. CASE AddFails
  BY <1>26 DEF FInv, History, vars, AddFails, InTry, Raise, HangUp, StartLine, EndLine,
     CompleteLine, IsNext, Finished, file, memory, procs, barrier, wires
<1>27. CASE DeadlinePasses
  BY <1>27 DEF FInv, History, vars, DeadlinePasses, file, memory, procs, barrier, wires
<1>28. ASSUME NEW w \in Worker, NEW e \in Event, Arrive(w, e)
      PROVE  History
  BY <1>28 DEF FInv, History, vars, Arrive, Reply, file, memory, procs, barrier, wires
<1>29. ASSUME NEW w \in Worker, Hear(w)
      PROVE  History
  BY <1>29 DEF FInv, History, vars, Hear, Reply, Opens, file, memory, procs, barrier, wires
<1>30. ASSUME NEW w \in Worker, BarrierFails(w)
      PROVE  History
  BY <1>30 DEF FInv, History, vars, BarrierFails, file, memory, procs, barrier, wires
<1>31. ASSUME NEW w \in Worker, Exit(w)
      PROVE  History
  BY <1>31 DEF FInv, History, vars, Exit, file, memory, procs, barrier, wires
<1>32. CASE UNCHANGED vars
  BY <1>32 DEF FInv, History, vars, file, memory, procs, barrier, wires, vars
<1> QED BY <1>1, <1>2, <1>3, <1>4, <1>5, <1>6, <1>7, <1>8, <1>9, <1>10, <1>11, <1>12, <1>13,
   <1>14, <1>15, <1>16, <1>17, <1>18, <1>19, <1>20, <1>21, <1>22, <1>23, <1>24, <1>25, <1>26,
   <1>27, <1>28, <1>29, <1>30, <1>31, <1>32 DEF Next, Controller, Injecting, Looping, Leaving,
   Failing, Working

(* Messages in flight and standing workers keep what they say about the past. *)
LEMMA WiresStep ==
  ASSUME FInv, [Next]_vars
  PROVE  WiresInv'
<1>1. toWorker \in [Worker -> Seq(Message)] /\ toCtl \in [Worker -> Seq(Message)]
  BY DEF FInv, TypeOK, WireTypeOK
<1>2. observed \subseteq observed' /\ reached \subseteq reached' /\ passed \subseteq passed'
  BY HistoryGrows DEF History
<1>3. ASSUME NEW w \in Worker, NEW i \in 1 .. Len(toWorker'[w]), toWorker'[w][i].kind = "release"
      PROVE  toWorker'[w][i].event \in observed' /\ w[2] \in Others(toWorker'[w][i].event)
  <2>1. CASE toWorker' = toWorker
    BY <1>2, <1>3, <2>1 DEF FInv, WiresInv
  <2>2. ASSUME NEW v \in Worker, NEW m \in Message, toWorker' = SendOf(toWorker, v, m),
               m.kind = "release" => m.event \in observed /\ v[2] \in Others(m.event)
        PROVE  toWorker'[w][i].event \in observed' /\ w[2] \in Others(toWorker'[w][i].event)
    <3>1. \/ i \in 1 .. Len(toWorker[w]) /\ toWorker'[w][i] = toWorker[w][i]
          \/ w = v /\ toWorker'[w][i] = m
      <4>1. AddsOnly(toWorker, v, m)
        BY <1>1, SendFacts
      <4>2. toWorker' = SendOf(toWorker, v, m)
        BY <2>2
      <4>3. i \in 1 .. Len(SendOf(toWorker, v, m)[w])
        BY <4>2
      <4> QED BY <4>1, <4>2, <4>3 DEF AddsOnly
    <3> QED BY <1>2, <1>3, <2>2, <3>1 DEF FInv, WiresInv
  <2>3. ASSUME NEW v \in Worker, toWorker[v] # <<>>, toWorker' = TakeOf(toWorker, v)
        PROVE  toWorker'[w][i].event \in observed' /\ w[2] \in Others(toWorker'[w][i].event)
    <3>1. PICK j \in 1 .. Len(toWorker[w]) : toWorker'[w][i] = toWorker[w][j]
      BY <1>1, <2>3, TakeFacts
    <3> QED BY <1>2, <1>3, <3>1 DEF FInv, WiresInv
  <2> QED BY <2>1, <2>2, <2>3, ToWorkerEffect DEF ToWorkerStep
<1>4. ASSUME NEW w \in Worker, NEW i \in 1 .. Len(toCtl'[w])
      PROVE  /\ AttemptOf[toCtl'[w][i].event] = w[1] /\ w[2] \in Waiters[toCtl'[w][i].event]
             /\ toCtl'[w][i].kind = "ready" => <<toCtl'[w][i].event, w[2]>> \in reached'
             /\ toCtl'[w][i].kind = "released" => <<toCtl'[w][i].event, w[2]>> \in passed'
  <2>1. CASE toCtl' = toCtl
    BY <1>2, <2>1 DEF FInv, WiresInv
  <2>2. CASE toCtl' = Silence
    BY <2>2, SilenceFacts
  <2>3. ASSUME NEW v \in Worker, NEW m \in Message, toCtl' = SendOf(toCtl, v, m),
               AttemptOf[m.event] = v[1] /\ v[2] \in Waiters[m.event],
               m.kind = "ready" => <<m.event, v[2]>> \in reached',
               m.kind = "released" => <<m.event, v[2]>> \in passed'
        PROVE  /\ AttemptOf[toCtl'[w][i].event] = w[1] /\ w[2] \in Waiters[toCtl'[w][i].event]
               /\ toCtl'[w][i].kind = "ready" => <<toCtl'[w][i].event, w[2]>> \in reached'
               /\ toCtl'[w][i].kind = "released" => <<toCtl'[w][i].event, w[2]>> \in passed'
    <3>1. \/ i \in 1 .. Len(toCtl[w]) /\ toCtl'[w][i] = toCtl[w][i]
          \/ w = v /\ toCtl'[w][i] = m
      <4>1. AddsOnly(toCtl, v, m)
        BY <1>1, SendFacts
      <4>2. toCtl' = SendOf(toCtl, v, m)
        BY <2>3
      <4>3. i \in 1 .. Len(SendOf(toCtl, v, m)[w])
        BY <4>2
      <4> QED BY <4>1, <4>2, <4>3 DEF AddsOnly
    <3> QED BY <1>2, <2>3, <3>1 DEF FInv, WiresInv
  <2>4. ASSUME NEW v \in Worker, toCtl[v] # <<>>, toCtl' = TakeOf(toCtl, v)
        PROVE  /\ AttemptOf[toCtl'[w][i].event] = w[1] /\ w[2] \in Waiters[toCtl'[w][i].event]
               /\ toCtl'[w][i].kind = "ready" => <<toCtl'[w][i].event, w[2]>> \in reached'
               /\ toCtl'[w][i].kind = "released" => <<toCtl'[w][i].event, w[2]>> \in passed'
    <3>1. PICK j \in 1 .. Len(toCtl[w]) : toCtl'[w][i] = toCtl[w][j]
      BY <1>1, <2>4, TakeFacts
    <3> QED BY <1>2, <3>1 DEF FInv, WiresInv
  <2> QED BY <2>1, <2>2, <2>3, <2>4, ToCtlEffect DEF ToCtlStep
<1>5. ASSUME NEW w \in Worker, at'[w] # None
      PROVE  AttemptOf[at'[w]] = w[1] /\ w[2] \in Waiters[at'[w]] /\ <<at'[w], w[2]>> \in reached'
  <2>1. CASE at' = at
    BY <1>2, <1>5, <2>1 DEF FInv, WiresInv
  <2>2. ASSUME NEW v \in Worker, NEW e \in Event, Arrive(v, e)
        PROVE  AttemptOf[at'[w]] = w[1] /\ w[2] \in Waiters[at'[w]] /\ <<at'[w], w[2]>> \in reached'
    BY <1>2, <1>5, <2>2 DEF FInv, TypeOK, WorkerTypeOK, WiresInv, Arrive
  <2>3. ASSUME NEW v \in Worker, Hear(v) \/ BarrierFails(v) \/ Exit(v)
        PROVE  AttemptOf[at'[w]] = w[1] /\ w[2] \in Waiters[at'[w]] /\ <<at'[w], w[2]>> \in reached'
    BY <1>2, <1>5, <2>3 DEF FInv, TypeOK, WorkerTypeOK, WiresInv, Hear, BarrierFails, Exit
  <2>4. CASE Abort \/ Drain
    BY <2>1, <2>4, AbortFacts, DrainFacts DEF barrier
  <2> QED BY <2>1, <2>2, <2>3, <2>4 DEF Next, Controller, Injecting, Looping, Leaving,
        Failing, Working, Enter, EnterUnreadable, StartAttempt, Complete, Launch, LaunchFails, Deadline,
        AllExited, HandleEof, HandleReady, HandleReleased, Fire, Kill, Observe, ObserveFails, Injected,
        Release, CloseAndKill, Reap, Verdict, Watchdog, Interrupt, Crash, AddFails, DeadlinePasses,
        Leave, barrier, vars
<1> QED BY <1>3, <1>4, <1>5 DEF WiresInv, Others


(* An injection stays where its records say it is. *)
LEMMA CutStep ==
  ASSUME FInv, [Next]_vars
  PROVE  CutInv'
<1>1. CASE Enter
  BY <1>1, FaultAssumption DEF FInv, CutInv, TypeOK, FileTypeOK, ControlTypeOK, WorkerTypeOK,
     Alive, Others, TargetOf, Events, Preflight, Mine, Worker, Enter, Finished, Decided, file,
     memory, procs, barrier, wires
<1>2. CASE EnterUnreadable
  BY <1>2, FaultAssumption DEF FInv, CutInv, TypeOK, FileTypeOK, ControlTypeOK, WorkerTypeOK,
     Alive, Others, TargetOf, Events, Preflight, Mine, Worker, EnterUnreadable, file, memory,
     procs, barrier, wires
<1>3. CASE StartAttempt
  BY <1>3, FaultAssumption DEF FInv, CutInv, TypeOK, FileTypeOK, ControlTypeOK, WorkerTypeOK,
     Alive, Others, TargetOf, Events, Preflight, Mine, Worker, StartAttempt, IsNext, Finished,
     file, memory, procs, barrier, wires
<1>4. CASE Complete
  BY <1>4, FaultAssumption DEF FInv, CutInv, TypeOK, FileTypeOK, ControlTypeOK, WorkerTypeOK,
     Alive, Others, TargetOf, Events, Preflight, Mine, Worker, Complete, Finished, file, memory,
     procs, barrier, wires
<1>5. ASSUME NEW r \in Role, Launch(r)
      PROVE  CutInv'
  BY <1>5, FaultAssumption DEF FInv, CutInv, TypeOK, FileTypeOK, ControlTypeOK, WorkerTypeOK,
     Alive, Others, TargetOf, Events, Preflight, Mine, Worker, Launch, file, memory, procs,
     barrier, wires
<1>6. CASE Deadline
  BY <1>6, FaultAssumption DEF FInv, CutInv, TypeOK, FileTypeOK, ControlTypeOK, WorkerTypeOK,
     Alive, Others, TargetOf, Events, Preflight, Mine, Worker, Deadline, Leave, Raise, file,
     memory, procs, barrier, wires
<1>7. CASE AllExited
  BY <1>7, FaultAssumption DEF FInv, CutInv, TypeOK, FileTypeOK, ControlTypeOK, WorkerTypeOK,
     Alive, Others, TargetOf, Events, Preflight, Mine, Worker, AllExited, Leave, Raise, file,
     memory, procs, barrier, wires
<1>8. ASSUME NEW w \in Worker, HandleEof(w)
      PROVE  CutInv'
  BY <1>8, FaultAssumption DEF FInv, CutInv, TypeOK, FileTypeOK, ControlTypeOK, WorkerTypeOK,
     Alive, Others, TargetOf, Events, Preflight, Mine, Worker, HandleEof, Raise, file, memory,
     procs, barrier, wires
<1>9. ASSUME NEW w \in Worker, NEW e \in Event, HandleReady(w, e)
      PROVE  CutInv'
  <2>1. Received(w, "ready", e)
    BY <1>9 DEF HandleReady
  <2>2. /\ w[1] = cur /\ AttemptOf[e] = cur /\ w[2] \in Waiters[e] /\ w[2] \in Role
        /\ <<e, w[2]>> \in reached
    BY <2>1, ReceivedFacts
  <2>3. /\ ready \in [Event -> SUBSET Role]
        /\ ready'[e] = ready[e] \cup {w[2]}
        /\ \A f \in Event : f # e => ready'[f] = ready[f]
    BY <1>9 DEF FInv, TypeOK, ControlTypeOK, HandleReady
  <2>4. \A f \in Event : \A r \in ready'[f] : <<f, r>> \in reached
    BY <2>2, <2>3 DEF FInv, CutInv
  <2>5. \A f \in Event : shots[f] > 0 => shots[f] = 1 /\ f \in fired /\ ready'[f] = Waiters[f]
    BY <2>2, <2>3 DEF FInv, CutInv
  <2>6. CASE LastReady(w, e)
    <3>1. /\ pc' = "fire" /\ ev' = e /\ e \in Events(cur) /\ ready'[e] = Waiters[e]
      BY <1>9, <2>2, <2>3, <2>6 DEF HandleReady, LastReady, Events
    <3>2. shots[e] = 0
      BY <2>2, <2>6 DEF FInv, CutInv, TypeOK, WorkerTypeOK, LastReady
    <3> QED BY <1>9, <2>4, <2>5, <3>1, <3>2 DEF FInv, CutInv, HandleReady, procs, barrier, file, Events, TargetOf, Others
  <2>7. CASE ~LastReady(w, e)
    BY <1>9, <2>4, <2>5, <2>7 DEF FInv, CutInv, HandleReady, procs, barrier, file, Events, TargetOf, Others
  <2> QED BY <2>6, <2>7
<1>10. ASSUME NEW w \in Worker, NEW e \in Event, HandleReleased(w, e)
      PROVE  CutInv'
  <2>1. Received(w, "released", e)
    BY <1>10 DEF HandleReleased
  <2>2. /\ w[1] = cur /\ AttemptOf[e] = cur /\ w[2] \in Waiters[e] /\ w[2] \in Role
        /\ <<e, w[2]>> \in passed
    BY <2>1, ReceivedFacts
  <2> QED BY <1>10, <2>2, FaultAssumption DEF FInv, CutInv, TypeOK, FileTypeOK, ControlTypeOK,
     WorkerTypeOK, Alive, Others, TargetOf, Events, Preflight, HandleReleased, Raise, LastReady,
     file, memory, procs, barrier, wires
<1>11. CASE Fire
  BY <1>11, FaultAssumption DEF FInv, CutInv, TypeOK, FileTypeOK, ControlTypeOK, WorkerTypeOK,
     Alive, Others, TargetOf, Events, Preflight, Mine, Worker, Fire, Intention, file, memory,
     procs, barrier, wires
<1>12. CASE Kill
  <2>1. ev \in Event /\ TargetOf(ev) \in Worker /\ shots[ev] = 0 /\ ev \in fired
    BY <1>12, FaultAssumption DEF FInv, CutInv, Kill, Events, TargetOf, Worker, Preflight
  <2>2. CASE Alive(TargetOf(ev))
    <3>1. /\ shots'[ev] = 1
          /\ \A f \in Event : f # ev => shots'[f] = shots[f]
      BY <1>12, <2>1, <2>2 DEF FInv, TypeOK, WorkerTypeOK, Kill
    <3>2. \A f \in observed : TargetOf(f) # TargetOf(ev)
      BY <2>2 DEF FInv, CutInv, Alive
    <3>3. \A f \in Event : shots'[f] > 0 => shots'[f] = 1 /\ f \in fired /\ ready[f] = Waiters[f]
      BY <1>12, <2>1, <3>1 DEF FInv, CutInv, Kill
    <3> QED BY <1>12, <2>1, <2>2, <3>2, <3>3 DEF FInv, CutInv, Kill, file, barrier, Events, TargetOf, Others
  <2>3. CASE ~Alive(TargetOf(ev))
    BY <1>12, <2>3 DEF FInv, CutInv, Kill, Raise, file, barrier, Events, TargetOf, Others
  <2> QED BY <2>2, <2>3
<1>13. CASE Observe
  <2>1. /\ ev \in Events(cur) /\ ev \in Event /\ ready[ev] = Waiters[ev] /\ ev \in fired
        /\ life[TargetOf(ev)] = "killed" /\ \A f \in observed : TargetOf(f) # TargetOf(ev)
    BY <1>13 DEF FInv, CutInv, Observe, Confirmed, Events
  <2>2. observed' = observed \cup {ev} /\ UNCHANGED <<life, shots, ready, reached, passed, fired, cur, ev>>
    BY <1>13 DEF Observe, procs, barrier
  <2>3. \A e \in observed' : life'[TargetOf(e)'] = "killed"
    BY <2>1, <2>2 DEF FInv, CutInv, TargetOf
  <2>4. \A e, f \in observed' : e # f => TargetOf(e)' # TargetOf(f)'
    BY <2>1, <2>2 DEF FInv, CutInv, TargetOf
  <2>5. pc' = "release" /\ todo' = Others(ev)
    BY <1>13 DEF Observe
  <2>6. \A x \in passed : x[1] \in observed' /\ x[2] \in Others(x[1])
    BY <2>2 DEF FInv, CutInv
  <2> QED BY <2>1, <2>2, <2>3, <2>4, <2>5, <2>6 DEF FInv, CutInv, Events, TargetOf, Others
<1>14. CASE ObserveFails
  BY <1>14, FaultAssumption DEF FInv, CutInv, TypeOK, FileTypeOK, ControlTypeOK, WorkerTypeOK,
     Alive, Others, TargetOf, Events, Preflight, Mine, Worker, ObserveFails, Leave, Raise, file,
     memory, procs, barrier, wires
<1>15. CASE Injected
  BY <1>15, FaultAssumption DEF FInv, CutInv, TypeOK, FileTypeOK, ControlTypeOK, WorkerTypeOK,
     Alive, Others, TargetOf, Events, Preflight, Mine, Worker, Injected, file, memory, procs,
     barrier, wires
<1>16. ASSUME NEW r \in Role, Release(r)
      PROVE  CutInv'
  BY <1>16, FaultAssumption DEF FInv, CutInv, TypeOK, FileTypeOK, ControlTypeOK, WorkerTypeOK,
     Alive, Others, TargetOf, Events, Preflight, Mine, Worker, Release, Raise, file, memory,
     procs, barrier, wires
<1>17. CASE Abort
  BY <1>17, AbortFacts DEF FInv, CutInv, TypeOK, FileTypeOK, ControlTypeOK, WorkerTypeOK, Alive,
     Others, TargetOf, Events, Preflight, file, memory, procs, barrier, wires
<1>18. CASE Drain
  BY <1>18, DrainFacts DEF FInv, CutInv, TypeOK, FileTypeOK, ControlTypeOK, WorkerTypeOK, Alive,
     Others, TargetOf, Events, Preflight, file, memory, procs, barrier, wires
<1>19. CASE CloseAndKill
  BY <1>19, FaultAssumption DEF FInv, CutInv, TypeOK, FileTypeOK, ControlTypeOK, WorkerTypeOK,
     Alive, Others, TargetOf, Events, Preflight, Mine, Worker, CloseAndKill, HangUp, ToKill, file,
     memory, procs, barrier, wires
<1>20. CASE Reap
  BY <1>20, FaultAssumption DEF FInv, CutInv, TypeOK, FileTypeOK, ControlTypeOK, WorkerTypeOK,
     Alive, Others, TargetOf, Events, Preflight, Mine, Worker, Reap, file, memory, procs, barrier,
     wires
<1>21. CASE Verdict
  BY <1>21, FaultAssumption DEF FInv, CutInv, TypeOK, FileTypeOK, ControlTypeOK, WorkerTypeOK,
     Alive, Others, TargetOf, Events, Preflight, Mine, Worker, Verdict, file, memory, procs,
     barrier, wires
<1>22. ASSUME NEW r \in Role, NEW created \in BOOLEAN, LaunchFails(r, created)
      PROVE  CutInv'
  BY <1>22, FaultAssumption DEF FInv, CutInv, TypeOK, FileTypeOK, ControlTypeOK, WorkerTypeOK,
     Alive, Others, TargetOf, Events, Preflight, Mine, Worker, LaunchFails, Raise, file, memory,
     procs, barrier, wires
<1>23. CASE Watchdog
  BY <1>23, FaultAssumption DEF FInv, CutInv, TypeOK, FileTypeOK, ControlTypeOK, WorkerTypeOK,
     Alive, Others, TargetOf, Events, Preflight, Mine, Worker, Watchdog, Leave, Raise, file,
     memory, procs, barrier, wires
<1>24. CASE Interrupt
  BY <1>24, FaultAssumption DEF FInv, CutInv, TypeOK, FileTypeOK, ControlTypeOK, WorkerTypeOK,
     Alive, Others, TargetOf, Events, Preflight, Mine, Worker, Interrupt, Leave, Raise, InTry,
     file, memory, procs, barrier, wires
<1>25. CASE Crash
  BY <1>25, FaultAssumption DEF FInv, CutInv, TypeOK, FileTypeOK, ControlTypeOK, WorkerTypeOK,
     Alive, Others, TargetOf, Events, Preflight, Mine, Worker, Crash, HangUp, file, memory, procs,
     barrier, wires
<1>26. CASE AddFails
  BY <1>26, FaultAssumption DEF FInv, CutInv, TypeOK, FileTypeOK, ControlTypeOK, WorkerTypeOK,
     Alive, Others, TargetOf, Events, Preflight, Mine, Worker, AddFails, InTry, Raise, HangUp,
     StartLine, EndLine, CompleteLine, IsNext, Finished, file, memory, procs, barrier, wires
<1>27. CASE DeadlinePasses
  BY <1>27, FaultAssumption DEF FInv, CutInv, TypeOK, FileTypeOK, ControlTypeOK, WorkerTypeOK,
     Alive, Others, TargetOf, Events, Preflight, Mine, Worker, DeadlinePasses, file, memory,
     procs, barrier, wires
<1>28. ASSUME NEW w \in Worker, NEW e \in Event, Arrive(w, e)
      PROVE  CutInv'
  BY <1>28, FaultAssumption DEF FInv, CutInv, TypeOK, FileTypeOK, ControlTypeOK, WorkerTypeOK,
     Alive, Others, TargetOf, Events, Preflight, Mine, Worker, Arrive, Reply, file, memory, procs,
     barrier, wires
<1>29. ASSUME NEW w \in Worker, Hear(w)
      PROVE  CutInv'
  <2>1. \A x \in passed' : x[1] \in observed /\ x[2] \in Others(x[1])
    <3>1. CASE passed' = passed
      BY <3>1 DEF FInv, CutInv
    <3>2. CASE passed' # passed
      <4>1. /\ toWorker[w] # <<>> /\ toWorker[w] \in Seq(Message) /\ passed' = passed \cup {<<at[w], w[2]>>}
            /\ Opens(w, Head(toWorker[w]))
        BY <1>29, <3>2 DEF FInv, TypeOK, WireTypeOK, Hear
      <4>2. Head(toWorker[w]) = toWorker[w][1] /\ 1 \in 1 .. Len(toWorker[w])
        BY <4>1
      <4>3. at[w] \in observed /\ w[2] \in Others(at[w])
        BY <4>1, <4>2 DEF FInv, WiresInv, Opens
      <4> QED BY <4>1, <4>3 DEF FInv, CutInv
    <3> QED BY <3>1, <3>2
  <2>2. UNCHANGED <<file, pc, memory, procs, reached>>
    BY <1>29 DEF Hear
  <2> QED BY <2>1, <2>2 DEF FInv, CutInv, file, memory, procs, Events, TargetOf, Others
<1>30. ASSUME NEW w \in Worker, BarrierFails(w)
      PROVE  CutInv'
  BY <1>30, FaultAssumption DEF FInv, CutInv, TypeOK, FileTypeOK, ControlTypeOK, WorkerTypeOK,
     Alive, Others, TargetOf, Events, Preflight, Mine, Worker, BarrierFails, file, memory, procs,
     barrier, wires
<1>31. ASSUME NEW w \in Worker, Exit(w)
      PROVE  CutInv'
  <2>1. \A v \in Worker : life[v] = "killed" => life'[v] = "killed"
    BY <1>31 DEF FInv, TypeOK, WorkerTypeOK, Exit, Alive
  <2>2. \A e \in observed : TargetOf(e) \in Worker /\ life[TargetOf(e)] = "killed"
    BY FaultAssumption DEF FInv, CutInv, TypeOK, FileTypeOK, TargetOf, Worker, Preflight
  <2>3. UNCHANGED <<file, pc, memory, shots, reached, passed>>
    BY <1>31 DEF Exit
  <2> QED BY <2>1, <2>2, <2>3 DEF FInv, CutInv, file, memory, Events, TargetOf, Others
<1>32. CASE UNCHANGED vars
  BY <1>32 DEF FInv, CutInv, TypeOK, FileTypeOK, ControlTypeOK, WorkerTypeOK, Alive, Others,
     TargetOf, Events, Preflight, Mine, Worker, file, memory, procs, barrier, wires, vars
<1> QED BY <1>1, <1>2, <1>3, <1>4, <1>5, <1>6, <1>7, <1>8, <1>9, <1>10, <1>11, <1>12, <1>13,
   <1>14, <1>15, <1>16, <1>17, <1>18, <1>19, <1>20, <1>21, <1>22, <1>23, <1>24, <1>25, <1>26,
   <1>27, <1>28, <1>29, <1>30, <1>31, <1>32 DEF Next, Controller, Injecting, Looping, Leaving,
   Failing, Working

(* Appending a result adds it to the results there are. *)
LEMMA AppendRange ==
  ASSUME NEW s \in Seq({"technical_invalid", "execution_complete"}),
         NEW x \in {"technical_invalid", "execution_complete"}
  PROVE  Range(Append(s, x)) = Range(s) \cup {x}
<1>1. /\ Len(Append(s, x)) = Len(s) + 1 /\ Len(s) \in Nat
      /\ Append(s, x)[Len(s) + 1] = x
      /\ \A i \in 1 .. Len(s) : Append(s, x)[i] = s[i]
      /\ DOMAIN s = 1 .. Len(s) /\ DOMAIN Append(s, x) = 1 .. Len(s) + 1
  OBVIOUS
<1>2. Range(s) = {s[i] : i \in 1 .. Len(s)}
  BY <1>1 DEF Range
<1>3. Range(Append(s, x)) = {Append(s, x)[i] : i \in 1 .. Len(s) + 1}
  BY <1>1 DEF Range
<1>4. \A i \in 1 .. Len(s) + 1 : i \in 1 .. Len(s) \/ i = Len(s) + 1
  BY <1>1
<1>5. \A i \in 1 .. Len(s) : i \in 1 .. Len(s) + 1
  BY <1>1
<1>6. Len(s) + 1 \in 1 .. Len(s) + 1
  BY <1>1
<1> QED BY <1>1, <1>2, <1>3, <1>4, <1>5, <1>6

(* Phases and ended attempts stay backed by receipts. *)
LEMMA ReceiptStep ==
  ASSUME FInv, [Next]_vars
  PROVE  ReceiptInv'
<1>1. CASE Enter
  <2>1. "execution_complete" \in Range(results') => "execution_complete" \in Range(results)
    BY <1>1, AppendRange DEF FInv, TypeOK, FileTypeOK, Enter
  <2> QED BY <1>1, <2>1 DEF FInv, ReceiptInv, Enter, memory, barrier, Others, Events, AllReleased
<1>2. CASE EnterUnreadable
  BY <1>2, FaultAssumption DEF FInv, ReceiptInv, TypeOK, FileTypeOK, ControlTypeOK, Others,
     Events, AllReleased, Preflight, EnterUnreadable, file, memory, procs, barrier, wires
<1>3. CASE StartAttempt
  BY <1>3, FaultAssumption DEF FInv, ReceiptInv, TypeOK, FileTypeOK, ControlTypeOK, Others,
     Events, AllReleased, Preflight, StartAttempt, IsNext, Finished, file, memory, procs, barrier,
     wires
<1>4. CASE Complete
  BY <1>4, FaultAssumption DEF FInv, ReceiptInv, TypeOK, FileTypeOK, ControlTypeOK, Others,
     Events, AllReleased, Preflight, Complete, Finished, file, memory, procs, barrier, wires
<1>5. ASSUME NEW r \in Role, Launch(r)
      PROVE  ReceiptInv'
  BY <1>5, FaultAssumption DEF FInv, ReceiptInv, TypeOK, FileTypeOK, ControlTypeOK, Others,
     Events, AllReleased, Preflight, Launch, file, memory, procs, barrier, wires
<1>6. CASE Deadline
  BY <1>6, FaultAssumption DEF FInv, ReceiptInv, TypeOK, FileTypeOK, ControlTypeOK, Others,
     Events, AllReleased, Preflight, Deadline, Leave, Raise, file, memory, procs, barrier, wires
<1>7. CASE AllExited
  BY <1>7, FaultAssumption DEF FInv, ReceiptInv, TypeOK, FileTypeOK, ControlTypeOK, Others,
     Events, AllReleased, Preflight, AllExited, Leave, Raise, file, memory, procs, barrier, wires
<1>8. ASSUME NEW w \in Worker, HandleEof(w)
      PROVE  ReceiptInv'
  BY <1>8, FaultAssumption DEF FInv, ReceiptInv, TypeOK, FileTypeOK, ControlTypeOK, Others,
     Events, AllReleased, Preflight, HandleEof, Raise, file, memory, procs, barrier, wires
<1>9. ASSUME NEW w \in Worker, NEW e \in Event, HandleReady(w, e)
      PROVE  ReceiptInv'
  BY <1>9, FaultAssumption DEF FInv, ReceiptInv, TypeOK, FileTypeOK, ControlTypeOK, Others,
     Events, AllReleased, Preflight, HandleReady, Received, LastReady, file, memory, procs,
     barrier, wires
<1>10. ASSUME NEW w \in Worker, NEW e \in Event, HandleReleased(w, e)
      PROVE  ReceiptInv'
  <2>1. Received(w, "released", e)
    BY <1>10 DEF HandleReleased
  <2>2. AttemptOf[e] = cur /\ w[2] \in Waiters[e] /\ <<e, w[2]>> \in passed
    BY <2>1, ReceivedFacts
  <2>3. e \in observed /\ w[2] \in Others(e)
    BY <2>2 DEF FInv, CutInv
  <2>4. CASE phase[e] = "waiting"
    BY <1>10, <2>4 DEF FInv, ReceiptInv, HandleReleased, Raise, barrier, Others, Events, AllReleased
  <2>5. CASE phase[e] # "waiting"
    <3>1. /\ receipts' = receipts \cup {<<e, w[2]>>}
          /\ released'[e] = released[e] \cup {w[2]}
          /\ \A f \in Event : f # e => released'[f] = released[f] /\ phase'[f] = phase[f]
          /\ phase'[e] \in {phase[e], "released"}
          /\ phase'[e] # phase[e] => released'[e] = Others(e)
          /\ UNCHANGED <<pc, observed, ended, passed, results, outcome, cur>>
      BY <1>10, <2>5 DEF FInv, TypeOK, ControlTypeOK, HandleReleased, barrier
    <3>2. pc' = "loop"
      BY <1>10, <3>1 DEF HandleReleased
    <3>3. \A f \in Event : \A r \in released'[f] : <<f, r>> \in receipts'
      BY <3>1 DEF FInv, ReceiptInv
    <3>4. \A f \in Event : phase'[f] # "waiting" => f \in observed
      BY <2>3, <3>1 DEF FInv, ReceiptInv
    <3>5. \A f \in Event : phase'[f] = "released" => \A r \in Others(f) : <<f, r>> \in receipts'
      BY <3>1, <3>3 DEF FInv, ReceiptInv
    <3> QED BY <2>2, <3>1, <3>2, <3>3, <3>4, <3>5 DEF FInv, ReceiptInv, Others
  <2> QED BY <2>4, <2>5
<1>11. CASE Fire
  BY <1>11, FaultAssumption DEF FInv, ReceiptInv, TypeOK, FileTypeOK, ControlTypeOK, Others,
     Events, AllReleased, Preflight, Fire, Intention, file, memory, procs, barrier, wires
<1>12. CASE Kill
  BY <1>12, FaultAssumption DEF FInv, ReceiptInv, TypeOK, FileTypeOK, ControlTypeOK, Others,
     Events, AllReleased, Preflight, Kill, Raise, file, memory, procs, barrier, wires
<1>13. CASE Observe
  BY <1>13, FaultAssumption DEF FInv, ReceiptInv, TypeOK, FileTypeOK, ControlTypeOK, Others,
     Events, AllReleased, Preflight, Observe, Confirmed, file, memory, procs, barrier, wires
<1>14. CASE ObserveFails
  BY <1>14, FaultAssumption DEF FInv, ReceiptInv, TypeOK, FileTypeOK, ControlTypeOK, Others,
     Events, AllReleased, Preflight, ObserveFails, Leave, Raise, file, memory, procs, barrier,
     wires
<1>15. CASE Injected
  BY <1>15, FaultAssumption DEF FInv, ReceiptInv, TypeOK, FileTypeOK, ControlTypeOK, Others,
     Events, AllReleased, Preflight, Injected, file, memory, procs, barrier, wires
<1>16. ASSUME NEW r \in Role, Release(r)
      PROVE  ReceiptInv'
  BY <1>16, FaultAssumption DEF FInv, ReceiptInv, TypeOK, FileTypeOK, ControlTypeOK, Others,
     Events, AllReleased, Preflight, Release, Raise, file, memory, procs, barrier, wires
<1>17. CASE Abort
  BY <1>17, AbortFacts DEF FInv, ReceiptInv, TypeOK, FileTypeOK, ControlTypeOK, Others, Events,
     AllReleased, Preflight, file, memory, procs, barrier, wires
<1>18. CASE Drain
  BY <1>18, DrainFacts DEF FInv, ReceiptInv, TypeOK, FileTypeOK, ControlTypeOK, Others, Events,
     AllReleased, Preflight, file, memory, procs, barrier, wires
<1>19. CASE CloseAndKill
  BY <1>19, FaultAssumption DEF FInv, ReceiptInv, TypeOK, FileTypeOK, ControlTypeOK, Others,
     Events, AllReleased, Preflight, CloseAndKill, HangUp, ToKill, file, memory, procs, barrier,
     wires
<1>20. CASE Reap
  BY <1>20, FaultAssumption DEF FInv, ReceiptInv, TypeOK, FileTypeOK, ControlTypeOK, Others,
     Events, AllReleased, Preflight, Reap, file, memory, procs, barrier, wires
<1>21. CASE Verdict
  <2>1. UNCHANGED <<receipts, passed, released, phase, observed, cur, outcome>> /\ pc' \notin {"abort", "drain", "reap", "verdict"}
    BY <1>21 DEF Verdict, memory, barrier
  <2>2. \A e \in Event : AttemptOf[e] \in ended' =>
          e \in observed /\ \A r \in Others(e) : <<e, r>> \in receipts
    BY <1>21 DEF FInv, ReceiptInv, Verdict, AllReleased, Events
  <2>3. ended \subseteq ended'
    BY <1>21 DEF Verdict
  <2>4. "execution_complete" \in Range(results') => "execution_complete" \in Range(results)
    BY <1>21, AppendRange DEF FInv, TypeOK, FileTypeOK, Verdict
  <2> QED BY <2>1, <2>2, <2>3, <2>4 DEF FInv, ReceiptInv, Others
<1>22. ASSUME NEW r \in Role, NEW created \in BOOLEAN, LaunchFails(r, created)
      PROVE  ReceiptInv'
  BY <1>22, FaultAssumption DEF FInv, ReceiptInv, TypeOK, FileTypeOK, ControlTypeOK, Others,
     Events, AllReleased, Preflight, LaunchFails, Raise, file, memory, procs, barrier, wires
<1>23. CASE Watchdog
  BY <1>23, FaultAssumption DEF FInv, ReceiptInv, TypeOK, FileTypeOK, ControlTypeOK, Others,
     Events, AllReleased, Preflight, Watchdog, Leave, Raise, file, memory, procs, barrier, wires
<1>24. CASE Interrupt
  BY <1>24, FaultAssumption DEF FInv, ReceiptInv, TypeOK, FileTypeOK, ControlTypeOK, Others,
     Events, AllReleased, Preflight, Interrupt, Leave, Raise, InTry, file, memory, procs, barrier,
     wires
<1>25. CASE Crash
  BY <1>25, FaultAssumption DEF FInv, ReceiptInv, TypeOK, FileTypeOK, ControlTypeOK, Others,
     Events, AllReleased, Preflight, Crash, HangUp, file, memory, procs, barrier, wires
<1>26. CASE AddFails
  <2>1. UNCHANGED <<receipts, passed, released, phase, observed, cur>>
        /\ (pc' \in {"abort", "drain", "reap", "verdict"} => outcome' # "ok")
    BY <1>26 DEF AddFails, Raise, barrier
  <2>2. ended' \subseteq ended \cup {cur} /\ ended \subseteq ended'
        /\ (ended' # ended => pc = "verdict" /\ outcome = "ok")
    BY <1>26 DEF AddFails, StartLine, EndLine, CompleteLine, InTry
  <2>3. \A e \in Event : AttemptOf[e] \in ended' =>
          e \in observed /\ \A r \in Others(e) : <<e, r>> \in receipts
    BY <2>2 DEF FInv, ReceiptInv, AllReleased, Events
  <2>4. \/ results' = results
        \/ results' = Append(results, "technical_invalid")
        \/ results' = Append(results, "execution_complete") /\ Attempt \subseteq ended /\ ended' = ended
    BY <1>26 DEF AddFails, StartLine, EndLine, CompleteLine, Finished
  <2>5. "execution_complete" \in Range(results') => Attempt \subseteq ended'
    BY <2>2, <2>4, AppendRange DEF FInv, ReceiptInv, TypeOK, FileTypeOK
  <2> QED BY <2>1, <2>3, <2>5 DEF FInv, ReceiptInv, Others
<1>27. CASE DeadlinePasses
  BY <1>27, FaultAssumption DEF FInv, ReceiptInv, TypeOK, FileTypeOK, ControlTypeOK, Others,
     Events, AllReleased, Preflight, DeadlinePasses, file, memory, procs, barrier, wires
<1>28. ASSUME NEW w \in Worker, NEW e \in Event, Arrive(w, e)
      PROVE  ReceiptInv'
  BY <1>28, FaultAssumption DEF FInv, ReceiptInv, TypeOK, FileTypeOK, ControlTypeOK, Others,
     Events, AllReleased, Preflight, Arrive, Reply, file, memory, procs, barrier, wires
<1>29. ASSUME NEW w \in Worker, Hear(w)
      PROVE  ReceiptInv'
  BY <1>29, FaultAssumption DEF FInv, ReceiptInv, TypeOK, FileTypeOK, ControlTypeOK, Others,
     Events, AllReleased, Preflight, Hear, Reply, Opens, file, memory, procs, barrier, wires
<1>30. ASSUME NEW w \in Worker, BarrierFails(w)
      PROVE  ReceiptInv'
  BY <1>30, FaultAssumption DEF FInv, ReceiptInv, TypeOK, FileTypeOK, ControlTypeOK, Others,
     Events, AllReleased, Preflight, BarrierFails, file, memory, procs, barrier, wires
<1>31. ASSUME NEW w \in Worker, Exit(w)
      PROVE  ReceiptInv'
  BY <1>31, FaultAssumption DEF FInv, ReceiptInv, TypeOK, FileTypeOK, ControlTypeOK, Others,
     Events, AllReleased, Preflight, Exit, file, memory, procs, barrier, wires
<1>32. CASE UNCHANGED vars
  BY <1>32 DEF FInv, ReceiptInv, TypeOK, FileTypeOK, ControlTypeOK, Others, Events, AllReleased,
     Preflight, file, memory, procs, barrier, wires, vars
<1> QED BY <1>1, <1>2, <1>3, <1>4, <1>5, <1>6, <1>7, <1>8, <1>9, <1>10, <1>11, <1>12, <1>13,
   <1>14, <1>15, <1>16, <1>17, <1>18, <1>19, <1>20, <1>21, <1>22, <1>23, <1>24, <1>25, <1>26,
   <1>27, <1>28, <1>29, <1>30, <1>31, <1>32 DEF Next, Controller, Injecting, Looping, Leaving,
   Failing, Working

(* Only the workers of the current attempt live. *)
LEMMA OwnerStep ==
  ASSUME FInv, [Next]_vars
  PROVE  OwnerInv'
<1>1. CASE Enter
  BY <1>1, FaultAssumption DEF FInv, OwnerInv, TypeOK, FileTypeOK, ControlTypeOK, WorkerTypeOK,
     Alive, InAttempt, Mine, Worker, Enter, Finished, Decided, file, memory, procs, barrier, wires
<1>2. CASE EnterUnreadable
  BY <1>2, FaultAssumption DEF FInv, OwnerInv, TypeOK, FileTypeOK, ControlTypeOK, WorkerTypeOK,
     Alive, InAttempt, Mine, Worker, EnterUnreadable, file, memory, procs, barrier, wires
<1>3. CASE StartAttempt
  BY <1>3, FaultAssumption DEF FInv, OwnerInv, TypeOK, FileTypeOK, ControlTypeOK, WorkerTypeOK,
     Alive, InAttempt, Mine, Worker, StartAttempt, IsNext, Finished, file, memory, procs, barrier,
     wires
<1>4. CASE Complete
  BY <1>4, FaultAssumption DEF FInv, OwnerInv, TypeOK, FileTypeOK, ControlTypeOK, WorkerTypeOK,
     Alive, InAttempt, Mine, Worker, Complete, Finished, file, memory, procs, barrier, wires
<1>5. ASSUME NEW r \in Role, Launch(r)
      PROVE  OwnerInv'
  BY <1>5, FaultAssumption DEF FInv, OwnerInv, TypeOK, FileTypeOK, ControlTypeOK, WorkerTypeOK,
     Alive, InAttempt, Mine, Worker, Launch, file, memory, procs, barrier, wires
<1>6. CASE Deadline
  BY <1>6, FaultAssumption DEF FInv, OwnerInv, TypeOK, FileTypeOK, ControlTypeOK, WorkerTypeOK,
     Alive, InAttempt, Mine, Worker, Deadline, Leave, Raise, file, memory, procs, barrier, wires
<1>7. CASE AllExited
  BY <1>7, FaultAssumption DEF FInv, OwnerInv, TypeOK, FileTypeOK, ControlTypeOK, WorkerTypeOK,
     Alive, InAttempt, Mine, Worker, AllExited, Leave, Raise, file, memory, procs, barrier, wires
<1>8. ASSUME NEW w \in Worker, HandleEof(w)
      PROVE  OwnerInv'
  BY <1>8, FaultAssumption DEF FInv, OwnerInv, TypeOK, FileTypeOK, ControlTypeOK, WorkerTypeOK,
     Alive, InAttempt, Mine, Worker, HandleEof, Raise, file, memory, procs, barrier, wires
<1>9. ASSUME NEW w \in Worker, NEW e \in Event, HandleReady(w, e)
      PROVE  OwnerInv'
  BY <1>9, FaultAssumption DEF FInv, OwnerInv, TypeOK, FileTypeOK, ControlTypeOK, WorkerTypeOK,
     Alive, InAttempt, Mine, Worker, HandleReady, Received, LastReady, file, memory, procs,
     barrier, wires
<1>10. ASSUME NEW w \in Worker, NEW e \in Event, HandleReleased(w, e)
      PROVE  OwnerInv'
  BY <1>10, FaultAssumption DEF FInv, OwnerInv, TypeOK, FileTypeOK, ControlTypeOK, WorkerTypeOK,
     Alive, InAttempt, Mine, Worker, HandleReleased, Received, Raise, file, memory, procs,
     barrier, wires
<1>11. CASE Fire
  BY <1>11, FaultAssumption DEF FInv, OwnerInv, TypeOK, FileTypeOK, ControlTypeOK, WorkerTypeOK,
     Alive, InAttempt, Mine, Worker, Fire, Intention, file, memory, procs, barrier, wires
<1>12. CASE Kill
  BY <1>12, FaultAssumption DEF FInv, OwnerInv, TypeOK, FileTypeOK, ControlTypeOK, WorkerTypeOK,
     Alive, InAttempt, Mine, Worker, Kill, Raise, file, memory, procs, barrier, wires
<1>13. CASE Observe
  BY <1>13, FaultAssumption DEF FInv, OwnerInv, TypeOK, FileTypeOK, ControlTypeOK, WorkerTypeOK,
     Alive, InAttempt, Mine, Worker, Observe, Confirmed, file, memory, procs, barrier, wires
<1>14. CASE ObserveFails
  BY <1>14, FaultAssumption DEF FInv, OwnerInv, TypeOK, FileTypeOK, ControlTypeOK, WorkerTypeOK,
     Alive, InAttempt, Mine, Worker, ObserveFails, Leave, Raise, file, memory, procs, barrier,
     wires
<1>15. CASE Injected
  BY <1>15, FaultAssumption DEF FInv, OwnerInv, TypeOK, FileTypeOK, ControlTypeOK, WorkerTypeOK,
     Alive, InAttempt, Mine, Worker, Injected, file, memory, procs, barrier, wires
<1>16. ASSUME NEW r \in Role, Release(r)
      PROVE  OwnerInv'
  BY <1>16, FaultAssumption DEF FInv, OwnerInv, TypeOK, FileTypeOK, ControlTypeOK, WorkerTypeOK,
     Alive, InAttempt, Mine, Worker, Release, Raise, file, memory, procs, barrier, wires
<1>17. CASE Abort
  BY <1>17, AbortFacts DEF FInv, OwnerInv, TypeOK, FileTypeOK, ControlTypeOK, WorkerTypeOK, Alive,
     InAttempt, file, memory, procs, barrier, wires
<1>18. CASE Drain
  BY <1>18, DrainFacts DEF FInv, OwnerInv, TypeOK, FileTypeOK, ControlTypeOK, WorkerTypeOK, Alive,
     InAttempt, file, memory, procs, barrier, wires
<1>19. CASE CloseAndKill
  BY <1>19, FaultAssumption DEF FInv, OwnerInv, TypeOK, FileTypeOK, ControlTypeOK, WorkerTypeOK,
     Alive, InAttempt, Mine, Worker, CloseAndKill, HangUp, ToKill, file, memory, procs, barrier,
     wires
<1>20. CASE Reap
  BY <1>20, FaultAssumption DEF FInv, OwnerInv, TypeOK, FileTypeOK, ControlTypeOK, WorkerTypeOK,
     Alive, InAttempt, Mine, Worker, Reap, file, memory, procs, barrier, wires
<1>21. CASE Verdict
  BY <1>21, FaultAssumption DEF FInv, OwnerInv, TypeOK, FileTypeOK, ControlTypeOK, WorkerTypeOK,
     Alive, InAttempt, Mine, Worker, Verdict, file, memory, procs, barrier, wires
<1>22. ASSUME NEW r \in Role, NEW created \in BOOLEAN, LaunchFails(r, created)
      PROVE  OwnerInv'
  BY <1>22, FaultAssumption DEF FInv, OwnerInv, TypeOK, FileTypeOK, ControlTypeOK, WorkerTypeOK,
     Alive, InAttempt, Mine, Worker, LaunchFails, Raise, file, memory, procs, barrier, wires
<1>23. CASE Watchdog
  BY <1>23, FaultAssumption DEF FInv, OwnerInv, TypeOK, FileTypeOK, ControlTypeOK, WorkerTypeOK,
     Alive, InAttempt, Mine, Worker, Watchdog, Leave, Raise, file, memory, procs, barrier, wires
<1>24. CASE Interrupt
  BY <1>24, FaultAssumption DEF FInv, OwnerInv, TypeOK, FileTypeOK, ControlTypeOK, WorkerTypeOK,
     Alive, InAttempt, Mine, Worker, Interrupt, Leave, Raise, InTry, file, memory, procs, barrier,
     wires
<1>25. CASE Crash
  BY <1>25, FaultAssumption DEF FInv, OwnerInv, TypeOK, FileTypeOK, ControlTypeOK, WorkerTypeOK,
     Alive, InAttempt, Mine, Worker, Crash, HangUp, file, memory, procs, barrier, wires
<1>26. CASE AddFails
  BY <1>26, FaultAssumption DEF FInv, OwnerInv, TypeOK, FileTypeOK, ControlTypeOK, WorkerTypeOK,
     Alive, InAttempt, Mine, Worker, AddFails, InTry, Raise, HangUp, StartLine, EndLine,
     CompleteLine, IsNext, Finished, file, memory, procs, barrier, wires
<1>27. CASE DeadlinePasses
  BY <1>27, FaultAssumption DEF FInv, OwnerInv, TypeOK, FileTypeOK, ControlTypeOK, WorkerTypeOK,
     Alive, InAttempt, Mine, Worker, DeadlinePasses, file, memory, procs, barrier, wires
<1>28. ASSUME NEW w \in Worker, NEW e \in Event, Arrive(w, e)
      PROVE  OwnerInv'
  BY <1>28, FaultAssumption DEF FInv, OwnerInv, TypeOK, FileTypeOK, ControlTypeOK, WorkerTypeOK,
     Alive, InAttempt, Mine, Worker, Arrive, Reply, file, memory, procs, barrier, wires
<1>29. ASSUME NEW w \in Worker, Hear(w)
      PROVE  OwnerInv'
  BY <1>29, FaultAssumption DEF FInv, OwnerInv, TypeOK, FileTypeOK, ControlTypeOK, WorkerTypeOK,
     Alive, InAttempt, Mine, Worker, Hear, Reply, Opens, file, memory, procs, barrier, wires
<1>30. ASSUME NEW w \in Worker, BarrierFails(w)
      PROVE  OwnerInv'
  BY <1>30, FaultAssumption DEF FInv, OwnerInv, TypeOK, FileTypeOK, ControlTypeOK, WorkerTypeOK,
     Alive, InAttempt, Mine, Worker, BarrierFails, file, memory, procs, barrier, wires
<1>31. ASSUME NEW w \in Worker, Exit(w)
      PROVE  OwnerInv'
  BY <1>31, FaultAssumption DEF FInv, OwnerInv, TypeOK, FileTypeOK, ControlTypeOK, WorkerTypeOK,
     Alive, InAttempt, Mine, Worker, Exit, file, memory, procs, barrier, wires
<1>32. CASE UNCHANGED vars
  BY <1>32 DEF FInv, OwnerInv, TypeOK, FileTypeOK, ControlTypeOK, WorkerTypeOK, Alive, InAttempt,
     Mine, Worker, file, memory, procs, barrier, wires, vars
<1> QED BY <1>1, <1>2, <1>3, <1>4, <1>5, <1>6, <1>7, <1>8, <1>9, <1>10, <1>11, <1>12, <1>13,
   <1>14, <1>15, <1>16, <1>17, <1>18, <1>19, <1>20, <1>21, <1>22, <1>23, <1>24, <1>25, <1>26,
   <1>27, <1>28, <1>29, <1>30, <1>31, <1>32 DEF Next, Controller, Injecting, Looping, Leaving,
   Failing, Working

-----------------------------------------------------------------------------
(* The invariant and what follows from it                                    *)

(* The first state. *)
LEMMA FInvInit == Init => FInv
<1> SUFFICES ASSUME Init PROVE FInv
  OBVIOUS
<1>1. FileTypeOK /\ ControlTypeOK /\ ClockTypeOK
  <2>1. <<>> \in Seq({"technical_invalid", "execution_complete"})
    OBVIOUS
  <2>2. FileTypeOK
    BY <2>1 DEF Init, FileTypeOK
  <2>3. 1 \in Attempt /\ 0 \in 0 .. MaxRuns
    BY FaultAssumption DEF Attempt, Preflight
  <2>4. /\ ready \in [Event -> SUBSET Role] /\ released \in [Event -> SUBSET Role]
        /\ phase \in [Event -> {"waiting", "releasing", "released"}]
    BY DEF Init
  <2>5. ControlTypeOK
    BY <2>3, <2>4 DEF Init, ControlTypeOK
  <2>6. ClockTypeOK
    BY <2>3 DEF Init, ClockTypeOK
  <2> QED BY <2>2, <2>5, <2>6
<1>2. WorkerTypeOK /\ WireTypeOK
  <2>1. <<>> \in Seq(Message)
    OBVIOUS
  <2>2. WireTypeOK
    BY <2>1 DEF Init, WireTypeOK
  <2>3. \A w \in Worker : w[2] \in Role
    BY DEF Worker
  <2>4. calls \in [Worker -> Nat] /\ \A w \in Worker : calls[w] <= MaxCalls[w[2]]
    BY <2>3, FaultAssumption DEF Init
  <2>5. /\ life \in [Worker -> {"none", "alive", "exited", "killed"}] /\ shots \in [Event -> Nat]
        /\ at \in [Worker -> Event \cup {None}] /\ \A w \in Worker : at[w] = None
    BY DEF Init
  <2>6. WorkerTypeOK
    BY <2>4, <2>5 DEF Init, WorkerTypeOK
  <2> QED BY <2>2, <2>6
<1>3. WiresInv /\ CutInv
  BY DEF Init, WiresInv, CutInv
<1>4. Range(results) = {}
  BY DEF Init, Range
<1>5. ReceiptInv
  BY <1>4, FaultAssumption DEF Init, ReceiptInv
<1>6. OwnerInv
  BY DEF Init, OwnerInv, InAttempt, Alive
<1> QED BY <1>1, <1>2, <1>3, <1>5, <1>6 DEF FInv, TypeOK

(* What the journal, the controller's memory, the processes and the messages
   in flight say about each other holds in every state.                      *)
THEOREM ControllerInvariant == Spec => []FInv
<1>1. FInv /\ [Next]_vars => FInv'
  BY FileStep, ControlStep, ClockStep, WorkerStep, WireTypeStep, WiresStep, CutStep, ReceiptStep,
     OwnerStep DEF FInv, TypeOK
<1> QED BY <1>1, FInvInit, PTL DEF Spec

(* The variables keep their types: in particular only living processes stand at
   a barrier and a kill is observed only after it was written ahead.         *)
THEOREM TypeCorrect == Spec => []TypeOK
<1>1. FInv => TypeOK
  BY DEF FInv
<1> QED BY <1>1, ControllerInvariant, PTL

(* An event kills its target at most once, with its intention on disk and every
   waiter at its barrier; two observed kills are of two processes.           *)
THEOREM KillsAtTheCut == Spec => []KillAtCut
<1>1. FInv => KillAtCut
  BY DEF FInv, CutInv, KillAtCut, TypeOK, FileTypeOK
<1> QED BY <1>1, ControllerInvariant, PTL

(* A barrier lets a waiter pass only after the journal holds the confirmed death
   of the target, and never the target.                                      *)
THEOREM BarriersHold == Spec => []BarrierHolds
<1>1. FInv => BarrierHolds
  <2> SUFFICES ASSUME FInv, NEW e \in Event, NEW r \in Role, <<e, r>> \in passed
               PROVE  e \in observed /\ r \in Others(e) /\ life[TargetOf(e)] = "killed"
    BY DEF BarrierHolds
  <2> QED BY DEF FInv, CutInv
<1> QED BY <1>1, ControllerInvariant, PTL

(* The processes of two attempts never live side by side. *)
THEOREM AttemptsNeverOverlap == Spec => []AttemptsDisjoint
<1>1. FInv => AttemptsDisjoint
  BY DEF FInv, OwnerInv, AttemptsDisjoint
<1> QED BY <1>1, ControllerInvariant, PTL

(* A complete run injected, confirmed and released every event it scheduled. *)
THEOREM CompleteRunsInjected == Spec => []CompleteMeansInjected
<1>1. FInv => CompleteMeansInjected
  BY FaultAssumption DEF FInv, ReceiptInv, CompleteMeansInjected, Preflight
<1> QED BY <1>1, ControllerInvariant, PTL

(* Without disk failures a result is only written on the way out. *)
LEMMA DoneStep ==
  ASSUME DoneInv, [Next]_vars
  PROVE  DoneInv'
BY FaultAssumption DEF DoneInv, Next, Controller, Injecting, Looping, Leaving, Failing, Working,
   Enter, EnterUnreadable, Decided, StartAttempt, Complete, Launch, LaunchFails, Deadline, AllExited,
   HandleEof, HandleReady, HandleReleased, Fire, Kill, Observe, ObserveFails, Injected, Release,
   Abort, Drain, CloseAndKill, Reap, Verdict, Watchdog, Interrupt, InTry, Crash, AddFails,
   DeadlinePasses, Arrive, Hear, BarrierFails, Exit, Leave, Raise, file, vars

(* On a disk that works nothing is added to a run that has a result, and no
   process is launched for it.                                               *)
THEOREM ResultsAreFinal == ~DiskFails /\ Spec => ResultIsFinal
<1> SUFFICES ASSUME ~DiskFails PROVE Spec => ResultIsFinal
  OBVIOUS
<1>1. Init => DoneInv
  BY DEF Init, DoneInv
<1>2. DoneInv /\ [Next]_vars => DoneInv'
  BY DoneStep
<1>3. FInv /\ DoneInv /\ [Next]_vars =>
        [results # <<>> => /\ UNCHANGED <<started, ended, fired, observed, receipts, results>>
                           /\ \A w \in Worker : life[w] = "none" => life'[w] = "none"]_vars
  <2> SUFFICES ASSUME FInv, DoneInv, Next, results # <<>>
               PROVE  /\ UNCHANGED <<started, ended, fired, observed, receipts, results>>
                      /\ \A w \in Worker : life[w] = "none" => life'[w] = "none"
    OBVIOUS
  <2>1. pc = "off"
    BY DEF DoneInv
  <2>2. CASE Enter \/ EnterUnreadable
    BY <2>2 DEF Enter, EnterUnreadable, Decided, file, procs
  <2>3. CASE Working
    BY <2>3 DEF Working, Arrive, Hear, BarrierFails, Exit, Alive, FInv, TypeOK, WorkerTypeOK, file, procs
  <2>4. CASE Controller \/ Failing \/ DeadlinePasses
    BY <2>1, <2>4 DEF Controller, Injecting, Looping, Leaving, Failing, StartAttempt, Complete, Launch,
       LaunchFails, Deadline, AllExited, HandleEof, HandleReady, HandleReleased, Fire, Kill, Observe,
       ObserveFails, Injected, Release, Abort, Drain, CloseAndKill, Reap, Verdict, Watchdog,
       Interrupt, InTry, Crash, AddFails, DeadlinePasses
  <2> QED BY <2>2, <2>3, <2>4 DEF Next
<1> QED BY <1>1, <1>2, <1>3, ControllerInvariant, PTL DEF Spec, ResultIsFinal

-----------------------------------------------------------------------------
(* Nobody is left behind                                                     *)

(* No process is launched outside a launch, and no signal is taken back. *)
LEMMA DoomStays ==
  ASSUME FInv, [Next]_vars, pc # "launch", AllDoomed
  PROVE  AllDoomed'
<1>1. signalled \subseteq signalled'
  BY DEF Next, Controller, Injecting, Looping, Leaving, Failing, Working, Enter, EnterUnreadable,
     StartAttempt, Complete, Launch, LaunchFails, Deadline, AllExited, HandleEof, HandleReady,
     HandleReleased, Fire, Kill, Observe, ObserveFails, Injected, Release, Abort, Drain, CloseAndKill,
     Reap, Verdict, Watchdog, Interrupt, InTry, Crash, AddFails, DeadlinePasses, Arrive, Hear,
     BarrierFails, Exit, Leave, procs, vars
<1>2. \A w \in Worker : life'[w] = "alive" => life[w] = "alive"
  <2>1. ASSUME NEW v \in Worker, Exit(v)
        PROVE  \A w \in Worker : life'[w] = "alive" => life[w] = "alive"
    BY <2>1 DEF Exit, FInv, TypeOK, WorkerTypeOK
  <2>2. life' = life \/ \E v \in Worker : Exit(v)
    BY DEF Next, Controller, Injecting, Looping, Leaving, Failing, Working, Enter, EnterUnreadable,
       StartAttempt, Complete, Launch, LaunchFails, Deadline, AllExited, HandleEof, HandleReady,
       HandleReleased, Fire, Kill, Observe, ObserveFails, Injected, Release, Abort, Drain, CloseAndKill,
       Reap, Verdict, Watchdog, Interrupt, InTry, Crash, AddFails, DeadlinePasses, Arrive, Hear,
       BarrierFails, Exit, Leave, procs, vars
  <2> QED BY <2>1, <2>2
<1> QED BY <1>1, <1>2 DEF AllDoomed, Alive

(* Between attempts nobody is alive. *)
LEMMA IdleIsDoomed ==
  ASSUME FInv, pc = "attempts"
  PROVE  AllDoomed
BY DEF FInv, OwnerInv, AllDoomed

(* The last step of the finally block signals everybody who is alive. *)
LEMMA KillDooms ==
  ASSUME FInv, CloseAndKill
  PROVE  AllDoomed'
<1> SUFFICES ASSUME NEW w \in Worker, life[w] = "alive"
             PROVE  w \in signalled'
  BY DEF CloseAndKill, AllDoomed, Alive
<1>1. w \in ToKill
  BY DEF ToKill, Mine, Alive, FInv, OwnerInv
<1> QED BY <1>1 DEF CloseAndKill

(* How the controller gets to the end of an attempt. *)
LEMMA EndReached ==
  ASSUME [Next]_vars, pc' \in {"reap", "verdict"}
  PROVE  \/ CloseAndKill
         \/ pc \in {"reap", "verdict", "attempts"}
         \/ pc = "drain" /\ pc' = "verdict"
BY DEF Next, Controller, Injecting, Looping, Leaving, Failing, Working, Enter, EnterUnreadable,
   StartAttempt, Complete, Launch, LaunchFails, Deadline, AllExited, HandleEof, HandleReady,
   HandleReleased, Fire, Kill, Observe, ObserveFails, Injected, Release, Abort, Drain, Reap, Verdict,
   Watchdog, Interrupt, InTry, Crash, AddFails, DeadlinePasses, Arrive, Hear, BarrierFails, Exit,
   Leave, Raise, vars

(* Who writes a result. *)
LEMMA ResultWritten ==
  ASSUME [Next]_vars, results' # results
  PROVE  \/ Enter /\ pc' = "off" /\ ~(started \subseteq ended)
         \/ pc = "attempts" /\ pc' = "off"
         \/ pc = "verdict" /\ pc' = "off"
         \/ pc = "attempts" /\ pc' = "verdict" /\ outcome' = "fail"
BY DEF Next, Controller, Injecting, Looping, Leaving, Failing, Working, Enter, EnterUnreadable,
   StartAttempt, Complete, Launch, LaunchFails, Deadline, AllExited, HandleEof, HandleReady,
   HandleReleased, Fire, Kill, Observe, ObserveFails, Injected, Release, Abort, Drain, CloseAndKill,
   Reap, Verdict, Watchdog, Interrupt, InTry, Crash, AddFails, StartLine, EndLine, CompleteLine,
   DeadlinePasses, Arrive, Hear, BarrierFails, Exit, Leave, Raise, Finished, file, vars

(* A run that has a result goes on only to write a second one and leave. *)
LEMMA DecidedMoves ==
  ASSUME FInv, CleanInv, [Next]_vars, results # <<>>
  PROVE  pc' = "off" \/ (pc' = "verdict" /\ outcome' = "fail")
BY DEF FInv, CleanInv, Next, Controller, Injecting, Looping, Leaving, Failing, Working, Enter,
   EnterUnreadable, Decided, StartAttempt, Complete, Launch, LaunchFails, Deadline, AllExited,
   HandleEof, HandleReady, HandleReleased, Fire, Kill, Observe, ObserveFails, Injected, Release,
   Abort, Drain, CloseAndKill, Reap, Verdict, Watchdog, Interrupt, InTry, Crash, AddFails,
   DeadlinePasses, Arrive, Hear, BarrierFails, Exit, Leave, Raise, memory, vars

(* Only entering counts a run, and only a controller that entered starts an
   attempt.                                                                  *)
LEMMA RunsCounted ==
  ASSUME [Next]_vars
  PROVE  /\ runs' = runs \/ (runs' = runs + 1 /\ (Enter \/ EnterUnreadable))
         /\ started' = started \/ pc = "attempts"
BY DEF Next, Controller, Injecting, Looping, Leaving, Failing, Working, Enter, EnterUnreadable,
   StartAttempt, Complete, Launch, LaunchFails, Deadline, AllExited, HandleEof, HandleReady,
   HandleReleased, Fire, Kill, Observe, ObserveFails, Injected, Release, Abort, Drain, CloseAndKill,
   Reap, Verdict, Watchdog, Interrupt, InTry, Crash, AddFails, StartLine, EndLine, CompleteLine,
   DeadlinePasses, Arrive, Hear, BarrierFails, Exit, Leave, file, vars

(* What is known of the end of an attempt, and of a first run, is kept by every
   step that fails harmlessly.                                               *)
LEMMA CleanStep ==
  ASSUME FInv, CleanInv, [Next]_vars, FailsHarmlessly
  PROVE  CleanInv'
<1>1. ASSUME pc' \in {"reap", "verdict"}
      PROVE  AllDoomed'
  <2>1. CASE CloseAndKill
    BY <2>1, KillDooms
  <2>2. CASE pc \in {"reap", "verdict"}
    BY <2>2, DoomStays DEF CleanInv
  <2>3. CASE pc = "attempts"
    BY <2>3, IdleIsDoomed, DoomStays
  <2>4. CASE pc = "drain" /\ pc' = "verdict"
    BY <2>4, DoomStays DEF FailsHarmlessly, AllDoomed
  <2> QED BY <1>1, <2>1, <2>2, <2>3, <2>4, EndReached
<1>2. ASSUME results' # <<>>
      PROVE  pc' = "off" \/ (pc' = "verdict" /\ outcome' = "fail")
  BY <1>2, DecidedMoves, ResultWritten
<1>3. ASSUME results' # <<>>, runs' <= 1
      PROVE  AllDoomed'
  <2>1. runs \in Nat
    BY FaultAssumption DEF FInv, TypeOK, ClockTypeOK
  <2>2. CASE results' = results
    <3>1. AllDoomed /\ pc # "launch"
      BY <1>3, <2>1, <2>2, RunsCounted DEF CleanInv
    <3> QED BY <3>1, DoomStays
  <2>3. CASE results' # results
    <3>1. CASE Enter /\ ~(started \subseteq ended)
      BY <1>3, <2>1, <3>1 DEF CleanInv, Enter
    <3>2. CASE pc = "attempts"
      BY <3>2, IdleIsDoomed, DoomStays
    <3>3. CASE pc = "verdict"
      BY <3>3, DoomStays DEF CleanInv
    <3> QED BY <2>3, <3>1, <3>2, <3>3, ResultWritten
  <2> QED BY <2>2, <2>3
<1>4. ASSUME runs' = 0
      PROVE  pc' = "off" /\ started' = {}
  <2>1. runs \in Nat
    BY FaultAssumption DEF FInv, TypeOK, ClockTypeOK
  <2>2. runs = 0 /\ runs' = runs /\ pc = "off" /\ started = {}
    BY <1>4, <2>1, RunsCounted DEF CleanInv
  <2>3. started' = {}
    BY <2>2, RunsCounted
  <2>4. ~Enter
    BY <2>2 DEF Enter
  <2>5. pc' = pc
    BY <2>2, <2>4 DEF Next, Controller, Injecting, Looping, Leaving, Failing, Working,
       EnterUnreadable, StartAttempt, Complete, Launch, LaunchFails, Deadline, AllExited, HandleEof,
       HandleReady, HandleReleased, Fire, Kill, Observe, ObserveFails, Injected, Release, Abort,
       Drain, CloseAndKill, Reap, Verdict, Watchdog, Interrupt, InTry, Crash, AddFails,
       DeadlinePasses, Arrive, Hear, BarrierFails, Exit, Leave, vars
  <2> QED BY <2>2, <2>3, <2>5
<1> QED BY <1>1, <1>2, <1>3, <1>4 DEF CleanInv

(* When a controller that did not crash returns with a verdict, every process it
   launched is dead or has SIGKILL on its way, whatever else of the run failed,
   unless a write between the abort and the kills raised while one lived.    *)
THEOREM CleansUp == Spec /\ [][FailsHarmlessly]_vars => []CleanedUp
<1>1. Init => CleanInv
  BY DEF Init, CleanInv
<1>2. FInv /\ CleanInv /\ [Next]_vars /\ [FailsHarmlessly]_vars => CleanInv'
  <2>1. ASSUME CleanInv, UNCHANGED vars
        PROVE  CleanInv'
    BY <2>1 DEF CleanInv, AllDoomed, Alive, vars, file, memory, procs
  <2> QED BY <2>1, CleanStep
<1>3. FInv /\ CleanInv => CleanedUp
  BY DEF CleanInv, CleanedUp, AllDoomed
<1> QED BY <1>1, <1>2, <1>3, ControllerInvariant, PTL DEF Spec

=============================================================================
