--------------------------- MODULE FaultController ---------------------------
(***************************************************************************)
(* The fault controller of scripts/ft/run.py and the worker side of        *)
(* scripts/ft/faults.py: a frozen list of attempts, each a set of worker   *)
(* processes, and a frozen schedule of events.  When every waiter of an    *)
(* event stands at its barrier the controller writes `fired`, kills the    *)
(* target, confirms the kill, and releases the other waiters.  The         *)
(* controller may die anywhere and be started again with --resume; workers *)
(* may exit, time out of a barrier or call it again at any moment.         *)
(*                                                                         *)
(* The journal (events.jsonl) is kept as one variable per kind of record   *)
(* the controller or a property reads.  Every worker is one process: a     *)
(* role of an attempt, launched at most once.  The clock is abstracted:    *)
(* the run deadline passes at some point (late), every other timeout may   *)
(* strike whenever what it watches has not happened.                       *)
(***************************************************************************)
EXTENDS Integers, Sequences, SequencesExt

CONSTANTS Role,      \* names of worker roles
          Event,     \* scheduled events, each an (event_id, attempt) pair
          NAttempts, \* length of config["attempts"]
          RolesOf,   \* roles of each attempt
          AttemptOf, \* attempt of each event
          Target,    \* role each event kills
          Waiters,   \* roles each event waits for
          MaxCalls,  \* per role: bound on the barrier calls of one worker
          MaxRuns,   \* bound on the times the controller is started
          DiskFails, \* whether writes to events.jsonl may raise
          None       \* no event

Attempt == 1 .. NAttempts

Preflight ==
    /\ NAttempts \in Nat \ {0}
    /\ RolesOf \in [Attempt -> SUBSET Role]
    /\ AttemptOf \in [Event -> Attempt]
    /\ Target \in [Event -> Role]
    /\ \A a \in Attempt : RolesOf[a] # {}
    /\ \A e \in Event : Target[e] \in Waiters[e] /\ Waiters[e] \subseteq RolesOf[AttemptOf[e]]

ASSUME FaultAssumption ==
    /\ Preflight
    /\ MaxCalls \in [Role -> Nat] /\ MaxRuns \in Nat
    /\ DiskFails \in BOOLEAN
    /\ None \notin Event

Worker == {<<a, r>> : a \in Attempt, r \in Role}
Message == [kind : {"ready", "released", "aborted", "release", "abort"}, event : Event]

VARIABLES
    started, ended,  \* attempts with an attempt_start, an attempt_end record
    fired, observed, \* events with such a record
    receipts,        \* <<event, role>> with a release_receipt record
    results,         \* classifications of the result records
    torn,            \* the last line of the journal is incomplete
    pc,              \* where the controller stands
    cur,             \* attempt it runs
    ev, todo,        \* event it injects, and waiters it still has to release
    outcome,         \* how run_attempt leaves its try block: "ok", "fail", "interrupt"
    ready, released, \* per event: roles whose ready, whose release receipt it has
    phase,           \* per event: "waiting", "releasing", "released"
    pending,         \* pending_abort: <<worker, event>> of the aborts sent
    eof,             \* workers whose channel is unregistered
    late,            \* the run deadline has passed
    runs,            \* times the controller was started
    life,            \* per worker: "none", "alive", "exited", "killed"
    signalled,       \* workers a SIGKILL is on its way to
    shots,           \* history: SIGKILLs an event sent to its target
    linked,          \* workers whose control channel the controller holds open
    at,              \* per worker: event whose barrier it stands at
    calls,           \* per worker: barrier calls made
    reached,         \* history: <<event, role>>: barrier was called
    passed,          \* <<event, role>>: barrier returned normally
    toCtl, toWorker  \* per worker: messages in flight in either direction

file    == <<started, ended, fired, observed, receipts, results, torn>>
memory  == <<cur, ev, todo, outcome, ready, released, phase, pending, eof>>
procs   == <<life, signalled, shots>>
barrier == <<at, calls, reached, passed>>
wires   == <<linked, toCtl, toWorker>>
vars    == <<file, pc, memory, late, runs, procs, barrier, wires>>

Alive(w)    == life[w] = "alive"
Mine        == {w \in Worker : w[1] = cur /\ life[w] # "none"}
Events(a)   == {e \in Event : AttemptOf[e] = a}
Others(e)   == Waiters[e] \ {Target[e]}
TargetOf(e) == <<AttemptOf[e], Target[e]>>

-----------------------------------------------------------------------------
(* execute: entry, the loop over attempts, the verdict                     *)

(* fault: an attempt that was started counts as finished *)
FinishedOnceStarted == started
Finished == ended

Decided == results # <<>>

Enter ==
    /\ pc = "off" /\ runs < MaxRuns
    /\ ~Decided /\ ~torn
    /\ runs' = runs + 1
    /\ late' = FALSE
    /\ IF started \subseteq Finished
       THEN pc' = "attempts" /\ UNCHANGED results
       ELSE results' = Append(results, "technical_invalid") /\ UNCHANGED pc
    /\ UNCHANGED <<started, ended, fired, observed, receipts, torn, memory, procs, barrier, wires>>

(* Journal.__init__ cannot parse the last line *)
EnterUnreadable ==
    /\ pc = "off" /\ runs < MaxRuns
    /\ torn
    /\ runs' = runs + 1
    /\ UNCHANGED <<file, pc, memory, late, procs, barrier, wires>>

IsNext(a) == a \notin Finished /\ \A b \in Attempt \ Finished : a <= b

StartAttempt ==
    /\ pc = "attempts"
    /\ \E a \in Attempt :
          /\ IsNext(a)
          /\ cur' = a
          /\ started' = started \cup {a}
    /\ outcome' = "ok"
    /\ pc' = "launch"
    /\ UNCHANGED <<ended, fired, observed, receipts, results, torn, ev, todo, ready, released,
                   phase, pending, eof, late, runs, procs, barrier, wires>>

Complete ==
    /\ pc = "attempts"
    /\ Attempt \subseteq Finished
    /\ results' = Append(results, "execution_complete")
    /\ pc' = "off"
    /\ UNCHANGED <<started, ended, fired, observed, receipts, torn, memory, late, runs, procs,
                   barrier, wires>>

-----------------------------------------------------------------------------
(* run_attempt: launching                                                  *)

Raise(why) == pc' = "abort" /\ outcome' = why
Leave(why) == /\ Raise(why)
              /\ UNCHANGED <<file, cur, ev, todo, ready, released, phase, pending, eof, late, runs,
                             procs, barrier, wires>>

Launch(r) ==
    /\ pc = "launch"
    /\ r \in RolesOf[cur] /\ life[<<cur, r>>] = "none"
    /\ life' = [life EXCEPT ![<<cur, r>>] = "alive"]
    /\ linked' = linked \cup {<<cur, r>>}
    /\ pc' = IF \E q \in RolesOf[cur] \ {r} : life[<<cur, q>>] = "none" THEN "launch" ELSE "loop"
    /\ UNCHANGED <<file, memory, late, runs, signalled, shots, barrier, toCtl, toWorker>>

(* Popen fails, or the identity check of a process kept in `provisional` *)
LaunchFails(r, created) ==
    /\ pc = "launch"
    /\ r \in RolesOf[cur] /\ life[<<cur, r>>] = "none"
    /\ Raise("fail")
    /\ life' = [life EXCEPT ![<<cur, r>>] = IF created THEN "alive" ELSE "none"]
    /\ linked' = linked \cup {<<cur, r>>}
    /\ UNCHANGED <<file, cur, ev, todo, ready, released, phase, pending, eof, late, runs,
                   signalled, shots, barrier, toCtl, toWorker>>

-----------------------------------------------------------------------------
(* run_attempt: the loop                                                   *)

AllReleased == \A e \in Events(cur) : phase[e] = "released"

(* fault: the deadline only ends what was injected completely *)
DeadlineWaiting ==
    /\ pc = "loop" /\ late
    /\ Events(cur) # {} /\ AllReleased
    /\ Leave("ok")

Deadline ==
    /\ pc = "loop" /\ late
    /\ Leave(IF Events(cur) # {} /\ AllReleased THEN "ok" ELSE "fail")

(* the startup deadline while nobody is ready, the barrier watchdog after *)
Watchdog ==
    /\ pc = "loop"
    /\ \/ Events(cur) # {} /\ \A e \in Events(cur) : ready[e] = {}
       \/ \E e \in Events(cur) : ready[e] # {} /\ phase[e] # "released"
    /\ Leave("fail")

AllExited ==
    /\ pc = "loop" /\ ~late
    /\ \A w \in Mine : ~Alive(w)
    /\ AllReleased
    /\ Leave("ok")

(* A worker's channel reads end-of-file *)
Disconnected(e, r) == /\ r \in Waiters[e]
                      /\ ~(r = Target[e] /\ phase[e] # "waiting")
                      /\ r \notin released[e]

HandleEof(w) ==
    /\ pc = "loop" /\ ~late
    /\ w \in Mine \ eof
    /\ ~Alive(w) /\ toCtl[w] = <<>>
    /\ eof' = eof \cup {w}
    /\ IF \E e \in Events(cur) : Disconnected(e, w[2])
       THEN Raise("fail")
       ELSE UNCHANGED <<pc, outcome>>
    /\ UNCHANGED <<file, cur, ev, todo, ready, released, phase, pending, late, runs, procs,
                   barrier, wires>>

Received(w, kind, e) ==
    /\ w \in Mine \ eof
    /\ toCtl[w] # <<>>
    /\ Head(toCtl[w]) = [kind |-> kind, event |-> e]
    /\ toCtl' = [toCtl EXCEPT ![w] = Tail(@)]

(* fault: the first waiter starts the injection *)
FirstReady(w, e) == ready[e] = {}
LastReady(w, e)  == w[2] \notin ready[e] /\ ready[e] \cup {w[2]} = Waiters[e]

HandleReady(w, e) ==
    /\ pc = "loop" /\ ~late
    /\ Received(w, "ready", e)
    /\ ready' = [ready EXCEPT ![e] = @ \cup {w[2]}]
    /\ IF LastReady(w, e)
       THEN pc' = "fire" /\ ev' = e
       ELSE UNCHANGED <<pc, ev>>
    /\ UNCHANGED <<file, cur, todo, outcome, released, phase, pending, eof, late, runs, procs,
                   barrier, linked, toWorker>>

HandleReleased(w, e) ==
    /\ pc = "loop" /\ ~late
    /\ Received(w, "released", e)
    /\ IF phase[e] = "waiting"
       THEN Raise("fail") /\ UNCHANGED <<receipts, released, phase>>
       ELSE /\ released' = [released EXCEPT ![e] = @ \cup {w[2]}]
            /\ receipts' = receipts \cup {<<e, w[2]>>}
            /\ phase' = [phase EXCEPT ![e] = IF released'[e] = Others(e) THEN "released" ELSE @]
            /\ UNCHANGED <<pc, outcome>>
    /\ UNCHANGED <<started, ended, fired, observed, results, torn, cur, ev, todo, ready, pending,
                   eof, late, runs, procs, barrier, linked, toWorker>>

-----------------------------------------------------------------------------
(* run_attempt: one injection, inside the handler of the last ready        *)

Intention   == fired \cup {ev}

Fire ==
    /\ pc = "fire"
    /\ fired' = Intention
    /\ pc' = "kill"
    /\ UNCHANGED <<started, ended, observed, receipts, results, torn, memory, late, runs, procs,
                   barrier, wires>>

Kill ==
    /\ pc = "kill"
    /\ IF Alive(TargetOf(ev))
       THEN /\ signalled' = signalled \cup {TargetOf(ev)}
            /\ shots' = [shots EXCEPT ![ev] = @ + 1]
            /\ pc' = "wait"
            /\ UNCHANGED outcome
       ELSE /\ Raise("fail")
            /\ UNCHANGED <<signalled, shots>>
    /\ UNCHANGED <<file, cur, ev, todo, ready, released, phase, pending, eof, late, runs, life,
                   barrier, wires>>

(* fault: the kill counts as observed once the signal is sent *)
SignalSent == TargetOf(ev) \in signalled
Confirmed  == life[TargetOf(ev)] = "killed"

Observe ==
    /\ pc = "wait" /\ Confirmed
    /\ observed' = observed \cup {ev}
    /\ phase' = [phase EXCEPT ![ev] = IF Others(ev) = {} THEN "released" ELSE "releasing"]
    /\ todo' = Others(ev)
    /\ pc' = "release"
    /\ UNCHANGED <<started, ended, fired, receipts, results, torn, cur, ev, outcome, ready,
                   released, pending, eof, late, runs, procs, barrier, wires>>

(* wait() times out, or the target exited by itself before the signal arrived *)
ObserveFails ==
    /\ pc = "wait" /\ ~Confirmed
    /\ Leave("fail")

Release(r) ==
    /\ pc = "release" /\ r \in todo
    /\ IF Alive(<<cur, r>>)
       THEN /\ toWorker' = [toWorker EXCEPT ![<<cur, r>>] =
                                Append(@, [kind |-> "release", event |-> ev])]
            /\ todo' = todo \ {r}
            /\ UNCHANGED <<pc, outcome>>
       ELSE Raise("fail") /\ UNCHANGED <<toWorker, todo>>
    /\ UNCHANGED <<file, cur, ev, ready, released, phase, pending, eof, late, runs, procs,
                   barrier, linked, toCtl>>

Injected ==
    /\ pc = "release" /\ todo = {}
    /\ pc' = "loop"
    /\ UNCHANGED <<file, memory, late, runs, procs, barrier, wires>>

-----------------------------------------------------------------------------
(* run_attempt: the finally block                                          *)

(* One send per waiter that was not released; a send to a dead worker is skipped.
   pending_abort keeps the last abort of a role, here all of them.               *)
Unreleased == {x \in Mine \X Events(cur) :
                  Alive(x[1]) /\ x[1][2] \in ready[x[2]] \ released[x[2]]}

Abort ==
    /\ pc = "abort"
    /\ \/ \E x \in Unreleased \ pending :
             /\ toWorker' = [toWorker EXCEPT ![x[1]] =
                                 Append(@, [kind |-> "abort", event |-> x[2]])]
             /\ pending' = pending \cup {x}
             /\ UNCHANGED pc
       \/ /\ Unreleased \subseteq pending
          /\ pc' = "drain"
          /\ UNCHANGED <<toWorker, pending>>
    /\ UNCHANGED <<file, cur, ev, todo, outcome, ready, released, phase, eof, late, runs, procs,
                   barrier, linked, toCtl>>

(* One message, one exit, or the deadline for all that is left *)
Drain ==
    /\ pc = "drain"
    /\ \/ \E x \in pending :
             /\ toCtl[x[1]] # <<>>
             /\ toCtl' = [toCtl EXCEPT ![x[1]] = Tail(@)]
             /\ pending' = IF Head(toCtl[x[1]]) = [kind |-> "aborted", event |-> x[2]]
                           THEN pending \ {x} ELSE pending
       \/ \E x \in pending : ~Alive(x[1]) /\ pending' = pending \ {x} /\ UNCHANGED toCtl
       \/ pending # {} /\ pending' = {} /\ UNCHANGED toCtl
    /\ UNCHANGED <<file, pc, cur, ev, todo, outcome, ready, released, phase, eof, late, runs,
                   procs, barrier, linked, toWorker>>

HangUp == /\ linked' = {}
          /\ toCtl' = [w \in Worker |-> <<>>]
          /\ UNCHANGED toWorker

(* fault: processes are killed only after a failure *)
ToKillOnFailure == {w \in Mine : Alive(w) /\ outcome # "ok"}
ToKill == {w \in Mine : Alive(w)}

(* every channel is closed, every process sent SIGKILL *)
CloseAndKill ==
    /\ pc = "drain" /\ pending = {}
    /\ HangUp
    /\ signalled' = signalled \cup ToKill
    /\ pc' = "reap"
    /\ UNCHANGED <<file, memory, late, runs, life, shots, barrier>>

Reap ==
    /\ pc = "reap"
    /\ outcome' = IF \E w \in Mine : Alive(w) THEN "fail" ELSE outcome
    /\ pc' = "verdict"
    /\ UNCHANGED <<file, cur, ev, todo, ready, released, phase, pending, eof, late, runs, procs,
                   barrier, wires>>

Verdict ==
    /\ pc = "verdict"
    /\ \/ /\ outcome = "ok"
          /\ ended' = ended \cup {cur}
          /\ pc' = "attempts"
          /\ UNCHANGED results
       \/ /\ outcome = "fail"
          /\ results' = Append(results, "technical_invalid")
          /\ pc' = "off"
          /\ UNCHANGED ended
       \/ /\ outcome = "interrupt"
          /\ pc' = "off"
          /\ UNCHANGED <<ended, results>>
    /\ UNCHANGED <<started, fired, observed, receipts, torn, memory, late, runs, procs, barrier,
                   wires>>

-----------------------------------------------------------------------------
(* What goes wrong: interrupts, death of the controller, the disk          *)

InTry == pc \in {"launch", "loop", "fire", "kill", "wait", "release"}

Interrupt ==
    /\ InTry
    /\ Leave("interrupt")

Crash ==
    /\ pc # "off"
    /\ pc' = "off"
    /\ HangUp
    /\ torn' \in {torn, TRUE}
    /\ UNCHANGED <<started, ended, fired, observed, receipts, results, memory, late, runs, procs,
                   barrier>>

StartLine    == /\ pc = "attempts"
                /\ \E a \in Attempt : IsNext(a) /\ started' = started \cup {a}
                /\ UNCHANGED <<ended, results>>
EndLine      == pc = "verdict" /\ ended' = ended \cup {cur} /\ UNCHANGED <<started, results>>
CompleteLine == /\ pc = "attempts" /\ Attempt \subseteq Finished
                /\ results' = Append(results, "execution_complete")
                /\ UNCHANGED <<started, ended>>

(* Journal.add raises OSError; its line is there, torn, or missing *)
AddFails ==
    /\ DiskFails
    /\ torn' \in {torn, TRUE}
    /\ \/ InTry /\ Raise("fail") /\ UNCHANGED <<started, ended, results, wires>>
       \/ /\ pc = "drain"
          /\ pc' = "verdict" /\ outcome' = "fail"
          /\ HangUp
          /\ UNCHANGED <<started, ended, results>>
       \/ /\ pc = "attempts" \/ (pc = "verdict" /\ outcome = "ok")
          /\ pc' = "verdict" /\ outcome' = "fail"
          /\ \/ UNCHANGED <<started, ended, results>>
             \/ StartLine \/ EndLine \/ CompleteLine
          /\ UNCHANGED wires
       \/ /\ pc = "verdict" /\ outcome = "fail"
          /\ pc' = "off"
          /\ results' \in {results, Append(results, "technical_invalid")}
          /\ UNCHANGED <<outcome, started, ended, wires>>
    /\ UNCHANGED <<fired, observed, receipts, cur, ev, todo, ready, released, phase, pending, eof,
                   late, runs, procs, barrier>>

(* A record that raises in the finally block skips the kills after it.  A
   constraint on actions: it only does so where nobody is left to be killed. *)
FailsHarmlessly ==
    pc = "drain" /\ pc' = "verdict" => \A w \in Worker : Alive(w) => w \in signalled

DeadlinePasses == /\ pc # "off" /\ ~late
                  /\ late' = TRUE
                  /\ UNCHANGED <<file, pc, memory, runs, procs, barrier, wires>>

-----------------------------------------------------------------------------
(* The workers: faults.barrier, and what their processes do by themselves  *)

Reply(w, kind, e) ==
    toCtl' = IF w \in linked THEN [toCtl EXCEPT ![w] = Append(@, [kind |-> kind, event |-> e])]
             ELSE toCtl

Arrive(w, e) ==
    /\ Alive(w) /\ at[w] = None /\ calls[w] < MaxCalls[w[2]]
    /\ w[1] = AttemptOf[e] /\ w[2] \in Waiters[e]
    /\ calls' = [calls EXCEPT ![w] = @ + 1]
    /\ at' = [at EXCEPT ![w] = IF w \in linked THEN e ELSE None]
    /\ reached' = reached \cup {<<e, w[2]>>}
    /\ Reply(w, "ready", e)
    /\ UNCHANGED <<file, pc, memory, late, runs, procs, passed, linked, toWorker>>

Opens(w, answer) == answer.kind = "release" /\ answer.event = at[w]

(* an answer to another barrier, an abort and a dead controller all raise *)
Hear(w) ==
    /\ Alive(w) /\ at[w] # None
    /\ toWorker[w] # <<>>
    /\ toWorker' = [toWorker EXCEPT ![w] = Tail(@)]
    /\ at' = [at EXCEPT ![w] = None]
    /\ LET answer == Head(toWorker[w])
       IN CASE Opens(w, answer) ->
                  /\ Reply(w, "released", at[w])
                  /\ passed' = IF w \in linked THEN passed \cup {<<at[w], w[2]>>} ELSE passed
            [] answer = [kind |-> "abort", event |-> at[w]] ->
                  Reply(w, "aborted", at[w]) /\ UNCHANGED passed
            [] OTHER -> UNCHANGED <<toCtl, passed>>
    /\ UNCHANGED <<file, pc, memory, late, runs, procs, calls, reached, linked>>

(* the socket timeout, or end-of-file from the controller *)
BarrierFails(w) ==
    /\ Alive(w) /\ at[w] # None
    /\ at' = [at EXCEPT ![w] = None]
    /\ UNCHANGED <<file, pc, memory, late, runs, procs, calls, reached, passed, wires>>

Exit(w) ==
    /\ Alive(w)
    /\ \/ life' = [life EXCEPT ![w] = "exited"]
       \/ w \in signalled /\ life' = [life EXCEPT ![w] = "killed"]
    /\ at' = [at EXCEPT ![w] = None]
    /\ UNCHANGED <<file, pc, memory, late, runs, signalled, shots, calls, reached, passed, wires>>

-----------------------------------------------------------------------------
Init ==
    /\ started = {} /\ ended = {} /\ fired = {} /\ observed = {} /\ receipts = {}
    /\ results = <<>> /\ torn = FALSE
    /\ pc = "off" /\ cur = 1 /\ ev = None /\ todo = {} /\ outcome = "ok"
    /\ ready = [e \in Event |-> {}] /\ released = [e \in Event |-> {}]
    /\ phase = [e \in Event |-> "waiting"] /\ pending = {} /\ eof = {}
    /\ late = FALSE /\ runs = 0
    /\ life = [w \in Worker |-> "none"] /\ signalled = {} /\ shots = [e \in Event |-> 0]
    /\ at = [w \in Worker |-> None] /\ calls = [w \in Worker |-> 0]
    /\ reached = {} /\ passed = {}
    /\ linked = {} /\ toCtl = [w \in Worker |-> <<>>] /\ toWorker = [w \in Worker |-> <<>>]

Injecting == Fire \/ Kill \/ Observe \/ ObserveFails \/ Injected \/ \E r \in Role : Release(r)
Looping   == \/ Deadline \/ AllExited
             \/ \E w \in Worker : HandleEof(w)
             \/ \E w \in Worker, e \in Event : HandleReady(w, e) \/ HandleReleased(w, e)
Leaving   == Abort \/ Drain \/ CloseAndKill \/ Reap \/ Verdict

Controller == StartAttempt \/ Complete \/ (\E r \in Role : Launch(r)) \/ Looping \/ Injecting \/ Leaving
Failing    == \/ \E r \in Role, created \in BOOLEAN : LaunchFails(r, created)
              \/ Watchdog \/ Interrupt \/ Crash \/ AddFails
Working    == \E w \in Worker : \/ \E e \in Event : Arrive(w, e)
                               \/ Hear(w) \/ BarrierFails(w) \/ Exit(w)

Next == Enter \/ EnterUnreadable \/ Controller \/ Failing \/ DeadlinePasses \/ Working

Spec == Init /\ [][Next]_vars

(* The controller runs while it runs, and time passes *)
FairSpec == Spec /\ WF_vars(Controller) /\ WF_vars(DeadlinePasses)

-----------------------------------------------------------------------------
(* Properties                                                              *)

FileTypeOK ==
    /\ started \subseteq Attempt /\ ended \subseteq started
    /\ observed \subseteq fired /\ fired \subseteq Event
    /\ receipts \subseteq {x \in Event \X Role : x[2] \in Others(x[1])}
    /\ results \in Seq({"technical_invalid", "execution_complete"})
    /\ torn \in BOOLEAN

ControlTypeOK ==
    /\ pc \in {"off", "attempts", "launch", "loop", "fire", "kill", "wait", "release", "abort",
               "drain", "reap", "verdict"}
    /\ cur \in Attempt /\ ev \in Event \cup {None} /\ todo \subseteq Role
    /\ outcome \in {"ok", "fail", "interrupt"}
    /\ ready \in [Event -> SUBSET Role] /\ released \in [Event -> SUBSET Role]
    /\ phase \in [Event -> {"waiting", "releasing", "released"}]
    /\ pending \subseteq Worker \X Event /\ eof \subseteq Worker

ClockTypeOK == late \in BOOLEAN /\ runs \in 0 .. MaxRuns

WorkerTypeOK ==
    /\ life \in [Worker -> {"none", "alive", "exited", "killed"}]
    /\ signalled \subseteq Worker /\ shots \in [Event -> Nat]
    /\ at \in [Worker -> Event \cup {None}] /\ \A w \in Worker : at[w] # None => Alive(w)
    /\ calls \in [Worker -> Nat] /\ \A w \in Worker : calls[w] <= MaxCalls[w[2]]
    /\ reached \subseteq Event \X Role /\ passed \subseteq reached

WireTypeOK ==
    /\ linked \subseteq Worker
    /\ toCtl \in [Worker -> Seq(Message)] /\ toWorker \in [Worker -> Seq(Message)]

(* Every record is about the schedule, a kill is observed only after it was
   written ahead, a receipt is one of a waiter other than the target, and only
   processes that live stand at a barrier.                                   *)
TypeOK == FileTypeOK /\ ControlTypeOK /\ ClockTypeOK /\ WorkerTypeOK /\ WireTypeOK

(* An event kills its target at most once over all runs of the controller, only
   with the intention on disk, and only when every waiter has come to its
   barrier; two observed kills are two processes.                            *)
KillAtCut ==
    /\ \A e \in Event : shots[e] > 0 =>
          /\ shots[e] = 1 /\ e \in fired
          /\ \A r \in Waiters[e] : <<e, r>> \in reached
    /\ \A e, f \in observed : e # f => TargetOf(e) # TargetOf(f)

(* A waiter gets past its barrier only when the journal holds the confirmed
   death of the target; the target itself never does.                        *)
BarrierHolds ==
    \A e \in Event, r \in Role : <<e, r>> \in passed =>
        /\ e \in observed /\ r \in Others(e)
        /\ life[TargetOf(e)] = "killed"

(* The processes of two attempts never run side by side. *)
AttemptsDisjoint ==
    \A v, w \in Worker : Alive(v) /\ Alive(w) => v[1] = w[1]

(* A run is complete only if every scheduled event was injected, confirmed and
   released to everybody who waited.                                         *)
CompleteMeansInjected ==
    "execution_complete" \in Range(results) =>
        \A e \in Event : e \in observed /\ \A r \in Others(e) : <<e, r>> \in receipts

(* When a controller that did not crash returns with a verdict, every process
   it launched is dead or has SIGKILL on its way.                            *)
CleanedUp ==
    results # <<>> /\ runs = 1 => \A w \in Worker : Alive(w) => w \in signalled

(* Nothing is added to a run that has a result (a comment in execute: "completed
   or failed run is immutable"), and no process is launched for it.          *)
ResultIsFinal ==
    [][results # <<>> => /\ UNCHANGED <<started, ended, fired, observed, receipts, results>>
                         /\ \A w \in Worker : life[w] = "none" => life'[w] = "none"]_vars

(* The controller returns. *)
Terminates == pc # "off" ~> pc = "off"

=============================================================================
