----------------------------- MODULE Supervisor -----------------------------
(***************************************************************************)
(* The control plane of an ablation run: the supervisor process of         *)
(* scripts/ablation_control.py, its five clients, and the order in which   *)
(* ablation_run.py, ablation_runtime.py and ablation_evaluate.py close     *)
(* them.  A component asks the supervisor for an exit permit, ends, and is *)
(* confirmed gone by its witness; when all are gone the launcher asks for  *)
(* a decision and for the shutdown certificate, waits for the supervisor   *)
(* to exit with 0, and publishes the success of the run.  Any failure is   *)
(* meant to prevent that, however late it is reported.                     *)
(*                                                                         *)
(* A client makes one request at a time; it may die or give up at any      *)
(* moment, before or after the supervisor handles the request.  A client   *)
(* that was refused, or that reported a fatal, has closed its connection   *)
(* and makes no more requests (latch).  Timeouts strike whenever what they *)
(* watch has not happened.  Events without a phase, sequence numbers and   *)
(* tokens, which the client keeps in step, are left out.                   *)
(***************************************************************************)
EXTENDS Naturals, Sequences

Component == {"launcher", "driver", "rm_host", "worker", "evaluator"}
Expected  == Component \ {"launcher"}
Training  == {"driver", "rm_host", "worker"}

(* roles a role may confirm the exit of *)
Allowed == [c \in Component |->
    CASE c = "launcher" -> Expected
      [] c = "driver"   -> {"rm_host"}
      [] c = "rm_host"  -> {"worker"}
      [] OTHER          -> {}]

Call(op, arg) == [op |-> op, arg |-> arg]

(* fault: the driver closes before it has seen the reward host go *)
DriverClosesFirst == <<Call("register", "none"), Call("close", "none"), Call("confirm", "rm_host")>>
DriverCalls       == <<Call("register", "none"), Call("confirm", "rm_host"), Call("close", "none")>>

(* The calls a component makes, in order *)
Script == [c \in Component |->
    CASE c = "launcher"  -> <<Call("register", "none"), Call("confirm", "driver"),
                              Call("confirm", "evaluator"), Call("finalize", "none"),
                              Call("shutdown", "none")>>
      [] c = "driver"    -> DriverCalls
      [] c = "rm_host"   -> <<Call("register", "none"), Call("confirm", "worker"), Call("close", "none")>>
      [] c = "worker"    -> <<Call("register", "none"), Call("begin", "cancel"), Call("end", "cancel"),
                              Call("begin", "export"), Call("end", "export"), Call("close", "none")>>
      [] c = "evaluator" -> <<Call("register", "none"), Call("close", "none")>>]

VARIABLES
    state,    \* per component: its entry in the supervisor, "none" if it has none
    phase,    \* per component: the phase it is in, or "none"
    failed,   \* Supervisor.failed is set
    final,    \* a decision was taken
    shutdown, \* the close permit was given
    evalDue,  \* evaluation_deadline is set
    cert,     \* shutdown.json exists
    ack,      \* shutdown_ack is set
    server,   \* "up", then "ok" or "bad" (return value of serve), then "exit0" or "exit1"
    life,     \* per component: "none", "alive", "exited" (normally), "failed"
    done,     \* per component: calls of its script that were answered
    req,      \* components with a request in flight
    closed,   \* components whose connection is closed
    alarm,    \* components with a fatal message in flight
    heard,    \* history: a fatal message was handled
    success   \* run_success.json exists

control == <<state, phase, failed, final, shutdown, evalDue, cert>>
clients == <<life, done, req, closed>>
vars    == <<control, ack, server, clients, alarm, heard, success>>

ServerRuns   == server \in {"up", "ok", "bad"}
Alive(c)     == life[c] = "alive"
Finished(c)  == done[c] = Len(Script[c])
NextCall(c)  == Script[c][done[c] + 1]
Registered   == {c \in Component : state[c] # "none"}

-----------------------------------------------------------------------------
(* The supervisor                                                          *)

(* fault: the certificate outlives the failure *)
FailKeepsCertificate ==
    IF failed THEN UNCHANGED control
    ELSE /\ failed' = TRUE
         /\ final' = FALSE
         /\ state' = [c \in Component |-> IF c \in Registered THEN "FAILED" ELSE "none"]
         /\ UNCHANGED <<cert, phase, shutdown, evalDue>>

(* fail: only the first failure is recorded *)
Fail ==
    IF failed THEN UNCHANGED control
    ELSE /\ failed' = TRUE
         /\ final' = FALSE
         /\ state' = [c \in Component |-> IF c \in Registered THEN "FAILED" ELSE "none"]
         /\ cert' = FALSE
         /\ UNCHANGED <<phase, shutdown, evalDue>>

(* What each request requires *)
PhaseOK(c, call) ==
    /\ state[c] = "ACTIVE"
    /\ phase[c] = IF call.op = "begin" THEN "none" ELSE call.arg

CloseOK(c) == state[c] = "ACTIVE" /\ phase[c] = "none"

(* Evidence the witness gives: a joined thread shows no exit status *)
Evidence(t) == life[t] = "exited" \/ (t = "worker" /\ life[t] = "failed")

ConfirmOK(c, t) ==
    /\ state[c] = "ACTIVE" /\ t \in Allowed[c]
    /\ state[t] = "EXIT_PERMITTED"
    /\ Evidence(t)

FinalizeOK(c) ==
    \A t \in Expected \cup (Registered \ {c}) : state[t] = "OFFLINE_CONFIRMED"

Valid(c) ==
    LET call == NextCall(c)
    IN CASE call.op = "register"         -> state[c] = "none"
         [] call.op \in {"begin", "end"} -> PhaseOK(c, call)
         [] call.op = "close"            -> CloseOK(c)
         [] call.op = "confirm"          -> ConfirmOK(c, call.arg)
         [] call.op = "finalize"         -> FinalizeOK(c)
         [] OTHER                        -> final

(* What it does *)
Register(c) ==
    /\ state' = [state EXCEPT ![c] = "ACTIVE"]
    /\ evalDue' = (evalDue /\ c # "evaluator")
    /\ UNCHANGED <<phase, failed, final, shutdown, cert>>

Phase(c, call) ==
    /\ phase' = [phase EXCEPT ![c] = IF call.op = "begin" THEN call.arg ELSE "none"]
    /\ UNCHANGED <<state, failed, final, shutdown, evalDue, cert>>

PrepareClose(c) ==
    /\ state' = [state EXCEPT ![c] = "EXIT_PERMITTED"]
    /\ UNCHANGED <<phase, failed, final, shutdown, evalDue, cert>>

Confirm(t) ==
    /\ state' = [state EXCEPT ![t] = "OFFLINE_CONFIRMED"]
    /\ evalDue' = (evalDue \/ (/\ \A u \in Training \cap Registered : state'[u] = "OFFLINE_CONFIRMED"
                               /\ state["evaluator"] = "none"))
    /\ UNCHANGED <<phase, failed, final, shutdown, cert>>

Finalize ==
    /\ final' = TRUE
    /\ UNCHANGED <<state, phase, failed, shutdown, evalDue, cert>>

Shutdown ==
    /\ shutdown' = TRUE
    /\ cert' = TRUE
    /\ UNCHANGED <<state, phase, failed, final, evalDue>>

Effect(c) ==
    LET call == NextCall(c) IN
    \/ call.op = "register" /\ Register(c)
    \/ call.op \in {"begin", "end"} /\ Phase(c, call)
    \/ call.op = "close" /\ PrepareClose(c)
    \/ call.op = "confirm" /\ Confirm(call.arg)
    \/ call.op = "finalize" /\ Finalize
    \/ call.op = "shutdown" /\ Shutdown

(* With its permit a component closes its connection *)
Answered(c) ==
    /\ done' = [done EXCEPT ![c] = @ + 1]
    /\ closed' = IF NextCall(c).op = "close" THEN closed \cup {c} ELSE closed

HandleAccepted(c) ==
    /\ ServerRuns /\ c \in req \ closed
    /\ ~failed /\ ~shutdown /\ Valid(c)
    /\ Effect(c)
    /\ Answered(c)
    /\ req' = req \ {c}
    /\ UNCHANGED <<ack, server, life, alarm, heard, success>>

(* A message that is late or invalid, a client that does not wait for the answer,
   a deadline, a manifest or a file that is in the way                        *)
MayFail == {"end", "close", "confirm", "finalize", "shutdown"}

HandleRefused(c) ==
    /\ ServerRuns /\ c \in req
    /\ failed \/ shutdown \/ c \in closed \/ ~Valid(c) \/ NextCall(c).op \in MayFail
    /\ Fail
    /\ req' = req \ {c}
    /\ closed' = closed \cup {c}
    /\ UNCHANGED <<ack, server, life, done, alarm, heard, success>>

(* record raises after the request has changed what it changes: the failure is
   latched and nothing else, and neither the permit nor the certificate is given *)
RecordFails(c) ==
    /\ ServerRuns /\ c \in req
    /\ ~failed /\ ~shutdown /\ Valid(c)
    /\ failed' = TRUE
    /\ LET call == NextCall(c) IN
       /\ state' = [state EXCEPT ![c] = IF call.op = "register" THEN "ACTIVE" ELSE @,
                                 ![IF call.op = "confirm" THEN call.arg ELSE c] =
                                     IF call.op = "confirm" THEN "OFFLINE_CONFIRMED" ELSE @]
       /\ phase' = [phase EXCEPT ![c] = CASE call.op = "begin" -> call.arg
                                          [] call.op = "end"   -> "none"
                                          [] OTHER             -> @]
       /\ final' = (final \/ call.op = "finalize")
       /\ shutdown' = (call.op = "shutdown")
    /\ req' = req \ {c}
    /\ closed' = closed \cup {c}
    /\ UNCHANGED <<evalDue, cert, ack, server, life, done, alarm, heard, success>>

(* The answer to the shutdown is sent, or the launcher is gone *)
Acknowledge ==
    /\ ServerRuns /\ shutdown /\ ~ack
    /\ IF "launcher" \notin closed
       THEN ack' = TRUE /\ UNCHANGED control
       ELSE Fail /\ UNCHANGED ack
    /\ UNCHANGED <<server, clients, alarm, heard, success>>

(* fault: an end-of-file says nothing of a component *)
NothingLost(c) == FALSE
(* disconnected *)
LostActive(c) == state[c] = "ACTIVE" /\ ~shutdown

HandleEof(c) ==
    /\ ServerRuns
    /\ c \in closed \ req /\ LostActive(c)
    /\ Fail
    /\ UNCHANGED <<ack, server, clients, alarm, heard, success>>

HandleFatal(c) ==
    /\ ServerRuns /\ c \in alarm
    /\ alarm' = alarm \ {c}
    /\ heard' = TRUE
    /\ Fail
    /\ UNCHANGED <<ack, server, clients, success>>

(* tick *)
Watches == server = "up" /\ ~failed /\ ~shutdown
Tick == Fail /\ UNCHANGED <<ack, server, clients, alarm, heard, success>>

PhaseTimeout(c)     == Watches /\ phase[c] # "none" /\ Tick
HeartbeatTimeout(c) == Watches /\ state[c] = "ACTIVE" /\ Tick
ExitTimeout(c)      == Watches /\ state[c] = "EXIT_PERMITTED" /\ Tick
EvaluationTimeout   == Watches /\ evalDue /\ Tick

(* serve returns, and some time later the process ends *)
ServeReturns ==
    /\ server = "up"
    /\ ack \/ failed
    /\ server' = IF failed THEN "bad" ELSE "ok"
    /\ UNCHANGED <<control, ack, clients, alarm, heard, success>>

ServerExits ==
    /\ server \in {"ok", "bad"}
    /\ server' = IF server = "ok" THEN "exit0" ELSE "exit1"
    /\ UNCHANGED <<control, ack, clients, alarm, heard, success>>

(* It is killed, or terminated by a launcher that fails *)
ServerDies ==
    /\ ServerRuns
    /\ server' = "exit1"
    /\ UNCHANGED <<control, ack, clients, alarm, heard, success>>

-----------------------------------------------------------------------------
(* The components                                                          *)

(* Who has to be there before a component is started *)
MayStart(c) ==
    CASE c = "driver"    -> done["launcher"] >= 1
      [] c = "rm_host"   -> done["driver"] >= 1 /\ Alive("driver")
      [] c = "worker"    -> done["rm_host"] >= 1 /\ Alive("rm_host")
      [] c = "evaluator" -> done["launcher"] >= 2
      [] OTHER           -> FALSE

Start(c) ==
    /\ life[c] = "none" /\ MayStart(c) /\ Alive("launcher")
    /\ life' = [life EXCEPT ![c] = "alive"]
    /\ UNCHANGED <<control, ack, server, done, req, closed, alarm, heard, success>>

(* A witness waits for the end of the process and reads the permit it left.  The
   launcher gives up on a container that failed; only the wrapper of the driver
   hands on a bad exit status.                                               *)
MaySend(c) ==
    NextCall(c).op = "confirm" =>
        LET t == NextCall(c).arg IN
        /\ Finished(t)
        /\ life[t] = "exited" \/ (life[t] = "failed" /\ t \in {"worker", "driver"})

Send(c) ==
    /\ Alive(c) /\ ~Finished(c) /\ MaySend(c)
    /\ c \notin req \cup closed
    /\ req' = req \cup {c}
    /\ UNCHANGED <<control, ack, server, life, done, closed, alarm, heard, success>>

(* worker_finalize: no task is left to cancel *)
NothingToCancel ==
    /\ Alive("worker") /\ done["worker"] = 1 /\ "worker" \notin req
    /\ done' = [done EXCEPT !["worker"] = 3]
    /\ UNCHANGED <<control, ack, server, life, req, closed, alarm, heard, success>>

Exit(c) ==
    /\ Alive(c) /\ c # "launcher" /\ Finished(c)
    /\ life' = [life EXCEPT ![c] = "exited"]
    /\ UNCHANGED <<control, ack, server, done, req, closed, alarm, heard, success>>

(* The reward worker is a thread of its host *)
DiesWith(c) == {c} \cup (IF c = "rm_host" /\ Alive("worker") THEN {"worker"} ELSE {})

(* A component raises, which it reports if it has a client, or is killed *)
Die(c) ==
    /\ Alive(c) /\ (c = "launcher" => ~success)
    /\ life' = [t \in Component |-> IF t \in DiesWith(c) THEN "failed" ELSE life[t]]
    /\ closed' = closed \cup DiesWith(c)
    /\ alarm' \in {alarm, alarm \cup (IF done[c] >= 1 THEN {c} ELSE {})}
    /\ UNCHANGED <<control, ack, server, done, req, heard, success>>

(* The reward model and the loop of the worker report what their callers swallow;
   both run in the process of the host, after the worker has closed as well.   *)
ReportFatal(c) ==
    /\ c \in {"rm_host", "worker"} /\ done[c] >= 1
    /\ Alive("rm_host")
    /\ c \notin req
    /\ alarm' = alarm \cup {c}
    /\ closed' = closed \cup {c}
    /\ UNCHANGED <<control, ack, server, life, done, req, heard, success>>

(* Neither connection takes the message *)
LoseFatal(c) ==
    /\ c \in alarm
    /\ alarm' = alarm \ {c}
    /\ UNCHANGED <<control, ack, server, clients, heard, success>>

(* A heartbeat is refused or not answered *)
HeartbeatFails(c) ==
    /\ done[c] >= 1 /\ ~Finished(c)
    /\ c \notin closed \cup req
    /\ failed \/ ~ServerRuns
    /\ closed' = closed \cup {c}
    /\ UNCHANGED <<control, ack, server, life, done, req, alarm, heard, success>>

-----------------------------------------------------------------------------
(* The launcher                                                            *)

(* fault: the exit status of the supervisor is taken for its certificate *)
ExitZero  == server = "exit0"
Certified == server = "exit0" /\ cert

Succeed ==
    /\ Alive("launcher") /\ Finished("launcher")
    /\ Certified
    /\ success' = TRUE
    /\ UNCHANGED <<control, ack, server, clients, alarm, heard>>

(* What makes a component stop: its latch, or the launcher, which stops the
   containers; the launcher looks after the containers and the supervisor.     *)
Doomed(c) ==
    \/ ~Finished(c) /\ (c \in closed \/ ~ServerRuns)
    \/ c = "launcher" /\ (life["driver"] = "failed" \/ life["evaluator"] = "failed")
    \/ c = "launcher" /\ ~ServerRuns /\ ~Certified
    \/ c # "launcher" /\ life["launcher"] = "failed"

-----------------------------------------------------------------------------
Init ==
    /\ state = [c \in Component |-> "none"]
    /\ phase = [c \in Component |-> "none"]
    /\ failed = FALSE /\ final = FALSE /\ shutdown = FALSE /\ evalDue = FALSE
    /\ cert = FALSE /\ ack = FALSE /\ server = "up"
    /\ life = [c \in Component |-> IF c = "launcher" THEN "alive" ELSE "none"]
    /\ done = [c \in Component |-> 0]
    /\ req = {} /\ closed = {} /\ alarm = {}
    /\ heard = FALSE /\ success = FALSE

Handles(c)  == HandleAccepted(c) \/ HandleRefused(c) \/ RecordFails(c)
Expires(c)  == PhaseTimeout(c) \/ ExitTimeout(c)
Proceeds(c) == Start(c) \/ Send(c) \/ Exit(c) \/ HeartbeatFails(c)

Next ==
    \/ \E c \in Component :
          \/ Handles(c) \/ HandleEof(c) \/ HandleFatal(c)
          \/ Expires(c) \/ HeartbeatTimeout(c)
          \/ Proceeds(c) \/ Die(c) \/ ReportFatal(c) \/ LoseFatal(c)
    \/ Acknowledge \/ EvaluationTimeout \/ ServeReturns \/ ServerExits \/ ServerDies
    \/ NothingToCancel \/ Succeed

Spec == Init /\ [][Next]_vars

(* The supervisor handles what it receives and returns when it should, heartbeats
   go on, and a process that has to stop does.                                 *)
Fairness ==
    /\ WF_vars(\E c \in Component : Handles(c) \/ HandleEof(c))
    /\ WF_vars(\E c \in Component : HeartbeatFails(c) \/ (Doomed(c) /\ Die(c)))
    /\ WF_vars(\E c \in Component : ExitTimeout(c))
    /\ WF_vars(Acknowledge \/ ServeReturns \/ ServerExits)

FairSpec == Spec /\ Fairness

-----------------------------------------------------------------------------
(* Properties                                                              *)

(* Nobody gets past the end of its calls, and only components that were started
   have made any.                                                             *)
TypeOK ==
    /\ state \in [Component -> {"none", "ACTIVE", "EXIT_PERMITTED", "OFFLINE_CONFIRMED", "FAILED"}]
    /\ phase \in [Component -> {"none", "cancel", "export"}]
    /\ {failed, final, shutdown, evalDue, cert, ack, heard, success} \subseteq BOOLEAN
    /\ server \in {"up", "ok", "bad", "exit0", "exit1"}
    /\ life \in [Component -> {"none", "alive", "exited", "failed"}]
    /\ done \in [Component -> Nat]
    /\ \A c \in Component : /\ done[c] <= Len(Script[c])
                            /\ done[c] > 0 \/ c \in req => life[c] # "none"
    /\ {req, closed, alarm} \subseteq SUBSET Component

(* As long as the certificate is on disk the supervisor has handled no fatal, every
   component has its permit and has been confirmed, and nothing but the launcher
   runs: a failure takes it back even after it was given.                      *)
CertificateHolds ==
    cert => /\ ~heard
            /\ \A c \in Expected : Finished(c) /\ life[c] \notin {"none", "alive"}

(* A run succeeds only with a supervisor that ended well and heard of no fatal, and
   all processes ended normally (of the worker thread it is only known that it
   ended after its permit).                                                    *)
SuccessIsClean ==
    success => /\ server = "exit0" /\ ~heard
               /\ \A c \in Expected : /\ Finished(c) /\ life[c] # "alive"
                                      /\ c # "worker" => life[c] = "exited"

(* No component is permitted to exit while one it has to witness is not confirmed
   gone, and none is confirmed that still runs.                                *)
ClosesBottomUp ==
    \A c \in Component :
        /\ state[c] = "EXIT_PERMITTED" /\ c # "launcher" =>
              \A t \in Allowed[c] : state[t] = "OFFLINE_CONFIRMED"
        /\ state[c] = "OFFLINE_CONFIRMED" => ~Alive(c)

(* Whatever component fails, when and in whichever way, the supervisor sees to it
   that the launcher fails; only a worker that raises after its permit may go
   unnoticed, and one that never registered.                                   *)
FailureStops ==
    \A c \in Component :
        life[c] = "failed" /\ done[c] >= 1 /\ (c = "worker" => ~Finished(c))
            ~> life["launcher"] = "failed"

=============================================================================
