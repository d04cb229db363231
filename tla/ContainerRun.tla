---------------------------- MODULE ContainerRun ----------------------------
(***************************************************************************)
(* The container supervisor of scripts/ft/container_run.py (CPU profile)   *)
(* around the controller of NamespaceRun: it creates the one container,    *)
(* starts it, keeps the host lease and watches the heartbeat, and, however *)
(* the run ends, stops, confirms and removes it by its full id.            *)
(*                                                                         *)
(* Every docker command can fail, or time out while the daemon goes on     *)
(* with it.  The container runs while its PID 1, the controller, does.     *)
(***************************************************************************)
EXTENDS NamespaceRun

VARIABLES
    box,      \* what the daemon has: "none", "created", "started", "removed"
    starting, \* a start that timed out is still to be carried out
    cidfile,  \* container.id was written
    sup       \* the supervisor: where it is, the id it has, its findings

vars == <<nsVars, box, starting, cidfile, sup>>

RunningBox == box = "started" /\ pc # "ended"
ExitZero == result = "execution_complete"

At(step) == sup.pc = step
To(step) == sup' = [sup EXCEPT !.pc = step]
Fails(step) == sup' = [sup EXCEPT !.pc = step, !.failure = TRUE]
Errs(step) == sup' = [sup EXCEPT !.pc = step, !.errors = TRUE]

(* docker create and the checks of what it made. *)
Create ==
    /\ At("create")
    /\ \/ box' = "created" /\ cidfile' = TRUE
          /\ \/ sup' = [sup EXCEPT !.pc = "start", !.cid = TRUE]
             \/ sup' = [sup EXCEPT !.pc = "cleanup", !.cid = TRUE, !.failure = TRUE]
       \/ Fails("cleanup") /\ box' \in {"none", "created"} /\ cidfile' \in {FALSE, box' = "created"}
    /\ UNCHANGED <<nsVars, starting>>

Start ==
    /\ At("start")
    /\ \/ box' = "started" /\ To("watch") /\ UNCHANGED starting
       \/ Fails("cleanup") /\ box' \in {"created", "started"} /\ starting' \in {FALSE, box' = "created"}
    /\ UNCHANGED <<nsVars, cidfile>>

LateStart ==
    /\ starting /\ box = "created"
    /\ box' = "started" /\ starting' = FALSE
    /\ UNCHANGED <<nsVars, cidfile, sup>>

(* The loop ends with the container, or by a missing, old or regressing heartbeat, a
   deadline or an inspect that fails. *)
Watch ==
    /\ At("watch")
    /\ \/ ~RunningBox /\ To("cleanup")
       \/ Fails("cleanup")
    /\ UNCHANGED <<nsVars, box, starting, cidfile>>

(* The id may only be in the file by now. *)
Cleanup ==
    /\ At("cleanup")
    /\ LET known == sup.cid \/ cidfile
       IN  \/ ~known /\ To("result")
           \/ known /\ sup' = [sup EXCEPT !.cid = TRUE, !.pc = IF RunningBox THEN "stop" ELSE "inspect"]
           \/ known /\ sup' = [sup EXCEPT !.cid = TRUE, !.pc = "result", !.errors = TRUE]
    /\ UNCHANGED <<nsVars, box, starting, cidfile>>

(* docker stop: SIGTERM interrupts the controller, SIGKILL ends it after the grace
   period; or the command fails. *)
Stop ==
    /\ At("stop")
    /\ \/ ~RunningBox /\ To("inspect") /\ UNCHANGED nsVars
       \/ (Interrupted \/ Crash) /\ To("inspect")
       \/ Errs(IF RunningBox THEN "kill" ELSE "inspect") /\ UNCHANGED nsVars
    /\ UNCHANGED <<box, starting, cidfile>>

Kill9 ==
    /\ At("kill")
    /\ \/ Crash /\ To("inspect")
       \/ ~RunningBox /\ To("inspect") /\ UNCHANGED nsVars
       \/ Errs("result") /\ UNCHANGED nsVars
    /\ UNCHANGED <<box, starting, cidfile>>

(* The exit status is not looked at. *)
InspectState ==
    /\ At("inspect")
    /\ \/ sup' = [sup EXCEPT !.clean = ~RunningBox, !.pc = IF RunningBox THEN "result" ELSE "remove",
                             !.errors = @ \/ RunningBox]
       \/ Errs("result")
    /\ UNCHANGED <<nsVars, box, starting, cidfile>>

(* The last inspect: whether it is down, and its exit status. *)
Inspect ==
    /\ At("inspect")
    /\ \/ sup' = [sup EXCEPT !.clean = ~RunningBox, !.failure = @ \/ ~ExitZero,
                             !.pc = IF RunningBox THEN "result" ELSE "remove",
                             !.errors = @ \/ RunningBox]
       \/ Errs("result")
    /\ UNCHANGED <<nsVars, box, starting, cidfile>>

(* docker logs and docker rm, which refuses a running container. *)
RemoveBox ==
    /\ At("remove")
    /\ \/ ~RunningBox /\ box' = "removed" /\ starting' = FALSE /\ To("result")
       \/ Errs("result") /\ UNCHANGED <<box, starting>>
    /\ UNCHANGED <<nsVars, cidfile>>

Result ==
    /\ At("result") /\ To("done")
    /\ UNCHANGED <<nsVars, box, starting, cidfile>>

Supervisor == Create \/ Start \/ Watch \/ Cleanup \/ Stop \/ Kill9 \/ Inspect \/ RemoveBox \/ Result

Init ==
    /\ NsInit
    /\ box = "none" /\ starting = FALSE /\ cidfile = FALSE
    /\ sup = [pc |-> "create", cid |-> FALSE, failure |-> FALSE, errors |-> FALSE, clean |-> FALSE]

Next ==
    \/ Supervisor \/ LateStart
    \/ /\ box = "started" /\ (Boot \/ NsNext)
       /\ UNCHANGED <<box, starting, cidfile, sup>>

Spec == Init /\ [][Next]_vars

----------------------------------------------------------------------------
(* Everything has the shape its code gives it. *)
TypeOK ==
    /\ NsTypeOK
    /\ box \in {"none", "created", "started", "removed"}
    /\ starting \in BOOLEAN /\ cidfile \in BOOLEAN
    /\ sup \in [pc : {"create", "start", "watch", "cleanup", "stop", "kill", "inspect", "remove",
                       "result", "done"},
                cid : BOOLEAN, failure : BOOLEAN, errors : BOOLEAN, clean : BOOLEAN]

(* When the supervisor reports a confirmed cleanup without errors, the container is
   removed and no process of it lives, also after a start that timed out; and when it
   reports no failure either, the controller recorded a complete execution, in which
   every scheduled event killed its target once. *)
SuccessIsClean ==
    sup.pc = "done" /\ sup.clean /\ ~sup.errors =>
        /\ box = "removed" /\ \A p \in Pid : proc[p] = None
        /\ ~sup.failure => /\ result = "execution_complete"
                           /\ [i \in DOMAIN shots |-> shots[i][1]] = Schedule
=============================================================================
