-------------------------- MODULE MCFaultController --------------------------
(* Instances of FaultController for TLC: frozen configurations and schedules. *)
EXTENDS FaultController

CONSTANTS t, w, e1, e2

(* two attempts: one with a waiter beside its target, one with the target alone *)
TwoRoles    == (1 :> {t, w}) @@ (2 :> {t})
TwoAttempts == (e1 :> 1) @@ (e2 :> 2)
TwoTargets  == (e1 :> t) @@ (e2 :> t)
TwoWaiters  == (e1 :> {t, w}) @@ (e2 :> {t})

CallTwice == [r \in {t, w} |-> 2]

=============================================================================
