---- MODULE MCContainerRun ----
EXTENDS ContainerRun, TLC
CONSTANTS a, b, e1, e2
MCSchedule == <<e1, e2>>
MCWaiters == (e1 :> {a, b}) @@ (e2 :> {b})
MCAsks == {<<a, e1>>, <<b, None>>}
MCTarget == (e1 :> a) @@ (e2 :> b)
Living == {p \in Pid : proc[p] # None /\ ~proc[p].zombie}
Few == 
    /\ pc = "loop" => Cardinality(Living) + 2 + Len(shots) >= forks
    /\ sup.pc \notin {"start", "watch"} => forks <= 2
====
