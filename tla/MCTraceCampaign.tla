-------------------------- MODULE MCTraceCampaign --------------------------
(* All cut points, with two levels of each dimension; two runners on one directory. *)
EXTENDS TraceGates

CONSTANTS a, b

MCCuts == <<"R1", "R2", "R3", "R4", "R5", "Q0", "Q1", "L0", "L2", "L3", "C1", "C2">>
MCLevels == [kill_time |-> <<35, 90>>, ack_loss |-> <<FALSE, TRUE>>,
             attempt_order |-> <<"reverse", "interleaved">>,
             revision |-> <<"v1", "v2">>, group_size |-> <<4, 8>>]
MCStride == [kill_time |-> 1, ack_loss |-> 1, attempt_order |-> 1, revision |-> 1, group_size |-> 2]
MCSeedOf == [r \in Runner |-> IF r = a THEN {0, 2} ELSE {0}]

\* Where two runners are started, a campaign is left in the middle, or the checkout
\* changed, only while the other is not started; one passes its middle at a time.
Middle(r) == job[r].mode # "none" /\ job[r].next \in 3..Trials(job[r].mode)
FewMixes == \A r, q \in Runner :
    r # q /\ pc[q] # "idle" => /\ tree.edits = 0 /\ job[r].seed = 0
                              /\ (Middle(r) => pc[r] = "trials" /\ ~Middle(q))
=============================================================================
