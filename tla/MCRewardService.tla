-------------------------- MODULE MCRewardService --------------------------
(* Two groups of two samples; room for the lines of both, or not. *)
EXTENDS RewardService

MCSample == {11, 12, 21, 22}
MCGroupOf == [s \in MCSample |-> s \div 10]
MCLimits == [log_bytes |-> 6, seen_ids |-> 3, events |-> 8]
=============================================================================
