----------------------------- MODULE MCEpisode -----------------------------
(* One group of two samples. *)
EXTENDS Episode, TLC

CONSTANTS s1, s2, t1, t2

MCGroupOf == [s \in Sample |-> "g"]
\* At most two of: an attempt superseded, an owner replaced, an episode cancelled.
Superseded(s) == control.attempts[s] # None /\ control.attempts[s].id > 1
FewFaults == Cardinality({s \in Sample : Superseded(s)}) + cancels + control.epoch - 1 <= 2

\* The other sample is there for its calls in the pool and its row in the group: the
\* engine and the scorer have one answer for it.  No episode runs during an update,
\* and one row is attached at a time.
Quiet == /\ ep[s2].response \in {None, t1} /\ ep[s2].score \in {None, 1}
         /\ intent.rows # {} => attaching = {} /\ \A s \in Sample : ep[s].pc = "idle"
         /\ Cardinality(attaching) <= 1
         /\ ~Superseded(s2) \/ control.epoch > 1
Few == FewFaults /\ Quiet
=============================================================================
