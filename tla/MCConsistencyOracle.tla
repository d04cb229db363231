------------------------ MODULE MCConsistencyOracle ------------------------
(* A small instance of ConsistencyOracle for TLC. *)
EXTENDS ConsistencyOracle

(* Few things go wrong in one run: an untrue entry of the evidence, an update
   with another tensor or another attempt than admitted, or one that fails.    *)
Odd(u) == \/ ~updates[u].admitted
          \/ updates[u].attempt # updates[u].authority.attempt
          \/ updates[u].ended # 0 /\ ~updates[u].successful
Wrongs == lies + Cardinality({u \in UpdateIds : Odd(u)})
Few == /\ Wrongs <= MaxLies
       /\ Cardinality(Of("authorize")) <= Cardinality(Groups) + 1
       /\ Cardinality(Of("checkpoint_loaded")) > 2 =>
             /\ Wrongs = 0
             /\ Cardinality(Of("authorize")) = Cardinality(Groups)
             /\ Of("role_ready") = {}
       /\ Of("role_ready") # {} =>
             /\ \A u \in UpdateIds : updates[u].apart
             /\ Wrongs # 0 => /\ Wrongs = lies /\ Of("role_down") = {}
                             /\ Cardinality(Of("authorize")) = Cardinality(Groups)

(* Between the two events of an update or a save only what matters happens:
   an update meets the end of a save or a crash, a save an update or a crash.  *)
Prompt ==
    /\ running # Nil /\ pending = Nil => running' = Nil
    /\ pending # Nil /\ running = Nil => pending' = Nil \/ running' # Nil
=============================================================================
