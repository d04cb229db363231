----------------------------- MODULE MCFTState -----------------------------
(* A small instance of FTState for TLC. *)
EXTENDS FTState, TLC
CONSTANTS p1, p2, x1, x2, u1, u2

(* The data source yields the samples of the groups in one order *)
TwoGroups == {<<>>, <<<<"g1", 0>>>>, <<<<"g1", 0>>, <<"g2", 0>>>>, <<<<"g2", 0>>, <<"g1", 0>>>>}
OneEach == {{u} : u \in Update}

(* The three histories that are explored, in any order of their steps *)
FirstOnly == /\ \A s \in Sample : attempts[s] # None => attempts[s].id = "a1"
             /\ \A s \in Sample : accepted[s] # None => accepted[s].body = "b1"
Workerless == \A p \in Proc : worker[p] = "none"
OneGroup == /\ \A s \in Sample : s[1] = "g2" => attempts[s] = None
            /\ \A g \in Prepared : \A s \in Range(intent[g].drawn) : s[1] = "g1"

TwoGroupsOneOwner == FirstOnly /\ Workerless /\ proc[p1] \in {"new", "owner"} /\ proc[p2] = "new"
TwoOwners == FirstOnly /\ OneGroup /\ (Workerless \/ Cardinality(Prepared) <= 1)
TwoAttempts == OneGroup /\ Workerless /\ Cardinality(Prepared) <= 1

(* Processes, generations and updates are interchangeable: the first comes first. *)
UsedInOrder ==
    /\ x2 \in Prepared => x1 \in Prepared
    /\ \A g \in Prepared : u2 \in intent[g].updates => \E h \in Prepared : u1 \in intent[h].updates
    /\ proc[p2] # "new" => proc[p1] # "new"

Either == UsedInOrder /\ (TwoGroupsOneOwner \/ TwoOwners \/ TwoAttempts)
=============================================================================
