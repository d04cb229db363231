---------------------------- MODULE MCSealStore ----------------------------
(* Two groups of two samples: g1 in the skew window, g2 in the crash window. *)
EXTENDS SealStore

CONSTANTS p1, p2, g1, g2, s1, s2, t1, t2

MCGroupOf == [s \in Sample |-> IF s \in {s1, s2} THEN g1 ELSE g2]
MCV1 == [s \in Sample |-> 1]
MCV2 == [s \in Sample |-> IF s = s2 THEN 0 ELSE 1]
MCFault == [g \in Group |-> IF g = g1 THEN "skew" ELSE "crm_crash"]
=============================================================================
