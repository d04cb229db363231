------------------------- MODULE MCAblationCampaign -------------------------
(* A small instance of AblationCampaign for TLC. *)
EXTENDS AblationCampaign

MCArms == <<"O", "R", "X">>
MCSeeds == <<11, 23>>
MCConfirm == <<41>>
MCOrder == 11 :> <<"O", "R", "X">> @@ 23 :> <<"R", "X", "O">>

(* A good host, one without the space of a long phase, one with another process
   on a GPU, one whose disk cannot be read and one with other GPUs             *)
Gpu(uuid) == [uuid |-> uuid, memory |-> 40, utilization |-> 0]
Good == [public |-> 300, root |-> 200, free |-> 700, gpus |-> <<Gpu("a"), Gpu("b")>>, processes |-> {}]
MCReadings == {Good, [Good EXCEPT !.free = 300], [Good EXCEPT !.processes = {"p"}],
               [Good EXCEPT !.public = None], [Good EXCEPT !.gpus = <<Gpu("b"), Gpu("a")>>]}

(* The result of a smoke or a confirmation does not matter, and one thing goes
   wrong: a run that does not succeed, an edit, a change (once the whole
   screen was started, as for a report) or a smoke by itself. Nobody runs a smoke
   after the acceptance.                                                       *)
Of(phase) == {n \in DOMAIN runs : n.phase = phase}
Wrongs == edits + changes
          + Cardinality({n \in DOMAIN runs : runs[n].stage \in {"refused", "failed", "abandoned"}})
          + Cardinality(Of("smoke") \ ToSet(Smokes))
Short == /\ \A n \in Of("smoke") \cup Of("confirm") : runs[n].measured \in {None, 70}
         /\ Cardinality({n \in Of("screen") : runs[n].measured = 72}) <= 3
         /\ Wrongs <= 1
         /\ edits = 0 => inputs = "v0"
         /\ acceptance # None /\ ~Idle => Due.phase # "smoke"
         /\ report # None \/ changes # 0 => Of("screen") = ToSet(Cells)
         /\ Of("confirm") # {} => /\ edits + changes = 0
                                /\ \A n \in Of("screen") : runs[n].stage = "succeeded"
=============================================================================
