---------------------------- MODULE UpdateLedger ----------------------------
(***************************************************************************)
(* What a run of scripts/ft/state.py promises to the training loop: an     *)
(* append-only ledger of the updates it has retained.  Every entry trains  *)
(* samples no entry trained before, under logical updates no entry used    *)
(* before, and the samples drawn from the data source only grow.           *)
(***************************************************************************)
EXTENDS Naturals, Sequences, Functions

CONSTANTS Sample, Update

VARIABLES ledger, drawn

lvars == <<ledger, drawn>>

Trained  == UNION {e.samples : e \in Range(ledger)}
Retained == UNION {e.updates : e \in Range(ledger)}

LedgerInit == ledger = <<>> /\ drawn = {}

Commit(S, U, D) ==
    /\ S \cap Trained = {}
    /\ U # {} /\ U \cap Retained = {}
    /\ drawn \subseteq D /\ Trained \cup S \subseteq D
    /\ ledger' = Append(ledger, [samples |-> S, updates |-> U])
    /\ drawn' = D

LedgerNext == \E S, D \in SUBSET Sample, U \in SUBSET Update : Commit(S, U, D)

LedgerSpec == LedgerInit /\ [][LedgerNext]_lvars
=============================================================================
