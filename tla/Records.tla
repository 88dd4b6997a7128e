------------------------------ MODULE Records -------------------------------
(***************************************************************************)
(* What a permit database records about authority: the grants that were    *)
(* issued (Issuance) and the decisions taken under them (DecisionLedger).  *)
(* The two keep their tables in one file over connections of their own and *)
(* share neither a row nor a variable: a step of one never reads or        *)
(* changes the other, so exploring either while the other stands still     *)
(* loses nothing.                                                          *)
(***************************************************************************)
EXTENDS Issuance, DecisionLedger

VARIABLE part   \* the part that moves

recordVars == <<part, issuanceVars, ledgerVars>>

(* Both parts keep their types.                                            *)
RecordsTypeOK ==
    /\ part \in {"grants", "ledger"}
    /\ IssuanceTypeOK
    /\ LedgerTypeOK

RecordsInit ==
    /\ part \in {"grants", "ledger"}
    /\ IssuanceInit
    /\ LedgerInit
    /\ part = "grants" => rows = <<>>
    /\ part = "ledger" => config = [p \in Processes |-> "bare"]

RecordsNext ==
    \/ part = "grants" /\ IssuanceNext /\ UNCHANGED <<part, ledgerVars>>
    \/ part = "ledger" /\ LedgerNext /\ UNCHANGED <<part, issuanceVars>>

RecordsSpec == RecordsInit /\ [][RecordsNext]_recordVars
=============================================================================
