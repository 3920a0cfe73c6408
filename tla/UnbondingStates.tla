---------------------------- MODULE UnbondingStates ----------------------------
(* The values of UnbondingDocument.State (internal/db/model/unbonding.go).     *)
(* The pipeline, its abstract specification and the stores share them.         *)

Inserted                      == "INSERTED"
Send                          == "SEND"
InputAlreadySpent             == "INPUT_ALREADY_SPENT"
Failed                        == "FAILED"
FailedToGetCovenantSignatures == "FAILED_TO_GET_COVENANT_SIGNATURES"

\* A document the staking API has not written yet.
Absent == "ABSENT"

\* The states some command lists, and those no command ever lists again.
Pending  == {Inserted, Failed, FailedToGetCovenantSignatures}
Terminal == {Send, InputAlreadySpent}
States   == Pending \cup Terminal
================================================================================
