-------------------------- MODULE MCFinanceConnector --------------------------
(***************************************************************************)
(* A row of the implemented connector, one of a connector that is not, and *)
(* the record of an event the ledger could not post; two poll cycles that  *)
(* overlap and take what is due, one reviewer.                             *)
(***************************************************************************)
EXTENDS FinanceConnector

CONSTANTS row, zoho, norule

MCSystem == [e \in Entry |-> CASE e = row -> "CUSTOM_MODULE" [] e = zoho -> "ZOHO_BOOKS"
                                []  OTHER   -> "NONE"]
================================================================================
