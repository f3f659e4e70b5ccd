------------------------------- MODULE MCLedger -------------------------------
(***************************************************************************)
(* Two instances of ledger-service and one event of each class; a message  *)
(* of any event may be published again.                                    *)
(***************************************************************************)
EXTENDS Ledger

CONSTANTS good, norule, dust, junk

MCClass == [e \in {good, norule, dust, junk} |->
              CASE e = good -> "posted" [] e = norule -> "unposted"
                [] e = dust -> "refused" [] OTHER -> "malformed"]
================================================================================
