----------------------------- MODULE MCMobileSync -----------------------------
(***************************************************************************)
(* Two services.  The device captures two events for the first, the second *)
(* of which it rejects, and one for the other, whose handler throws; one   *)
(* row of another device competes for the first service's sequence (it is  *)
(* left out where only the outbox matters).                                *)
(***************************************************************************)
EXTENDS MobileSync

CONSTANTS a1, a2, b1, ra, ta, tb

MCTables == <<ta, tb>>
MCTableOf == [e \in Event |-> IF e = b1 THEN tb ELSE ta]
================================================================================
