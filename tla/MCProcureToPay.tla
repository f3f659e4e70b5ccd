---------------------------- MODULE MCProcureToPay ----------------------------
(***************************************************************************)
(* A receipt with two lines for two PO lines, a receipt that brings more   *)
(* than was ordered, and one order with a customer.                        *)
(***************************************************************************)
EXTENDS ProcureToPay

CONSTANTS h1, c1, c2, g1, g2, la, lb, lc, p1, p2, o1

MCLinesOf == [g \in {g1, g2} |-> IF g = g1 THEN <<la, lb>> ELSE <<lc>>]
MCPoLineOf == [l \in {la, lb, lc} |-> IF l \in {la, lc} THEN p1 ELSE p2]
MCQty == [l \in {la, lb, lc} |-> IF l = lc THEN 3 ELSE 1]
MCAcceptedValue == [l \in {la, lb, lc} |-> 1]
MCOrdered == [p \in {p1, p2} |-> 2]
MCOrderWorth == [o \in {o1} |-> 1]
================================================================================
