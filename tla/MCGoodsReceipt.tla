---------------------------- MODULE MCGoodsReceipt ----------------------------
(***************************************************************************)
(* Two receipts for one PO line that has room for either but not for both; *)
(* a receipt with two lines for another PO line, which has room for each   *)
(* but not for their sum, the second of them rejected outright (no value); *)
(* and a receipt that names an unknown row.                                *)
(***************************************************************************)
EXTENDS GoodsReceipt

CONSTANTS h1, h2, g1, g2, gd, gu, l1, l2, ld, lr, lu, p1, p2

MCLinesOf == [g \in {g1, g2, gd, gu} |->
                CASE g = g1 -> <<l1>> [] g = g2 -> <<l2>>
                  [] g = gd -> <<ld, lr>> [] OTHER -> <<lu>>]
MCPoLineOf == [l \in {l1, l2, ld, lr, lu} |-> IF l \in {ld, lr} THEN p2 ELSE p1]
MCQty == [l \in {l1, l2, ld, lr, lu} |-> 2]
MCAcceptedValue == [l \in {l1, l2, ld, lr, lu} |-> IF l = lr THEN 0 ELSE 1]
MCOrdered == [p \in {p1, p2} |-> 3]
================================================================================
