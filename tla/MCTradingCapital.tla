--------------------------- MODULE MCTradingCapital ---------------------------
(***************************************************************************)
(* One agent with capital for either of two orders but not for both, a     *)
(* direct order that alone exceeds the capital, an order worth nothing     *)
(* (which the ledger's CHECK refuses), one that names no known agent, and  *)
(* one NCR that restores the value of one order.                           *)
(***************************************************************************)
EXTENDS TradingCapital

CONSTANTS h1, h2, ag, o1, o2, od, oz, ou, n1

MCOwnerOf == [d \in {o1, o2, od, oz, ou, n1} |-> ag]
MCValue == [o \in {o1, o2, od, oz, ou} |->
              IF o \in {o1, o2} THEN 2 ELSE IF o = od THEN 5 ELSE 0]
MCAmount == [n \in {n1} |-> 2]
MCApproved == [a \in {ag} |-> 3]
================================================================================
