------------------------------ MODULE OrderIntake ------------------------------
(***************************************************************************)
(* What the sales service promises about one captured order, whatever its  *)
(* clients retry and whenever its processes die: the order is decided at   *)
(* most once, an approved order charges its agent in the very step that    *)
(* approves it, a blocked one never does, and the general ledger hears of  *)
(* it at most once, and only after approval.                               *)
(***************************************************************************)
EXTENDS Naturals

CONSTANTS Order,    \* client event ids of the captured orders
          Direct    \* the customer-invoiced orders: they never charge an agent

VARIABLES decision,     \* what the order was decided to be
          charged,      \* how many times the order was charged to its agent
          announced     \* how many events announced the order to the ledger

intakeVars == <<decision, charged, announced>>

IntakeInit ==
    /\ decision = [o \in Order |-> "none"]
    /\ charged = [o \in Order |-> 0]
    /\ announced = [o \in Order |-> 0]

Approve(o) ==
    /\ decision[o] = "none"
    /\ decision' = [decision EXCEPT ![o] = "CONFIRMED"]
    /\ charged' = IF o \in Direct THEN charged ELSE [charged EXCEPT ![o] = 1]
    /\ UNCHANGED announced

Block(o) ==
    /\ decision[o] = "none"
    /\ decision' = [decision EXCEPT ![o] = "NEEDS_REVIEW"]
    /\ UNCHANGED <<charged, announced>>

Announce(o) ==
    /\ decision[o] = "CONFIRMED"
    /\ announced[o] = 0
    /\ announced' = [announced EXCEPT ![o] = 1]
    /\ UNCHANGED <<decision, charged>>

IntakeNext == \E o \in Order : Approve(o) \/ Block(o) \/ Announce(o)

IntakeSpec == IntakeInit /\ [][IntakeNext]_intakeVars
================================================================================
