---------------------------- MODULE MirroredQueue ----------------------------
(***************************************************************************)
(* What the finance connector promises about each row of the integration   *)
(* queue, whatever cycles overlap and whoever reviews: it is mirrored into *)
(* the external ledger at most once and only by the connector it names, it *)
(* is POSTED only under the id of that posting, giving it up puts it in    *)
(* sight of a reviewer in the same step, and what the ledger could not     *)
(* post stays FAILED, never mirrored or tried again; it comes into sight   *)
(* some time after it was recorded, or never.                              *)
(***************************************************************************)
EXTENDS Integers

CONSTANTS Entry,    \* the rows of the queue
          System    \* the external system a row names

VARIABLES status,       \* status of a row
          externalId,   \* the external id a row tells
          external,     \* the id of the row's posting in the external ledger, or 0
          nextId,       \* the next id the external ledger gives
          inSight       \* rows with a review that is open or was dismissed

mirrorVars == <<status, externalId, external, nextId, inSight>>

MirrorInit ==
    /\ status = [e \in Entry |-> "none"] /\ externalId = [e \in Entry |-> 0]
    /\ external = [e \in Entry |-> 0] /\ nextId = 1 /\ inSight = {}

Queue(e) ==
    /\ status[e] = "none" /\ System[e] # "NONE"
    /\ status' = [status EXCEPT ![e] = "PENDING"]
    /\ UNCHANGED <<externalId, external, nextId, inSight>>

\* The ledger could not post the event, and has yet to tell a reviewer.
Refuse(e) ==
    /\ status[e] = "none" /\ System[e] = "NONE"
    /\ status' = [status EXCEPT ![e] = "FAILED"]
    /\ UNCHANGED <<externalId, external, nextId, inSight>>

Show(e) ==
    /\ status[e] = "FAILED" /\ System[e] = "NONE" /\ e \notin inSight
    /\ inSight' = inSight \cup {e}
    /\ UNCHANGED <<status, externalId, external, nextId>>

Mirror(e) ==
    /\ status[e] # "none" /\ System[e] = "CUSTOM_MODULE" /\ external[e] = 0
    /\ external' = [external EXCEPT ![e] = nextId] /\ nextId' = nextId + 1
    /\ UNCHANGED <<status, externalId, inSight>>

Settle(e) ==
    /\ status[e] # "none" /\ external[e] # 0
    /\ status' = [status EXCEPT ![e] = "POSTED"]
    /\ externalId' = [externalId EXCEPT ![e] = external[e]]
    /\ UNCHANGED <<external, nextId, inSight>>

GiveUp(e) ==
    /\ status[e] # "none" /\ System[e] # "NONE"
    /\ status' = [status EXCEPT ![e] = "FAILED"]
    /\ inSight' = inSight \cup {e}
    /\ UNCHANGED <<externalId, external, nextId>>

\* A reviewer has the row tried again; another review of it may stay in sight.
Reopen(e) ==
    /\ status[e] # "none" /\ System[e] = "CUSTOM_MODULE"
    /\ status' = [status EXCEPT ![e] = "PENDING"]
    /\ inSight' \in {inSight, inSight \ {e}}
    /\ UNCHANGED <<externalId, external, nextId>>

\* A dismissal that overtook a retry of the same review.
Dismiss(e) ==
    /\ status[e] # "none"
    /\ inSight' = inSight \cup {e}
    /\ UNCHANGED <<status, externalId, external, nextId>>

MirrorNext ==
    \E e \in Entry :
        \/ Queue(e) \/ Refuse(e) \/ Show(e) \/ Mirror(e)
        \/ Settle(e) \/ GiveUp(e) \/ Reopen(e) \/ Dismiss(e)

MirrorSpec == MirrorInit /\ [][MirrorNext]_mirrorVars
================================================================================
