----------------------------- MODULE GoodsReceipt -----------------------------
(***************************************************************************)
(* procurement-service: createGoodsReceipt, reached by POST                *)
(* /goods-receipts and by the goods_receipt branch of POST /sync/push.     *)
(*                                                                         *)
(* As in TradingCapital, a handler is one HTTP request in flight, its      *)
(* transaction acts on what its own read of the PO lines saw (READ         *)
(* COMMITTED), and other handlers commit in between.  A receipt stands for *)
(* its clientEventId; a Line for its grn_line_id, which is also the        *)
(* event_id of the grn.posted.v1 message sent for it.                      *)
(***************************************************************************)
EXTENDS Integers, Sequences, FiniteSetsExt

CONSTANTS Handler,        \* requests that can be in flight together
          Grn,            \* client event ids of goods receipts
          Line,           \* goods receipt lines
          Message,        \* everything that can be on erp.events
          PoLine,         \* purchase order lines
          LinesOf,        \* the lines of a receipt, in the payload's order
          PoLineOf,       \* the PO line a receipt line is for
          Qty,            \* received_qty of a receipt line
          AcceptedValue,  \* accepted_qty * unit_cost
          Ordered,        \* ordered_qty of a PO line
          Unknown,        \* receipts naming an unknown warehouse or PO line
          MaxReceipts     \* bound: requests received over a behaviour

Touches(g, l) == \E i \in DOMAIN LinesOf[g] : LinesOf[g][i] = l

ASSUME LinesAssumption ==
    /\ Grn # {} /\ Line \subseteq Message /\ Unknown \subseteq Grn
    /\ LinesOf \in [Grn -> Seq(Line)]
    /\ \A g \in Grn : LinesOf[g] # <<>>
    /\ \A l \in Line : \E g \in Grn : Touches(g, l)
    /\ \A g1, g2 \in Grn, l \in Line : Touches(g1, l) /\ Touches(g2, l) => g1 = g2
    /\ \A g \in Grn : \A i, j \in DOMAIN LinesOf[g] :
          LinesOf[g][i] = LinesOf[g][j] => i = j
ASSUME QuantitiesAssumption ==
    /\ PoLineOf \in [Line -> PoLine]
    /\ Qty \in [Line -> Nat] /\ AcceptedValue \in [Line -> Nat]
    /\ Ordered \in [PoLine -> Nat]
    /\ MaxReceipts \in Nat

VARIABLES
    grns,          \* goods_receipts.posting_status, "none" when there is no row
    received,      \* purchase_order_lines.received_qty
    topic,         \* erp.events, one tenant's partition: a Line announces itself
    grnAnswers,    \* statuses ever returned to the clients of a receipt
    grnJob,        \* what a handler is doing: see GrnJobs
    overwritten,   \* history: PO lines written on a stale read, or twice by one receipt
    grnDropped,    \* history: receipts whose handler failed while publishing
    grnRequests    \* requests received so far

grnVars == <<grns, received, topic, grnAnswers, grnJob, overwritten, grnDropped, grnRequests>>

GrnSteps == {"lookup", "read", "write", "publish"}

\* at: where the handler is; read: received_qty of the PO lines as its
\* transaction saw them; next: the receipt line to publish next; stale
\* (history): PO lines committed by others since that read.
GrnTask(step, g, seen, i, old) ==
    [at |-> step, grn |-> g, read |-> seen, next |-> i, stale |-> old]
NothingRead == [p \in PoLine |-> 0]
GrnIdle == GrnTask("idle", CHOOSE g \in Grn : TRUE, NothingRead, 1, {})
GrnJobs == [at : {"idle"} \cup GrnSteps, grn : Grn, read : [PoLine -> Nat],
            next : Nat \ {0}, stale : SUBSET PoLine]

GrnTypeOK ==
    /\ grns \in [Grn -> {"none", "PENDING", "POSTED", "NEEDS_REVIEW"}]
    /\ received \in [PoLine -> Nat]
    /\ topic \in Seq(Message)
    /\ grnAnswers \in [Grn -> SUBSET {"ACKED", "NEEDS_REVIEW"}]
    /\ grnJob \in [Handler -> GrnJobs]
    /\ overwritten \subseteq PoLine
    /\ grnDropped \subseteq Grn
    /\ grnRequests \in Nat

GrnInit ==
    /\ grns = [g \in Grn |-> "none"]
    /\ received = NothingRead
    /\ topic = <<>>
    /\ grnAnswers = [g \in Grn |-> {}]
    /\ grnJob = [h \in Handler |-> GrnIdle]
    /\ overwritten = {} /\ grnDropped = {}
    /\ grnRequests = 0

GrnAt(h, step) == grnJob[h].at = step
GrnFinish(h) == grnJob' = [grnJob EXCEPT ![h] = GrnIdle]
GrnGoto(h, step, i) ==
    grnJob' = [grnJob EXCEPT ![h] = GrnTask(step, @.grn, @.read, i, @.stale)]
\* Mutant: the client is told the row's status.
GrnRowStatus(g, status) == grnAnswers' = [grnAnswers EXCEPT ![g] = @ \cup {status}]

GrnAnswer(g, status) ==
    grnAnswers' = [grnAnswers EXCEPT ![g] = @ \cup
                     {IF status = "NEEDS_REVIEW" THEN "NEEDS_REVIEW" ELSE "ACKED"}]

\* A request for a receipt arrives: the first attempt, or a retry.
ReceiveGrn(h, g) ==
    /\ GrnAt(h, "idle")
    /\ grnRequests < MaxReceipts
    /\ grnRequests' = grnRequests + 1
    /\ grnJob' = [grnJob EXCEPT ![h] = GrnTask("lookup", g, NothingRead, 1, {})]
    /\ UNCHANGED <<grns, received, topic, grnAnswers, overwritten, grnDropped>>

\* Mutant: a known clientEventId is always acknowledged.
ReplayGrnAcked(h) ==
    LET g == grnJob[h].grn
    IN  /\ GrnAt(h, "lookup") /\ grns[g] # "none"
        /\ GrnAnswer(g, "ACKED")
        /\ GrnFinish(h)
        /\ UNCHANGED <<grns, received, topic, overwritten, grnDropped, grnRequests>>

\* The clientEventId is known: idempotent no-op.
ReplayGrn(h) ==
    LET g == grnJob[h].grn
    IN  /\ GrnAt(h, "lookup") /\ grns[g] # "none"
        /\ GrnAnswer(g, grns[g])
        /\ GrnFinish(h)
        /\ UNCHANGED <<grns, received, topic, overwritten, grnDropped, grnRequests>>

BeginGrn(h) ==
    /\ GrnAt(h, "lookup") /\ grns[grnJob[h].grn] = "none"
    /\ GrnGoto(h, "read", 1)
    /\ UNCHANGED <<grns, received, topic, grnAnswers, overwritten, grnDropped, grnRequests>>

\* NotFoundException for the warehouse or a PO line.
UnknownRow(h) ==
    /\ GrnAt(h, "read") /\ grnJob[h].grn \in Unknown
    /\ GrnFinish(h)
    /\ UNCHANGED <<grns, received, topic, grnAnswers, overwritten, grnDropped, grnRequests>>

\* The transaction reads every PO line of the receipt at once.
ReadPoLines(h) ==
    /\ GrnAt(h, "read") /\ grnJob[h].grn \notin Unknown
    /\ grnJob' = [grnJob EXCEPT ![h] = GrnTask("write", @.grn, received, 1, {})]
    /\ UNCHANGED <<grns, received, topic, grnAnswers, overwritten, grnDropped, grnRequests>>

\* The indices of the lines receipt g has for PO line p.
LinesFor(g, p) == {i \in DOMAIN LinesOf[g] : PoLineOf[LinesOf[g][i]] = p}

\* Mutant: the line alone is compared with the order.
OverOrdered(g, read) ==
    \E i \in DOMAIN LinesOf[g] : Qty[LinesOf[g][i]] > Ordered[PoLineOf[LinesOf[g][i]]]

\* Each line is compared on its own with what was read: two lines for one PO
\* line do not add up.
OverReceipt(g, read) ==
    \E i \in DOMAIN LinesOf[g] :
        LET l == LinesOf[g][i] IN read[PoLineOf[l]] + Qty[l] > Ordered[PoLineOf[l]]

\* received_qty is assigned what was read plus the line; where the receipt
\* has several lines for a PO line, the last assignment stands.
NewReceivedQty(g, read, p) == read[p] + Qty[LinesOf[g][Max(LinesFor(g, p))]]

\* The receipt, its lines and the new received_qty commit together.  Every
\* value assigned has passed OverReceipt's comparison, so the CHECK
\* received_not_over_ordered has nothing left to refuse.
AcceptGrn(h) ==
    LET g == grnJob[h].grn
        touched == {p \in PoLine : LinesFor(g, p) # {}}
        newQty == [p \in PoLine |-> IF p \in touched
                                    THEN NewReceivedQty(g, grnJob[h].read, p)
                                    ELSE received[p]]
    IN  /\ GrnAt(h, "write") /\ grns[g] = "none"
        /\ ~OverReceipt(g, grnJob[h].read)
        /\ grns' = [grns EXCEPT ![g] = "PENDING"]
        /\ received' = newQty
        /\ overwritten' = overwritten \cup (touched \cap grnJob[h].stale)
                            \cup {p \in touched : \E i, j \in LinesFor(g, p) : i # j}
        /\ grnJob' = [k \in Handler |->
              LET j == grnJob[k]
              IN  IF k = h THEN GrnTask("publish", g, j.read, 1, j.stale)
                  ELSE IF j.at = "write"
                       THEN GrnTask(j.at, j.grn, j.read, j.next, j.stale \cup touched)
                       ELSE j]
        /\ UNCHANGED <<topic, grnAnswers, grnDropped, grnRequests>>

\* Over-receipt: routed to Variance Review, the PO lines stay as they are.
ParkGrn(h) ==
    LET g == grnJob[h].grn
    IN  /\ GrnAt(h, "write") /\ grns[g] = "none"
        /\ OverReceipt(g, grnJob[h].read)
        /\ grns' = [grns EXCEPT ![g] = "NEEDS_REVIEW"]
        /\ GrnAnswer(g, "NEEDS_REVIEW")
        /\ GrnFinish(h)
        /\ UNCHANGED <<received, topic, overwritten, grnDropped, grnRequests>>

\* The clientEventId was committed since the lookup: the INSERT fails.
RollBackGrn(h) ==
    /\ GrnAt(h, "write") /\ grns[grnJob[h].grn] # "none"
    /\ GrnFinish(h)
    /\ UNCHANGED <<grns, received, topic, grnAnswers, overwritten, grnDropped, grnRequests>>

\* Mutant: the last line is forgotten.
MoreLinesButLast(h) == grnJob[h].next < Len(LinesOf[grnJob[h].grn])

MoreLines(h) == grnJob[h].next <= Len(LinesOf[grnJob[h].grn])
NextLine(h) == LinesOf[grnJob[h].grn][grnJob[h].next]

\* kafka.publish, awaited line by line; a line of no value is skipped.
AppendLine(l) == topic' = IF AcceptedValue[l] > 0 THEN Append(topic, l) ELSE topic

PublishLine(h) ==
    /\ GrnAt(h, "publish") /\ MoreLines(h)
    /\ AppendLine(NextLine(h))
    /\ GrnGoto(h, "publish", grnJob[h].next + 1)
    /\ UNCHANGED <<grns, received, grnAnswers, overwritten, grnDropped, grnRequests>>

\* Mutant: the client is acknowledged but posting_status is not updated.
MarkNothing(h) ==
    /\ GrnAt(h, "publish") /\ ~MoreLines(h)
    /\ GrnAnswer(grnJob[h].grn, "POSTED")
    /\ GrnFinish(h)
    /\ UNCHANGED <<grns, received, topic, overwritten, grnDropped, grnRequests>>

MarkPosted(h) ==
    LET g == grnJob[h].grn
    IN  /\ GrnAt(h, "publish") /\ ~MoreLines(h)
        /\ grns' = [grns EXCEPT ![g] = "POSTED"]
        /\ GrnAnswer(g, "POSTED")
        /\ GrnFinish(h)
        /\ UNCHANGED <<received, topic, overwritten, grnDropped, grnRequests>>

\* The connection, the process or the broker fails.  An open transaction
\* rolls back; a committed receipt stays PENDING, and nobody resumes it.
FailGrn(h) ==
    /\ ~GrnAt(h, "idle")
    /\ grnDropped' = IF GrnAt(h, "publish") THEN grnDropped \cup {grnJob[h].grn}
                                            ELSE grnDropped
    /\ GrnFinish(h)
    /\ UNCHANGED <<grns, received, topic, grnAnswers, overwritten, grnRequests>>

\* The broker stored the line but its answer was lost.
LineUnacknowledged(h) ==
    /\ GrnAt(h, "publish") /\ MoreLines(h) /\ AcceptedValue[NextLine(h)] > 0
    /\ AppendLine(NextLine(h))
    /\ grnDropped' = grnDropped \cup {grnJob[h].grn}
    /\ GrnFinish(h)
    /\ UNCHANGED <<grns, received, grnAnswers, overwritten, grnRequests>>

GrnStep(h) ==
    \/ ReplayGrn(h) \/ BeginGrn(h) \/ UnknownRow(h) \/ ReadPoLines(h)
    \/ AcceptGrn(h) \/ ParkGrn(h) \/ RollBackGrn(h)
    \/ PublishLine(h) \/ MarkPosted(h)

GrnNext ==
    \E h \in Handler :
        \/ \E g \in Grn : ReceiveGrn(h, g)
        \/ GrnStep(h)
        \/ FailGrn(h)
        \/ LineUnacknowledged(h)

GrnSpec == GrnInit /\ [][GrnNext]_grnVars
\* A handler that does not fail goes on.
GrnFairSpec == GrnSpec /\ \A h \in Handler : WF_grnVars(GrnStep(h))

--------------------------------------------------------------------------------
(***************************************************************************)
(* Properties.                                                             *)
(***************************************************************************)

Applied(g) == grns[g] \in {"PENDING", "POSTED"}

\* What receipt g brings in for PO line p, and what the receipts that were
\* let through brought in.
QtyFor(g, p) ==
    SumFunctionOnSet([i \in DOMAIN LinesOf[g] |-> Qty[LinesOf[g][i]]], LinesFor(g, p))
Delivered(p) ==
    SumFunctionOnSet([g \in Grn |-> QtyFor(g, p)], {g \in Grn : Applied(g)})

\* received_qty is what the accepted receipts delivered, never beyond the
\* order, except on PO lines two of them wrote from the same base: the check
\* of createGoodsReceipt is right wherever its read was current.
ReceivedMatchesReceipts ==
    \A p \in PoLine : \/ received[p] = Delivered(p) /\ Delivered(p) <= Ordered[p]
                      \/ p \in overwritten

\* How often topic announces line l.
Times(l) == Cardinality({i \in DOMAIN topic : topic[i] = l})
HasEvents(g, upto) ==
    \A i \in DOMAIN LinesOf[g] :
        Times(LinesOf[g][i]) = IF i <= upto /\ AcceptedValue[LinesOf[g][i]] > 0 THEN 1 ELSE 0

\* A receipt under review or unknown has announced nothing; a posted one has
\* announced each line of value exactly once; a pending one has announced
\* exactly the lines before the point where its only handler is, or where
\* that handler failed.
AnnouncedLineByLine ==
    \A g \in Grn :
        CASE ~Applied(g) -> HasEvents(g, 0)
          [] grns[g] = "POSTED" -> HasEvents(g, Len(LinesOf[g])) /\ g \notin grnDropped
          [] grns[g] = "PENDING" /\ g \in grnDropped ->
                \E n \in 0 .. Len(LinesOf[g]) : HasEvents(g, n)
          [] OTHER -> \E h \in Handler :
                /\ GrnAt(h, "publish") /\ grnJob[h].grn = g
                /\ HasEvents(g, grnJob[h].next - 1)
                /\ \A k \in Handler : GrnAt(k, "publish") /\ grnJob[k].grn = g => k = h

\* Retries never hear two outcomes of one receipt.
OneAnswerPerGrn ==
    \A g \in Grn : grnAnswers[g] \subseteq
        CASE grns[g] = "none" -> {}
          [] grns[g] = "NEEDS_REVIEW" -> {"NEEDS_REVIEW"}
          [] OTHER -> {"ACKED"}

\* A pending receipt is posted, unless its handler failed.
PendingIsPosted ==
    \A g \in Grn : grns[g] = "PENDING" ~> (grns[g] = "POSTED" \/ g \in grnDropped)

\* What migration 004 says of its CHECK (004_procurement.sql 98-99):
\* over-receipt is prevented at the DB layer as a hard invariant.
NeverOverReceived == \A p \in PoLine : Delivered(p) <= Ordered[p]
================================================================================
