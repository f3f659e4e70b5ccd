----------------------------- MODULE ProcureToPay -----------------------------
(***************************************************************************)
(* From goods received to bills paid: procurement-service and              *)
(* accounting-service joined by erp.events.  A goods receipt is announced  *)
(* line by line; the consumer of accounting-service turns the lines of one *)
(* receipt into one vendor bill, and the orders sales-service announces on *)
(* the same partition into invoices; clerks pay both.                      *)
(***************************************************************************)
EXTENDS GoodsReceipt

CONSTANTS Clerk, Amount, MaxPayments, MaxRestarts,
          CustomerOrder,   \* announced orders with a customer: each gets an invoice
          OrderWorth       \* their order_value

\* What a document is here: a receipt's bill or an order's invoice.
GrnOf(l) == CHOOSE g \in Grn : Touches(g, l)
Document == Grn \cup CustomerOrder
Invoice == CustomerOrder
Billable == Line \cup CustomerOrder
DocumentOf == [m \in Billable |-> IF m \in Line THEN GrnOf(m) ELSE m]
Worth == [m \in Billable |-> IF m \in Line THEN AcceptedValue[m] ELSE OrderWorth[m]]
Orphan == {}

VARIABLES position, committed, applied, total, paid, status, paymentRows, announced,
          pay, skipped, outrun, grown, unannounced, payments, restarts

INSTANCE Settlement

ASSUME PipelineAssumption ==
    DocumentsWellFormed /\ PaymentsWellFormed /\ Grn \cap CustomerOrder = {}

receiptVars == <<grns, received, grnAnswers, grnJob, overwritten, grnDropped, grnRequests>>
billVars == <<position, committed, applied, total, paid, status, paymentRows, announced,
              pay, skipped, outrun, grown, unannounced, payments, restarts>>
pipelineVars == <<topic, receiptVars, billVars>>

\* sales-service (and anyone else on the topic) announces something, once.
OthersPublish(m) ==
    /\ \A i \in DOMAIN topic : topic[i] # m
    /\ topic' = Append(topic, m)
    /\ UNCHANGED <<receiptVars, billVars>>

PipelineInit == GrnInit /\ SettlementInit

PipelineNext ==
    \/ GrnNext /\ UNCHANGED billVars
    \/ SettlementNext /\ UNCHANGED receiptVars
    \/ \E m \in Message \ Line : OthersPublish(m)

\* The handlers go on while they do not fail, and the consumer keeps polling.
PipelineSpec ==
    /\ PipelineInit /\ [][PipelineNext]_pipelineVars
    /\ \A h \in Handler : WF_pipelineVars(GrnStep(h) /\ UNCHANGED billVars)
    /\ WF_pipelineVars(Consume /\ UNCHANGED receiptVars)

--------------------------------------------------------------------------------
(***************************************************************************)
(* Properties of the two services together.                                *)
(***************************************************************************)
ValuedLines(g) == {l \in Line : Touches(g, l) /\ AcceptedValue[l] > 0}

\* Nothing is billed for goods under review, and every line of value of a
\* posted receipt is on its bill, ahead of the consumer, or one whose
\* handler threw: the broker and the restarts lose none and add none.
BillsFollowReceipts ==
    \A g \in Grn :
        /\ ~Applied(g) => status[g] = "none"
        /\ grns[g] = "POSTED" =>
              ValuedLines(g) \subseteq applied \cup skipped \cup
                  {topic[i] : i \in position + 1 .. Len(topic)}

\* A posted receipt is billed in full, unless the handler of one of its
\* lines threw.
ReceiptIsBilled ==
    \A g \in Grn : grns[g] = "POSTED" ~>
        \/ total[g] = SumFunctionOnSet(AcceptedValue, ValuedLines(g))
        \/ ValuedLines(g) \cap skipped # {}
================================================================================
