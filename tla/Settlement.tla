------------------------------ MODULE Settlement ------------------------------
(***************************************************************************)
(* accounting-service: vendor bills raised from grn.posted.v1, customer    *)
(* invoices raised from sales.order_fulfilled(_direct).v1, and the         *)
(* payments clerks record against both.                                    *)
(*                                                                         *)
(* One consumer reads one tenant's partition of erp.events in order.  Its  *)
(* place in the partition is kept by the broker: a restart resumes at the  *)
(* last committed offset and delivers again what came after.  A payment    *)
(* request reads the document and writes it back in one READ COMMITTED     *)
(* transaction that others may overtake.                                   *)
(***************************************************************************)
EXTENDS Integers, Sequences, FiniteSetsExt

CONSTANTS Clerk,         \* payment requests that can be in flight together
          Document,      \* vendor bills (one per GRN) and customer invoices (one per order)
          Invoice,       \* the documents that are invoices
          Message,       \* everything that can be on erp.events
          Billable,      \* messages that add to a document
          DocumentOf,    \* the document a billable message belongs to
          Worth,         \* accepted_value of a GRN line, order_value of an order
          Orphan,        \* billable messages whose PO line or order is not found
          Amount,        \* payment amounts
          MaxPayments,   \* bound: payments started over a behaviour
          MaxRestarts    \* bound: consumer restarts over a behaviour

\* What the constants must satisfy; a module that gives them values assumes it.
DocumentsWellFormed ==
    /\ Document # {} /\ Invoice \subseteq Document
    /\ Billable \subseteq Message /\ Orphan \subseteq Billable
    /\ DocumentOf \in [Billable -> Document]
    /\ Worth \in [Billable -> Nat]
    /\ \A m1, m2 \in Billable :
          DocumentOf[m1] = DocumentOf[m2] /\ DocumentOf[m1] \in Invoice => m1 = m2
PaymentsWellFormed ==
    Amount \subseteq Nat \ {0} /\ MaxPayments \in Nat /\ MaxRestarts \in Nat

VARIABLES
    topic,        \* erp.events, one tenant's partition
    position,     \* messages the consumer has been through
    committed,    \* the consumer group's committed offset
    applied,      \* source_event_ids with a bill line or an invoice
    total,        \* total_amount
    paid,         \* amount_paid
    status,       \* bill_status, invoice_status; "none" when there is no row
    paymentRows,  \* sum of the payment rows of a document
    announced,    \* sum of the payment events of a document sent to erp.events
    pay,          \* what a payment request is doing: see PayJobs
    skipped,      \* history: messages whose handler threw
    outrun,       \* history: documents paid on a read that was overtaken
    grown,        \* history: bills that gained a line after being PAID
    unannounced,  \* history: sum of payments whose request failed before its event
    payments, restarts     \* bounded: payments started, consumer restarts

consumerVars == <<position, committed, applied, skipped, grown, restarts>>
paymentVars == <<paid, paymentRows, announced, outrun, unannounced, payments>>
settlementVars == <<topic, total, status, pay, consumerVars, paymentVars>>

\* at: where the request is; due, settled: total_amount and amount_paid as
\* its transaction read them; stale (history): another commit changed them.
PayTask(step, d, amt, t, p, old) ==
    [at |-> step, doc |-> d, amount |-> amt, due |-> t, settled |-> p, stale |-> old]
PayIdle == PayTask("idle", CHOOSE d \in Document : TRUE, 0, 0, 0, FALSE)
PayJobs == [at : {"idle", "write", "publish"}, doc : Document, amount : Nat,
            due : Nat, settled : Nat, stale : BOOLEAN]

SettlementTypeOK ==
    /\ topic \in Seq(Message)
    /\ committed \in Nat /\ position \in committed .. Len(topic)
    /\ applied \subseteq Billable /\ skipped \subseteq Billable
    /\ total \in [Document -> Nat] /\ paid \in [Document -> Nat]
    /\ status \in [Document -> {"none", "OPEN", "PARTIALLY_PAID", "PAID"}]
    /\ paymentRows \in [Document -> Nat] /\ announced \in [Document -> Nat]
    /\ unannounced \in [Document -> Nat]
    /\ pay \in [Clerk -> PayJobs]
    /\ outrun \subseteq Document /\ grown \subseteq Document
    /\ payments \in Nat /\ restarts \in Nat

NoMoney == [d \in Document |-> 0]

SettlementInit ==
    /\ topic = <<>> /\ position = 0 /\ committed = 0
    /\ applied = {} /\ skipped = {}
    /\ total = NoMoney /\ paid = NoMoney
    /\ status = [d \in Document |-> "none"]
    /\ paymentRows = NoMoney /\ announced = NoMoney /\ unannounced = NoMoney
    /\ pay = [c \in Clerk |-> PayIdle]
    /\ outrun = {} /\ grown = {}
    /\ payments = 0 /\ restarts = 0

PayAt(c, step) == pay[c].at = step

\* A commit on document d makes every other open read of d outdated.
Outdate(d, c, mine) ==
    pay' = [k \in Clerk |->
              LET j == pay[k]
              IN  IF k = c THEN mine
                  ELSE IF j.at = "write" /\ j.doc = d
                       THEN PayTask(j.at, j.doc, j.amount, j.due, j.settled, TRUE)
                       ELSE j]

(***************************************************************************)
(* The consumer (kafka-consumer.service.ts) and its two handlers.          *)
(***************************************************************************)
Pending == position < Len(topic)
Current == topic[position + 1]
Advance == position' = position + 1

\* Mutant: no idempotency check on source_event_id.
AddBillLineAgain ==
    LET d == DocumentOf[Current]
    IN  /\ Pending /\ Current \in Billable \ Orphan /\ d \notin Invoice
        /\ applied' = applied \cup {Current}
        /\ total' = [total EXCEPT ![d] = @ + Worth[Current]]
        /\ status' = IF status[d] = "none" THEN [status EXCEPT ![d] = "OPEN"] ELSE status
        /\ Advance
        /\ UNCHANGED <<topic, committed, skipped, grown, restarts, pay, paymentVars>>

\* Mutant: only the first line of a receipt reaches the total.
AddFirstBillLine ==
    LET d == DocumentOf[Current]
    IN  /\ Pending /\ Current \in Billable \ (applied \cup Orphan) /\ d \notin Invoice
        /\ applied' = applied \cup {Current}
        /\ total' = IF status[d] = "none" THEN [total EXCEPT ![d] = Worth[Current]] ELSE total
        /\ status' = IF status[d] = "none" THEN [status EXCEPT ![d] = "OPEN"] ELSE status
        /\ Advance
        /\ UNCHANGED <<topic, committed, skipped, grown, restarts, pay, paymentVars>>

\* handleGrnPosted: the bill is created by its first line, and the line, the
\* bill and the increment of its total commit together.
AddBillLine ==
    LET d == DocumentOf[Current]
    IN  /\ Pending /\ Current \in Billable \ (applied \cup Orphan) /\ d \notin Invoice
        /\ applied' = applied \cup {Current}
        /\ total' = [total EXCEPT ![d] = @ + Worth[Current]]
        /\ status' = IF status[d] = "none" THEN [status EXCEPT ![d] = "OPEN"] ELSE status
        /\ grown' = IF status[d] = "PAID" THEN grown \cup {d} ELSE grown
        /\ pay' = [k \in Clerk |->
                     IF PayAt(k, "write") /\ pay[k].doc = d
                     THEN PayTask("write", d, pay[k].amount, pay[k].due, pay[k].settled, TRUE)
                     ELSE pay[k]]
        /\ Advance
        /\ UNCHANGED <<topic, committed, skipped, restarts, paymentVars>>

\* handleSalesOrderFulfilled for an order with a customer.
RaiseInvoice ==
    LET d == DocumentOf[Current]
    IN  /\ Pending /\ Current \in Billable \ (applied \cup Orphan) /\ d \in Invoice
        /\ status[d] = "none"
        /\ applied' = applied \cup {Current}
        /\ total' = [total EXCEPT ![d] = Worth[Current]]
        /\ status' = [status EXCEPT ![d] = "OPEN"]
        /\ Advance
        /\ UNCHANGED <<topic, committed, skipped, grown, restarts, pay, paymentVars>>

\* Mutant: the switch on event_type falls through for a billable message.
PassOverAll ==
    /\ Pending /\ Advance
    /\ UNCHANGED <<topic, committed, applied, skipped, grown, restarts,
                   total, status, pay, paymentVars>>

\* Already applied, an order without a customer, or another event type.
PassOver ==
    /\ Pending /\ Current \notin Billable \ applied
    /\ Advance
    /\ UNCHANGED <<topic, committed, applied, skipped, grown, restarts,
                   total, status, pay, paymentVars>>

\* The handler throws (a row is not found, the database does not answer):
\* eachMessage logs the error and the consumer moves on.
SkipFailed ==
    /\ Pending /\ Current \in Billable \ applied
    /\ skipped' = skipped \cup {Current}
    /\ Advance
    /\ UNCHANGED <<topic, committed, applied, grown, restarts,
                   total, status, pay, paymentVars>>

CommitOffset ==
    /\ committed < position
    /\ committed' = position
    /\ UNCHANGED <<topic, position, applied, skipped, grown, restarts,
                   total, status, pay, paymentVars>>

\* Mutant: the group starts over from the beginning of the partition.
RestartFromBeginning ==
    /\ restarts < MaxRestarts
    /\ restarts' = restarts + 1
    /\ position' = 0
    /\ UNCHANGED <<topic, committed, applied, skipped, grown,
                   total, status, pay, paymentVars>>

\* The consumer restarts, or its partition moves to another instance.
RestartConsumer ==
    /\ restarts < MaxRestarts
    /\ restarts' = restarts + 1
    /\ position' = committed
    /\ UNCHANGED <<topic, committed, applied, skipped, grown,
                   total, status, pay, paymentVars>>

Consume == AddBillLine \/ RaiseInvoice \/ PassOver \/ (SkipFailed /\ Current \in Orphan)

(***************************************************************************)
(* recordPayment of a bill and of an invoice.  An unauthorized request, an *)
(* unknown document and a payment beyond the outstanding balance are       *)
(* refused and leave everything as it is.                                  *)
(***************************************************************************)
\* Mutant: the payment is compared with the total, not with the balance.
TotalOf(d) == total[d]

Outstanding(d) == total[d] - paid[d]

\* The transaction reads the document and the balance allows the payment.
BeginPayment(c, d, amt) ==
    /\ PayAt(c, "idle") /\ payments < MaxPayments
    /\ status[d] # "none" /\ amt <= Outstanding(d)
    /\ payments' = payments + 1
    /\ pay' = [pay EXCEPT ![c] = PayTask("write", d, amt, total[d], paid[d], FALSE)]
    /\ UNCHANGED <<topic, total, status, consumerVars,
                   paid, paymentRows, announced, outrun, unannounced>>

\* Mutant: off by one, a settled document is not PAID.
StatusAfterStrict(t, p) == IF p > t THEN "PAID" ELSE "PARTIALLY_PAID"

StatusAfter(t, p) == IF p >= t THEN "PAID" ELSE "PARTIALLY_PAID"

\* The payment row and the document, with the amount computed from the read.
CommitPayment(c) ==
    LET j == pay[c]
        newAmountPaid == j.settled + j.amount
    IN  /\ PayAt(c, "write")
        /\ paymentRows' = [paymentRows EXCEPT ![j.doc] = @ + j.amount]
        /\ paid' = [paid EXCEPT ![j.doc] = newAmountPaid]
        /\ status' = [status EXCEPT ![j.doc] = StatusAfter(j.due, newAmountPaid)]
        /\ outrun' = IF j.stale THEN outrun \cup {j.doc} ELSE outrun
        /\ Outdate(j.doc, c, PayTask("publish", j.doc, j.amount, j.due, j.settled, j.stale))
        /\ UNCHANGED <<topic, total, consumerVars, announced, unannounced, payments>>

\* bill_paid.v1 or invoice_payment_received.v1, after the commit.
PublishPayment(c) ==
    /\ PayAt(c, "publish")
    /\ announced' = [announced EXCEPT ![pay[c].doc] = @ + pay[c].amount]
    /\ pay' = [pay EXCEPT ![c] = PayIdle]
    /\ UNCHANGED <<topic, total, status, consumerVars,
                   paid, paymentRows, outrun, unannounced, payments>>

\* The request dies: an open transaction rolls back, a committed payment
\* stays without its event.
FailPayment(c) ==
    /\ ~PayAt(c, "idle")
    /\ unannounced' = IF PayAt(c, "publish")
                      THEN [unannounced EXCEPT ![pay[c].doc] = @ + pay[c].amount]
                      ELSE unannounced
    /\ pay' = [pay EXCEPT ![c] = PayIdle]
    /\ UNCHANGED <<topic, total, status, consumerVars,
                   paid, paymentRows, announced, outrun, payments>>

SettlementNext ==
    \/ AddBillLine \/ RaiseInvoice \/ PassOver \/ SkipFailed
    \/ CommitOffset \/ RestartConsumer
    \/ \E c \in Clerk : \/ \E d \in Document, amt \in Amount : BeginPayment(c, d, amt)
                        \/ CommitPayment(c) \/ PublishPayment(c) \/ FailPayment(c)

--------------------------------------------------------------------------------
(***************************************************************************)
(* Properties.                                                             *)
(***************************************************************************)

\* However often a message is delivered, it counts once: the total of a
\* document is the worth of the messages applied to it, and a message the
\* consumer is past was applied, or its handler threw, or bills nothing.
CountedOnce ==
    /\ \A d \in Document :
          total[d] = SumFunctionOnSet(Worth, {m \in applied : DocumentOf[m] = d})
    /\ \A i \in 1 .. position : topic[i] \in Billable => topic[i] \in applied \cup skipped

\* Every payment recorded was announced to the ledger once, or its request
\* still owes the announcement or died with it; and a document's amount paid
\* is the sum of its payments and within its total, except where a payment
\* was written over a read another commit outdated.
PaymentsAddUp ==
    \A d \in Document :
        /\ paymentRows[d] = announced[d] + unannounced[d]
             + SumFunctionOnSet([c \in Clerk |-> pay[c].amount],
                                {c \in Clerk : PayAt(c, "publish") /\ pay[c].doc = d})
        /\ \/ paid[d] = paymentRows[d] /\ paymentRows[d] <= total[d]
           \/ d \in outrun

\* The status tells the balance, except on documents paid on an outdated
\* read and on bills that gained a line after they were settled.
StatusTellsBalance ==
    \A d \in Document \ (outrun \cup grown) :
        /\ status[d] = "PAID" => paid[d] = total[d]
        /\ status[d] = "PARTIALLY_PAID" => 0 < paid[d] /\ paid[d] < total[d]
        /\ status[d] \in {"none", "OPEN"} => paid[d] = 0
================================================================================
