------------------------- MODULE ProcureToPay_proofs -------------------------
(***************************************************************************)
(* Proofs about ProcureToPay: the consumer and the clerks of Settlement,   *)
(* and the two services together.  A step is one of GoodsReceipt's or a    *)
(* message of others, which leave the bills alone, or one of Settlement's, *)
(* which leaves the receipts and the topic alone.                          *)
(***************************************************************************)
EXTENDS ProcureToPay, GoodsReceipt_proofs

--------------------------------------------------------------------------------
(* The constants, and the two kinds of steps. *)

LEMMA BillableFacts ==
    /\ \A m \in Billable : DocumentOf[m] \in Document /\ Worth[m] \in Nat
    /\ Billable \subseteq Message
    /\ \A m1, m2 \in Billable :
          DocumentOf[m1] = DocumentOf[m2] /\ DocumentOf[m1] \in Invoice => m1 = m2
    /\ Amount \subseteq Nat \ {0} /\ Document # {} /\ Invoice \subseteq Document
BY PipelineAssumption DEF DocumentsWellFormed, PaymentsWellFormed

TopicGrew == topic' = topic \/ \E m \in Message : topic' = Append(topic, m)

\* GoodsReceipt's steps do nothing to the topic but append to it.
LEMMA ReceiptsAppend ==
    ASSUME GrnTypeOK, [GrnNext]_grnVars
    PROVE  TopicGrew
<1>1. ASSUME NEW h \in Handler, GrnAt(h, "publish"), MoreLines(h), AppendLine(NextLine(h))
      PROVE  TopicGrew
  <2>1. grnJob[h].grn \in Grn /\ grnJob[h].next \in Nat \ {0}
    BY TaskFields DEF GrnTypeOK
  <2>2. NextLine(h) \in Line
    BY <1>1, <2>1, LinesOfGrn DEF MoreLines, NextLine
  <2>3. NextLine(h) \in Message
    BY <2>2, LinesAssumption
  <2>q. QED
    BY <1>1, <2>3 DEF AppendLine, TopicGrew
<1>2. CASE UNCHANGED topic
  BY <1>2 DEF TopicGrew
<1>q. QED
  BY <1>1, <1>2
  DEF GrnNext, GrnStep, ReceiveGrn, ReplayGrn, BeginGrn, UnknownRow, ReadPoLines, AcceptGrn,
      ParkGrn, RollBackGrn, PublishLine, MarkPosted, FailGrn, LineUnacknowledged, grnVars

\* Settlement's steps leave the receipts and the topic alone.
LEMMA SettlementFrame ==
    ASSUME SettlementNext, UNCHANGED receiptVars
    PROVE  UNCHANGED grnVars
<1>1. UNCHANGED topic
  BY DEF SettlementNext, AddBillLine, RaiseInvoice, PassOver, SkipFailed, CommitOffset,
         RestartConsumer, BeginPayment, CommitPayment, PublishPayment, FailPayment
<1>q. QED
  BY <1>1 DEF receiptVars, grnVars

LEMMA PipelineCases ==
    ASSUME GrnTypeOK, [PipelineNext]_pipelineVars
    PROVE  \/ TopicGrew /\ UNCHANGED billVars
           \/ SettlementNext /\ UNCHANGED grnVars
<1>1. CASE GrnNext /\ UNCHANGED billVars
  BY <1>1, ReceiptsAppend
<1>2. CASE SettlementNext /\ UNCHANGED receiptVars
  BY <1>2, SettlementFrame
<1>3. ASSUME NEW m \in Message \ Line, OthersPublish(m)
      PROVE  TopicGrew /\ UNCHANGED billVars
  BY <1>3 DEF OthersPublish, TopicGrew, billVars
<1>4. CASE UNCHANGED pipelineVars
  BY <1>4 DEF pipelineVars, TopicGrew, billVars
<1>q. QED
  BY <1>1, <1>2, <1>3, <1>4 DEF PipelineNext

\* What GoodsReceipt's own proofs need of a step: it is one of its own, or
\* others append to the topic.
LEMMA ReceiptCases ==
    ASSUME [PipelineNext]_pipelineVars
    PROVE  \/ [GrnNext]_grnVars
           \/ \E m \in Message \ Line : topic' = Append(topic, m) /\ UNCHANGED receiptVars
<1>1. CASE GrnNext
  BY <1>1
<1>2. CASE SettlementNext /\ UNCHANGED receiptVars
  BY <1>2, SettlementFrame
<1>3. ASSUME NEW m \in Message \ Line, OthersPublish(m)
      PROVE  topic' = Append(topic, m) /\ UNCHANGED receiptVars
  BY <1>3 DEF OthersPublish
<1>4. CASE UNCHANGED pipelineVars
  BY <1>4 DEF pipelineVars, receiptVars, grnVars
<1>q. QED
  BY <1>1, <1>2, <1>3, <1>4 DEF PipelineNext

--------------------------------------------------------------------------------
(* Type correctness. *)

LEMMA PayTaskFields ==
    ASSUME NEW a, NEW d, NEW amt, NEW t, NEW p, NEW old
    PROVE  /\ PayTask(a, d, amt, t, p, old).at = a /\ PayTask(a, d, amt, t, p, old).doc = d
           /\ PayTask(a, d, amt, t, p, old).amount = amt
           /\ PayTask(a, d, amt, t, p, old).due = t
           /\ PayTask(a, d, amt, t, p, old).settled = p
           /\ PayTask(a, d, amt, t, p, old).stale = old
BY DEF PayTask

LEMMA PayJobFields ==
    ASSUME NEW j \in PayJobs
    PROVE  /\ j.at \in {"idle", "write", "publish"} /\ j.doc \in Document /\ j.amount \in Nat
           /\ j.due \in Nat /\ j.settled \in Nat /\ j.stale \in BOOLEAN
BY DEF PayJobs

LEMMA PayIdleType == PayIdle \in PayJobs /\ PayIdle.at = "idle"
<1>1. (CHOOSE d \in Document : TRUE) \in Document
  BY BillableFacts
<1>q. QED
  BY <1>1 DEF PayIdle, PayTask, PayJobs


\* What another commit on document d leaves of a request that has read d: all
\* but its freshness.
Outdated(j, d) == IF j.at = "write" /\ j.doc = d
                  THEN PayTask("write", d, j.amount, j.due, j.settled, TRUE) ELSE j

LEMMA OutdatedJob ==
    ASSUME NEW j \in PayJobs, NEW d, NEW new, new = Outdated(j, d)
    PROVE  /\ new \in PayJobs /\ new.at = j.at /\ new.doc = j.doc
           /\ new.amount = j.amount /\ new.due = j.due /\ new.settled = j.settled
           /\ j.at = "write" /\ j.doc = d => new.stale
           /\ ~(j.at = "write" /\ j.doc = d) => new = j
<1>1. CASE j.at = "write" /\ j.doc = d
  <2>1. PayTask("write", d, j.amount, j.due, j.settled, TRUE) \in PayJobs
    BY <1>1, PayJobFields DEF PayTask, PayJobs
  <2> DEFINE t == PayTask("write", d, j.amount, j.due, j.settled, TRUE)
  <2>2. /\ t.at = "write" /\ t.doc = d /\ t.amount = j.amount /\ t.due = j.due
        /\ t.settled = j.settled /\ t.stale = TRUE
    BY DEF PayTask
  <2>3. Outdated(j, d) = t
    BY <1>1 DEF Outdated
  <2> HIDE DEF t
  <2>q. QED
    BY <1>1, <2>1, <2>2, <2>3 DEF t
<1>2. CASE ~(j.at = "write" /\ j.doc = d)
  BY <1>2 DEF Outdated
<1>q. QED
  BY <1>1, <1>2

PayType == pay \in [Clerk -> PayJobs]

\* How each step leaves the requests.
LEMMA BillLineJobs ==
    ASSUME PayType, AddBillLine
    PROVE  PayType' /\ \A k \in Clerk : pay'[k] = Outdated(pay[k], DocumentOf[Current])
<1>1. \A k \in Clerk : pay[k] \in PayJobs
  BY DEF PayType
<1>2. pay' = [k \in Clerk |-> Outdated(pay[k], DocumentOf[Current])]
  BY DEF AddBillLine, PayAt, Outdated
<1>3. \A k \in Clerk : Outdated(pay[k], DocumentOf[Current]) \in PayJobs
  BY <1>1, OutdatedJob
<1>q. QED
  BY <1>2, <1>3 DEF PayType

LEMMA BeginJobs ==
    ASSUME PayType, total \in [Document -> Nat], paid \in [Document -> Nat],
           NEW c \in Clerk, NEW d \in Document, NEW amt \in Amount, BeginPayment(c, d, amt)
    PROVE  /\ PayType' /\ \A k \in Clerk \ {c} : pay'[k] = pay[k]
           /\ pay'[c].at = "write" /\ pay'[c].doc = d /\ pay'[c].amount = amt
           /\ pay'[c].due = total[d] /\ pay'[c].settled = paid[d] /\ pay'[c].stale = FALSE
<1> DEFINE t == PayTask("write", d, amt, total[d], paid[d], FALSE)
<1>1. total[d] \in Nat /\ paid[d] \in Nat /\ amt \in Nat
  BY BillableFacts
<1>2. t \in PayJobs
  BY <1>1 DEF PayTask, PayJobs
<1>3. /\ t.at = "write" /\ t.doc = d /\ t.amount = amt /\ t.due = total[d]
      /\ t.settled = paid[d] /\ t.stale = FALSE
  BY DEF PayTask
<1>4. pay' = [pay EXCEPT ![c] = t]
  BY DEF BeginPayment
<1> HIDE DEF t
<1>q. QED
  BY <1>2, <1>3, <1>4 DEF PayType

LEMMA CommitJobs ==
    ASSUME PayType, NEW c \in Clerk, CommitPayment(c)
    PROVE  /\ PayType' /\ \A k \in Clerk \ {c} : pay'[k] = Outdated(pay[k], pay[c].doc)
           /\ pay'[c].at = "publish" /\ pay'[c].doc = pay[c].doc
           /\ pay'[c].amount = pay[c].amount
<1> DEFINE j == pay[c]
           t == PayTask("publish", j.doc, j.amount, j.due, j.settled, j.stale)
<1>1. \A k \in Clerk : pay[k] \in PayJobs
  BY DEF PayType
<1>2. t \in PayJobs
  BY <1>1, PayJobFields DEF PayTask, PayJobs
<1>3. t.at = "publish" /\ t.doc = j.doc /\ t.amount = j.amount
  BY PayTaskFields
<1>4. pay' = [k \in Clerk |-> IF k = c THEN t ELSE
                IF pay[k].at = "write" /\ pay[k].doc = j.doc
                THEN PayTask(pay[k].at, pay[k].doc, pay[k].amount, pay[k].due, pay[k].settled, TRUE)
                ELSE pay[k]]
  BY DEF CommitPayment, Outdate
<1> HIDE DEF t
<1>5. pay' = [k \in Clerk |-> IF k = c THEN t ELSE Outdated(pay[k], j.doc)]
  BY <1>4 DEF Outdated
<1>6. \A k \in Clerk : Outdated(pay[k], j.doc) \in PayJobs
  BY <1>1, OutdatedJob
<1>q. QED
  BY <1>2, <1>3, <1>5, <1>6 DEF PayType

LEMMA DoneJobs ==
    ASSUME PayType, NEW c \in Clerk, PublishPayment(c) \/ FailPayment(c)
    PROVE  PayType' /\ pay'[c].at = "idle" /\ \A k \in Clerk \ {c} : pay'[k] = pay[k]
BY PayIdleType DEF PublishPayment, FailPayment, PayType

\* What the consumer reads is a message.
LEMMA CurrentIsMessage ==
    ASSUME SettlementTypeOK, Pending
    PROVE  /\ Current \in Message /\ position \in Nat /\ Len(topic) \in Nat
           /\ position + 1 \in 1 .. Len(topic)
<1>1. position \in Nat /\ Len(topic) \in Nat /\ topic \in Seq(Message) /\ position < Len(topic)
  BY LenProperties DEF SettlementTypeOK, Pending
<1>q. QED
  BY <1>1, ElementOfSeq DEF Current

\* An amount more in the books of one document.
LEMMA OneMore ==
    ASSUME NEW f \in [Document -> Nat], NEW d \in Document, NEW n \in Nat, NEW g,
           g = [f EXCEPT ![d] = @ + n]
    PROVE  /\ g \in [Document -> Nat] /\ g[d] = f[d] + n /\ f[d] \in Nat
           /\ \A e \in Document \ {d} : g[e] = f[e]
OBVIOUS

LEMMA SettlementTypeStep ==
    ASSUME GrnTypeOK, SettlementTypeOK, [PipelineNext]_pipelineVars
    PROVE  SettlementTypeOK'
<1> USE DEF SettlementTypeOK
<1>0. PayType /\ \A c \in Clerk : pay[c] \in PayJobs
  BY DEF PayType
<1>1. CASE TopicGrew /\ UNCHANGED billVars
  <2>1. topic' \in Seq(Message) /\ Len(topic') >= Len(topic)
        /\ Len(topic) \in Nat /\ Len(topic') \in Nat
    <3>1. Len(topic) \in Nat /\ topic \in Seq(Message)
      BY LenProperties
    <3>2. ASSUME NEW m \in Message, topic' = Append(topic, m)
          PROVE  topic' \in Seq(Message) /\ Len(topic') = Len(topic) + 1
      BY <3>1, <3>2, AppendProperties
    <3>q. QED
      BY <1>1, <3>1, <3>2 DEF TopicGrew
  <2>2. position \in committed .. Len(topic')
    BY <2>1
  <2>q. QED
    BY <1>1, <2>1, <2>2 DEF billVars
<1>2. CASE SettlementNext /\ UNCHANGED topic
  <2>0. /\ Pending => Current \in Message /\ position + 1 \in committed .. Len(topic)
        /\ Pending /\ Current \in Billable =>
             DocumentOf[Current] \in Document /\ Worth[Current] \in Nat
    BY CurrentIsMessage, BillableFacts
  <2>1. CASE AddBillLine
    <3>1. total' \in [Document -> Nat]
      <4>1. DocumentOf[Current] \in Document /\ Worth[Current] \in Nat
        BY <2>0, <2>1 DEF AddBillLine
      <4>2. total' = [total EXCEPT ![DocumentOf[Current]] = @ + Worth[Current]]
        BY <2>1 DEF AddBillLine
      <4>q. QED
        BY <4>1, <4>2, OneMore
    <3>2. PayType'
      BY <1>0, <2>1, BillLineJobs
    <3>q. QED
      BY <1>2, <2>0, <2>1, <3>1, <3>2 DEF AddBillLine, Advance, PayType, paymentVars
  <2>2. CASE RaiseInvoice
    BY <1>2, <2>0, <2>2 DEF RaiseInvoice, Advance, paymentVars
  <2>3. CASE PassOver \/ SkipFailed
    BY <1>2, <2>0, <2>3 DEF PassOver, SkipFailed, Advance, paymentVars
  <2>4. CASE CommitOffset \/ RestartConsumer
    BY <1>2, <2>4, LenProperties DEF CommitOffset, RestartConsumer, paymentVars
  <2>5. ASSUME NEW c \in Clerk, NEW d \in Document, NEW amt \in Amount, BeginPayment(c, d, amt)
        PROVE  SettlementTypeOK'
    <3>1. PayType'
      BY <1>0, <2>5, BeginJobs
    <3>2. /\ UNCHANGED <<total, status, paid, paymentRows, announced, outrun, unannounced>>
          /\ UNCHANGED <<position, committed, applied, skipped, grown, restarts>>
          /\ payments' = payments + 1
      BY <2>5 DEF BeginPayment, consumerVars
    <3>q. QED
      BY <1>2, <3>1, <3>2 DEF PayType
  <2>6. ASSUME NEW c \in Clerk, CommitPayment(c)
        PROVE  SettlementTypeOK'
    <3>1. PayType'
      BY <1>0, <2>6, CommitJobs
    <3>2. pay[c].doc \in Document /\ pay[c].amount \in Nat /\ pay[c].settled \in Nat
      BY <1>0, PayJobFields
    <3>3. paymentRows' \in [Document -> Nat] /\ paid' \in [Document -> Nat]
      <4>1. /\ paymentRows' = [paymentRows EXCEPT ![pay[c].doc] = @ + pay[c].amount]
            /\ paid' = [paid EXCEPT ![pay[c].doc] = pay[c].settled + pay[c].amount]
        BY <2>6 DEF CommitPayment
      <4>2. paymentRows' \in [Document -> Nat]
        BY <3>2, <4>1, OneMore
      <4>3. paid' \in [Document -> Nat]
        BY <3>2, <4>1
      <4>q. QED
        BY <4>2, <4>3
    <3>4. status' \in [Document -> {"none", "OPEN", "PARTIALLY_PAID", "PAID"}]
          /\ outrun' \subseteq Document
      BY <2>6, <3>2 DEF CommitPayment, StatusAfter
    <3>q. QED
      BY <1>2, <2>6, <3>1, <3>3, <3>4 DEF CommitPayment, consumerVars, PayType
  <2>7. ASSUME NEW c \in Clerk, PublishPayment(c) \/ FailPayment(c)
        PROVE  SettlementTypeOK'
    <3>1. PayType'
      BY <1>0, <2>7, DoneJobs
    <3>2. pay[c].doc \in Document /\ pay[c].amount \in Nat
      BY <1>0, PayJobFields
    <3>3. announced' \in [Document -> Nat] /\ unannounced' \in [Document -> Nat]
      <4>1. CASE PublishPayment(c)
        <5>1. /\ announced' = [announced EXCEPT ![pay[c].doc] = @ + pay[c].amount]
              /\ UNCHANGED unannounced
          BY <4>1 DEF PublishPayment
        <5>q. QED
          BY <3>2, <5>1, OneMore
      <4>2. CASE FailPayment(c)
        <5>1. /\ UNCHANGED announced
              /\ \/ UNCHANGED unannounced
                 \/ unannounced' = [unannounced EXCEPT ![pay[c].doc] = @ + pay[c].amount]
          BY <4>2 DEF FailPayment
        <5>2. CASE unannounced' = [unannounced EXCEPT ![pay[c].doc] = @ + pay[c].amount]
          BY <3>2, <5>1, <5>2, OneMore
        <5>q. QED
          BY <5>1, <5>2
      <4>q. QED
        BY <2>7, <4>1, <4>2
    <3>q. QED
      BY <1>2, <2>7, <3>1, <3>3 DEF PublishPayment, FailPayment, consumerVars, PayType
  <2>q. QED
    BY <1>2, <2>1, <2>2, <2>3, <2>4, <2>5, <2>6, <2>7 DEF SettlementNext
<1>q. QED
  BY <1>1, <1>2, PipelineCases DEF grnVars

LEMMA SettlementTypeInit == SettlementInit => SettlementTypeOK
BY PayIdleType, EmptySeq DEF SettlementInit, SettlementTypeOK, NoMoney

--------------------------------------------------------------------------------
(* What a request knows, and documents without a row. *)

Publishing == {c \in Clerk : pay[c].at = "publish"}

\* A request in flight is for a row that exists and carries an amount; while
\* its read is not outdated it knows the balance, which allows the amount.
RequestsOK ==
    /\ \A c \in Clerk : pay[c].at # "idle" =>
          status[pay[c].doc] # "none" /\ pay[c].amount > 0
    /\ \A c \in Clerk : pay[c].at = "write" /\ ~pay[c].stale =>
          /\ pay[c].due = total[pay[c].doc] /\ pay[c].settled = paid[pay[c].doc]
          /\ pay[c].settled + pay[c].amount <= pay[c].due
    /\ IsFiniteSet(Publishing)

\* Nothing was counted, paid or applied for a document that has no row.
NoRowNoMoney ==
    /\ \A d \in Document : status[d] = "none" =>
          /\ total[d] = 0 /\ paid[d] = 0 /\ paymentRows[d] = 0
          /\ \A m \in applied : DocumentOf[m] # d
    /\ IsFiniteSet(applied)

LEMMA NoRowStep ==
    ASSUME SettlementTypeOK, RequestsOK, NoRowNoMoney, SettlementNext
    PROVE  NoRowNoMoney'
<1>0. /\ total \in [Document -> Nat] /\ paid \in [Document -> Nat]
      /\ paymentRows \in [Document -> Nat]
      /\ status \in [Document -> {"none", "OPEN", "PARTIALLY_PAID", "PAID"}]
      /\ PayType /\ IsFiniteSet(applied)
  BY DEF SettlementTypeOK, PayType, NoRowNoMoney
<1>1. CASE AddBillLine \/ RaiseInvoice
  <2> DEFINE e == DocumentOf[Current]
  <2>1. /\ e \in Document /\ applied' = applied \cup {Current}
        /\ \A d \in Document : d # e => total'[d] = total[d] /\ status'[d] = status[d]
        /\ status'[e] # "none" /\ UNCHANGED <<paid, paymentRows>>
    <3>1. e \in Document
      BY <1>1, BillableFacts DEF AddBillLine, RaiseInvoice
    <3>2. CASE AddBillLine
      BY <1>0, <3>1, <3>2 DEF AddBillLine, paymentVars
    <3>3. CASE RaiseInvoice
      BY <1>0, <3>1, <3>3 DEF RaiseInvoice, paymentVars
    <3>q. QED
      BY <1>1, <3>2, <3>3
  <2>2. IsFiniteSet(applied')
    BY <1>0, <2>1, FS_AddElement
  <2> HIDE DEF e
  <2>3. \A d \in Document : status'[d] = "none" => d # e
    BY <2>1
  <2>q. QED
    BY <2>1, <2>2, <2>3 DEF NoRowNoMoney, e
<1>2. CASE PassOver \/ SkipFailed \/ CommitOffset \/ RestartConsumer
  BY <1>2 DEF PassOver, SkipFailed, CommitOffset, RestartConsumer, NoRowNoMoney, paymentVars
<1>3. ASSUME NEW c \in Clerk, CommitPayment(c)
      PROVE  NoRowNoMoney'
  <2> DEFINE e == pay[c].doc
  <2>1. /\ e \in Document /\ status[e] # "none" /\ UNCHANGED <<total, applied>>
        /\ paid' = [paid EXCEPT ![e] = pay[c].settled + pay[c].amount]
        /\ paymentRows' = [paymentRows EXCEPT ![e] = @ + pay[c].amount]
        /\ status' = [status EXCEPT ![e] = StatusAfter(pay[c].due, pay[c].settled + pay[c].amount)]
    BY <1>0, <1>3, PayJobFields DEF CommitPayment, consumerVars, PayAt, RequestsOK, PayType
  <2>2. status'[e] # "none"
    BY <1>0, <2>1 DEF StatusAfter
  <2> HIDE DEF e
  <2>3. \A d \in Document : d # e =>
          /\ status'[d] = status[d] /\ paid'[d] = paid[d] /\ paymentRows'[d] = paymentRows[d]
    BY <1>0, <2>1
  <2>q. QED
    BY <2>1, <2>2, <2>3 DEF NoRowNoMoney
<1>4. ASSUME NEW c \in Clerk,
             (\E d \in Document, amt \in Amount : BeginPayment(c, d, amt))
               \/ PublishPayment(c) \/ FailPayment(c)
      PROVE  NoRowNoMoney'
  BY <1>4 DEF BeginPayment, PublishPayment, FailPayment, NoRowNoMoney, consumerVars
<1>q. QED
  BY <1>1, <1>2, <1>3, <1>4 DEF SettlementNext

LEMMA RequestsStep ==
    ASSUME SettlementTypeOK, RequestsOK, SettlementNext
    PROVE  RequestsOK'
<1>0. /\ total \in [Document -> Nat] /\ paid \in [Document -> Nat]
      /\ status \in [Document -> {"none", "OPEN", "PARTIALLY_PAID", "PAID"}]
      /\ PayType /\ \A c \in Clerk : pay[c] \in PayJobs
  BY DEF SettlementTypeOK, PayType
<1>1. CASE AddBillLine
  <2> DEFINE e == DocumentOf[Current]
  <2>1. /\ e \in Document
        /\ \A d \in Document : d # e => total'[d] = total[d] /\ status'[d] = status[d]
        /\ status'[e] # "none" /\ UNCHANGED paid
    BY <1>0, <1>1, BillableFacts DEF AddBillLine, paymentVars
  <2>2. \A k \in Clerk : pay'[k] = Outdated(pay[k], e)
    BY <1>0, <1>1, BillLineJobs
  <2> HIDE DEF e
  <2>3. \A k \in Clerk : /\ pay'[k].at = pay[k].at /\ pay'[k].doc = pay[k].doc
                         /\ pay'[k].amount = pay[k].amount /\ pay'[k].due = pay[k].due
                         /\ pay'[k].settled = pay[k].settled
                         /\ pay[k].at = "write" /\ pay[k].doc = e => pay'[k].stale
                         /\ ~(pay[k].at = "write" /\ pay[k].doc = e) => pay'[k] = pay[k]
    <3> SUFFICES ASSUME NEW k \in Clerk
                 PROVE  /\ pay'[k].at = pay[k].at /\ pay'[k].doc = pay[k].doc
                        /\ pay'[k].amount = pay[k].amount /\ pay'[k].due = pay[k].due
                        /\ pay'[k].settled = pay[k].settled
                        /\ pay[k].at = "write" /\ pay[k].doc = e => pay'[k].stale
                        /\ ~(pay[k].at = "write" /\ pay[k].doc = e) => pay'[k] = pay[k]
      OBVIOUS
    <3>1. pay[k] \in PayJobs /\ pay'[k] = Outdated(pay[k], e)
      BY <1>0, <2>2
    <3>q. QED
      BY <3>1, OutdatedJob
  <2>4. Publishing' = Publishing
    BY <2>3 DEF Publishing
  <2>5. \A k \in Clerk : pay[k].doc \in Document
    BY <1>0, PayJobFields
  <2>q. QED
    BY <2>1, <2>3, <2>4, <2>5 DEF RequestsOK
<1>2. CASE RaiseInvoice
  <2> DEFINE e == DocumentOf[Current]
  <2>1. /\ e \in Document /\ status[e] = "none"
        /\ \A d \in Document : d # e => total'[d] = total[d] /\ status'[d] = status[d]
        /\ status'[e] # "none" /\ UNCHANGED <<paid, pay>>
    BY <1>0, <1>2, BillableFacts DEF RaiseInvoice, paymentVars
  <2> HIDE DEF e
  <2>2. \A k \in Clerk : pay[k].doc \in Document /\ (pay[k].at # "idle" => pay[k].doc # e)
    BY <1>0, <2>1, PayJobFields DEF RequestsOK
  <2>3. Publishing' = Publishing
    BY <2>1 DEF Publishing
  <2>q. QED
    BY <2>1, <2>2, <2>3 DEF RequestsOK
<1>3. CASE PassOver \/ SkipFailed \/ CommitOffset \/ RestartConsumer
  BY <1>3 DEF PassOver, SkipFailed, CommitOffset, RestartConsumer, RequestsOK, Publishing,
              paymentVars
<1>4. ASSUME NEW c \in Clerk, NEW d \in Document, NEW amt \in Amount, BeginPayment(c, d, amt)
      PROVE  RequestsOK'
  <2>1. /\ pay[c].at = "idle" /\ status[d] # "none" /\ amt <= total[d] - paid[d]
        /\ UNCHANGED <<total, paid, status>>
    BY <1>4 DEF BeginPayment, PayAt, Outstanding
  <2>2. /\ PayType' /\ \A k \in Clerk \ {c} : pay'[k] = pay[k]
        /\ pay'[c].at = "write" /\ pay'[c].doc = d /\ pay'[c].amount = amt
        /\ pay'[c].due = total[d] /\ pay'[c].settled = paid[d] /\ pay'[c].stale = FALSE
    BY <1>0, <1>4, BeginJobs
  <2>3. Publishing' = Publishing
    BY <2>1, <2>2 DEF Publishing
  <2>4. amt > 0 /\ paid[d] + amt <= total[d]
    BY <1>0, <2>1, BillableFacts
  <2>q. QED
    BY <2>1, <2>2, <2>3, <2>4 DEF RequestsOK
<1>5. ASSUME NEW c \in Clerk, CommitPayment(c)
      PROVE  RequestsOK'
  <2> DEFINE e == pay[c].doc
  <2>1. /\ e \in Document /\ pay[c].at = "write" /\ status[e] # "none" /\ UNCHANGED total
        /\ paid' = [paid EXCEPT ![e] = pay[c].settled + pay[c].amount]
        /\ status' = [status EXCEPT ![e] = StatusAfter(pay[c].due, pay[c].settled + pay[c].amount)]
    BY <1>0, <1>5, PayJobFields DEF CommitPayment, PayAt, RequestsOK
  <2>2. /\ \A k \in Clerk \ {c} : pay'[k] = Outdated(pay[k], e)
        /\ pay'[c].at = "publish" /\ pay'[c].doc = e /\ pay'[c].amount = pay[c].amount
    BY <1>0, <1>5, CommitJobs
  <2>3. status'[e] # "none"
    BY <1>0, <2>1 DEF StatusAfter
  <2> HIDE DEF e
  <2>4. \A d \in Document : d # e => status'[d] = status[d] /\ paid'[d] = paid[d]
    BY <1>0, <2>1
  <2>5. \A k \in Clerk \ {c} :
          /\ pay'[k].at = pay[k].at /\ pay'[k].doc = pay[k].doc
          /\ pay'[k].amount = pay[k].amount /\ pay'[k].due = pay[k].due
          /\ pay'[k].settled = pay[k].settled
          /\ pay[k].at = "write" /\ pay[k].doc = e => pay'[k].stale
          /\ ~(pay[k].at = "write" /\ pay[k].doc = e) => pay'[k] = pay[k]
    <3> SUFFICES ASSUME NEW k \in Clerk \ {c}
                 PROVE  /\ pay'[k].at = pay[k].at /\ pay'[k].doc = pay[k].doc
                        /\ pay'[k].amount = pay[k].amount /\ pay'[k].due = pay[k].due
                        /\ pay'[k].settled = pay[k].settled
                        /\ pay[k].at = "write" /\ pay[k].doc = e => pay'[k].stale
                        /\ ~(pay[k].at = "write" /\ pay[k].doc = e) => pay'[k] = pay[k]
      OBVIOUS
    <3>1. pay[k] \in PayJobs /\ pay'[k] = Outdated(pay[k], e)
      BY <1>0, <2>2
    <3>q. QED
      BY <3>1, OutdatedJob
  <2>6. Publishing' = Publishing \cup {c}
    BY <2>2, <2>5 DEF Publishing
  <2>7. IsFiniteSet(Publishing')
    BY <2>6, FS_AddElement DEF RequestsOK
  <2>8. \A k \in Clerk : pay[k].doc \in Document
    BY <1>0, PayJobFields
  <2>q. QED
    BY <2>1, <2>2, <2>3, <2>4, <2>5, <2>7, <2>8 DEF RequestsOK
<1>6. ASSUME NEW c \in Clerk, PublishPayment(c) \/ FailPayment(c)
      PROVE  RequestsOK'
  <2>1. /\ pay'[c].at = "idle" /\ \A k \in Clerk \ {c} : pay'[k] = pay[k]
        /\ UNCHANGED <<total, paid, status>>
    BY <1>0, <1>6, DoneJobs DEF PublishPayment, FailPayment
  <2>2. Publishing' = Publishing \ {c}
    BY <2>1 DEF Publishing
  <2>3. IsFiniteSet(Publishing')
    BY <2>2, FS_RemoveElement, FS_Subset DEF RequestsOK
  <2>q. QED
    BY <2>1, <2>3 DEF RequestsOK
<1>q. QED
  BY <1>1, <1>2, <1>3, <1>4, <1>5, <1>6 DEF SettlementNext

--------------------------------------------------------------------------------
(* Every message counts once. *)

AppliedTo(d) == {m \in applied : DocumentOf[m] = d}

TotalsCounted == \A d \in Document : total[d] = SumFunctionOnSet(Worth, AppliedTo(d))
PassedIsHandled ==
    \A i \in 1 .. position : topic[i] \in Billable => topic[i] \in applied \cup skipped

LEMMA CountedParts == CountedOnce <=> TotalsCounted /\ PassedIsHandled
BY DEF CountedOnce, TotalsCounted, PassedIsHandled, AppliedTo

LEMMA TotalsStep ==
    ASSUME SettlementTypeOK, NoRowNoMoney, TotalsCounted, SettlementNext
    PROVE  TotalsCounted'
<1>0. /\ total \in [Document -> Nat] /\ applied \subseteq Billable /\ IsFiniteSet(applied)
      /\ \A m \in applied : Worth[m] \in Nat
  BY BillableFacts DEF SettlementTypeOK, NoRowNoMoney
<1>1. CASE AddBillLine \/ RaiseInvoice
  <2> DEFINE m == Current
             e == DocumentOf[m]
  <2>1. /\ m \in Billable \ applied /\ e \in Document /\ Worth[m] \in Nat
        /\ applied' = applied \cup {m}
    BY <1>1, BillableFacts DEF AddBillLine, RaiseInvoice
  <2>2. total' = [total EXCEPT ![e] = @ + Worth[m]]
    <3>1. CASE AddBillLine
      BY <3>1 DEF AddBillLine
    <3>2. CASE RaiseInvoice
      <4>1. total' = [total EXCEPT ![e] = Worth[m]] /\ total[e] = 0
        BY <2>1, <3>2 DEF RaiseInvoice, NoRowNoMoney
      <4>2. 0 + Worth[m] = Worth[m]
        BY <2>1
      <4>q. QED
        BY <4>1, <4>2
    <3>q. QED
      BY <1>1, <3>1, <3>2
  <2> HIDE DEF e, m
  <2>3. ASSUME NEW d \in Document
        PROVE  total'[d] = SumFunctionOnSet(Worth, AppliedTo(d)')
    <3>1. IsFiniteSet(AppliedTo(d)) /\ m \notin AppliedTo(d)
          /\ \A x \in AppliedTo(d) : Worth[x] \in Nat
      BY <1>0, <2>1, FS_Subset DEF AppliedTo
    <3>2. AppliedTo(d)' = IF d = e THEN AppliedTo(d) \cup {m} ELSE AppliedTo(d)
      BY <2>1 DEF AppliedTo, e
    <3>3. total[d] = SumFunctionOnSet(Worth, AppliedTo(d))
      BY DEF TotalsCounted
    <3>4. SumFunctionOnSet(Worth, AppliedTo(d) \cup {m})
            = SumFunctionOnSet(Worth, AppliedTo(d)) + Worth[m]
      BY <2>1, <3>1, SumAdd
    <3>5. total'[d] = IF d = e THEN total[d] + Worth[m] ELSE total[d]
      BY <1>0, <2>1, <2>2
    <3>q. QED
      BY <3>2, <3>3, <3>4, <3>5
  <2>q. QED
    BY <2>3 DEF TotalsCounted
<1>2. CASE UNCHANGED <<total, applied>>
  BY <1>2 DEF TotalsCounted, AppliedTo
<1>q. QED
  BY <1>1, <1>2
  DEF SettlementNext, PassOver, SkipFailed, CommitOffset, RestartConsumer,
      BeginPayment, CommitPayment, PublishPayment, FailPayment, consumerVars

LEMMA HandledStep ==
    ASSUME SettlementTypeOK, PassedIsHandled, SettlementNext, UNCHANGED topic
    PROVE  PassedIsHandled'
<1>0. position \in Nat /\ committed \in Nat /\ committed <= position
  <2>1. committed \in Nat /\ position \in committed .. Len(topic)
    BY DEF SettlementTypeOK
  <2>q. QED
    BY <2>1, LenProperties DEF SettlementTypeOK
<1>1. CASE AddBillLine \/ RaiseInvoice \/ PassOver \/ SkipFailed
  <2>1. position' = position + 1 /\ applied \subseteq applied' /\ skipped \subseteq skipped'
    BY <1>1 DEF AddBillLine, RaiseInvoice, PassOver, SkipFailed, Advance
  <2>2. topic[position + 1] \in Billable => topic[position + 1] \in applied' \cup skipped'
    BY <1>1 DEF AddBillLine, RaiseInvoice, PassOver, SkipFailed, Current
  <2>3. \A i \in 1 .. position + 1 : i \in 1 .. position \/ i = position + 1
    BY <1>0
  <2>q. QED
    BY <2>1, <2>2, <2>3 DEF PassedIsHandled
<1>2. CASE RestartConsumer
  <2>1. position' = committed /\ UNCHANGED <<applied, skipped>>
    BY <1>2 DEF RestartConsumer
  <2>2. \A i \in 1 .. committed : i \in 1 .. position
    BY <1>0
  <2>q. QED
    BY <2>1, <2>2 DEF PassedIsHandled
<1>3. CASE UNCHANGED <<position, applied, skipped>>
  BY <1>3 DEF PassedIsHandled
<1>q. QED
  BY <1>1, <1>2, <1>3
  DEF SettlementNext, CommitOffset, BeginPayment, CommitPayment, PublishPayment, FailPayment,
      consumerVars

\* Messages that others append are ahead of the consumer.
LEMMA HandledWhenTopicGrows ==
    ASSUME SettlementTypeOK, PassedIsHandled, TopicGrew, UNCHANGED billVars
    PROVE  PassedIsHandled'
<1>1. /\ topic \in Seq(Message) /\ Len(topic) \in Nat /\ position \in Nat
      /\ position <= Len(topic)
  <2>1. committed \in Nat /\ position \in committed .. Len(topic) /\ topic \in Seq(Message)
    BY DEF SettlementTypeOK
  <2>q. QED
    BY <2>1, LenProperties
<1>2. \A i \in 1 .. position : topic'[i] = topic[i]
  BY <1>1, AppendProperties DEF TopicGrew
<1>q. QED
  BY <1>2 DEF PassedIsHandled, billVars

--------------------------------------------------------------------------------
(* Payments add up. *)

PayingFor(d) == {c \in Clerk : pay[c].at = "publish" /\ pay[c].doc = d}
AmountOf == [c \in Clerk |-> pay[c].amount]

PaymentsAnnounced ==
    \A d \in Document :
        paymentRows[d] = announced[d] + unannounced[d] + SumFunctionOnSet(AmountOf, PayingFor(d))
PaidIsRecorded ==
    \A d \in Document : (paid[d] = paymentRows[d] /\ paymentRows[d] <= total[d]) \/ d \in outrun

LEMMA PaymentParts == PaymentsAddUp <=> PaymentsAnnounced /\ PaidIsRecorded
BY DEF PaymentsAddUp, PaymentsAnnounced, PaidIsRecorded, PayingFor, AmountOf, PayAt

\* While the amounts of those who publish for d stay, so does their sum.
LEMMA SameSum ==
    ASSUME SettlementTypeOK, RequestsOK, NEW S, S \subseteq Publishing,
           \A c \in S : AmountOf'[c] = AmountOf[c]
    PROVE  SumFunctionOnSet(AmountOf', S) = SumFunctionOnSet(AmountOf, S)
<1>1. IsFiniteSet(S)
  BY FS_Subset DEF RequestsOK
<1>q. QED
  BY <1>1, SumSame

LEMMA AnnouncedStep ==
    ASSUME SettlementTypeOK, RequestsOK, PaymentsAnnounced, SettlementNext
    PROVE  PaymentsAnnounced'
<1>0. /\ PayType /\ \A c \in Clerk : pay[c] \in PayJobs
      /\ paymentRows \in [Document -> Nat] /\ announced \in [Document -> Nat]
      /\ unannounced \in [Document -> Nat] /\ IsFiniteSet(Publishing)
  BY DEF SettlementTypeOK, PayType, RequestsOK
<1>a. \A c \in Clerk : /\ AmountOf[c] = pay[c].amount /\ AmountOf'[c] = pay'[c].amount
                       /\ AmountOf[c] \in Nat
  BY <1>0, PayJobFields DEF AmountOf
<1>b. \A d : PayingFor(d) \subseteq Publishing /\ IsFiniteSet(PayingFor(d))
             /\ PayingFor(d) \subseteq Clerk
  BY <1>0, FS_Subset DEF PayingFor, Publishing
\* Nobody starts or stops publishing, and amounts of those who do stay.
<1>1. ASSUME UNCHANGED <<paymentRows, announced, unannounced>>,
             \A c \in Clerk : /\ pay'[c].at = "publish" <=> pay[c].at = "publish"
                              /\ pay[c].at = "publish" => pay'[c] = pay[c]
      PROVE  PaymentsAnnounced'
  <2> SUFFICES ASSUME NEW d \in Document
               PROVE  paymentRows[d] = announced[d] + unannounced[d]
                        + SumFunctionOnSet(AmountOf', PayingFor(d)')
    BY <1>1 DEF PaymentsAnnounced
  <2>1. PayingFor(d)' = PayingFor(d)
    BY <1>1 DEF PayingFor
  <2>2. \A c \in PayingFor(d) : AmountOf'[c] = AmountOf[c]
    BY <1>1, <1>a DEF PayingFor
  <2>3. SumFunctionOnSet(AmountOf', PayingFor(d)) = SumFunctionOnSet(AmountOf, PayingFor(d))
    BY <1>b, <2>2, SameSum
  <2>q. QED
    BY <2>1, <2>3 DEF PaymentsAnnounced
<1>2. CASE AddBillLine
  <2>1. \A k \in Clerk : pay'[k] = Outdated(pay[k], DocumentOf[Current])
    BY <1>0, <1>2, BillLineJobs
  <2>2. ASSUME NEW k \in Clerk
        PROVE  /\ pay'[k].at = "publish" <=> pay[k].at = "publish"
               /\ pay[k].at = "publish" => pay'[k] = pay[k]
    BY <1>0, <2>1, OutdatedJob
  <2>q. QED
    BY <1>1, <1>2, <2>2 DEF AddBillLine, paymentVars
<1>3. CASE RaiseInvoice \/ PassOver \/ SkipFailed \/ CommitOffset \/ RestartConsumer
  <2>1. UNCHANGED <<pay, paymentRows, announced, unannounced>>
    BY <1>3 DEF RaiseInvoice, PassOver, SkipFailed, CommitOffset, RestartConsumer, paymentVars
  <2>q. QED
    BY <1>1, <2>1
<1>4. ASSUME NEW c \in Clerk, NEW d \in Document, NEW amt \in Amount, BeginPayment(c, d, amt)
      PROVE  PaymentsAnnounced'
  <2>1. pay[c].at = "idle" /\ UNCHANGED <<paymentRows, announced, unannounced>>
    BY <1>4 DEF BeginPayment, PayAt
  <2>2. total \in [Document -> Nat] /\ paid \in [Document -> Nat]
    BY DEF SettlementTypeOK
  <2>3. /\ PayType' /\ \A k \in Clerk \ {c} : pay'[k] = pay[k]
        /\ pay'[c].at = "write" /\ pay'[c].doc = d /\ pay'[c].amount = amt
        /\ pay'[c].due = total[d] /\ pay'[c].settled = paid[d] /\ pay'[c].stale = FALSE
    BY <1>0, <1>4, <2>2, BeginJobs
  <2>q. QED
    BY <1>1, <2>1, <2>3
<1>5. ASSUME NEW c \in Clerk, CommitPayment(c)
      PROVE  PaymentsAnnounced'
  <2> DEFINE e == pay[c].doc
             n == pay[c].amount
  <2>1. /\ e \in Document /\ n \in Nat /\ pay[c].at = "write"
        /\ paymentRows' = [paymentRows EXCEPT ![e] = @ + n]
        /\ UNCHANGED <<announced, unannounced>>
    BY <1>0, <1>5, PayJobFields DEF CommitPayment, PayAt
  <2>2. /\ \A k \in Clerk \ {c} : pay'[k] = Outdated(pay[k], e)
        /\ pay'[c].at = "publish" /\ pay'[c].doc = e /\ pay'[c].amount = n
    BY <1>0, <1>5, CommitJobs
  <2>3. ASSUME NEW k \in Clerk \ {c}
        PROVE  /\ pay'[k].at = pay[k].at /\ pay'[k].doc = pay[k].doc
               /\ pay'[k].amount = pay[k].amount
    BY <1>0, <2>2, OutdatedJob
  <2>4. \A k \in Clerk : AmountOf'[k] = AmountOf[k]
    BY <1>a, <2>2, <2>3
  <2>5. AmountOf[c] = n
    BY <1>a
  <2> HIDE DEF e, n
  <2> SUFFICES ASSUME NEW d \in Document
               PROVE  paymentRows'[d] = announced[d] + unannounced[d]
                        + SumFunctionOnSet(AmountOf', PayingFor(d)')
    BY <2>1 DEF PaymentsAnnounced
  <2>6. /\ c \notin PayingFor(d)
        /\ PayingFor(d)' = IF d = e THEN PayingFor(d) \cup {c} ELSE PayingFor(d)
    BY <2>1, <2>2, <2>3 DEF PayingFor
  <2>7. SumFunctionOnSet(AmountOf', PayingFor(d)') = SumFunctionOnSet(AmountOf, PayingFor(d)')
    <3>1. IsFiniteSet(PayingFor(d)') /\ PayingFor(d)' \subseteq Clerk
      BY <1>b, <2>6, FS_AddElement
    <3>q. QED
      BY <2>4, <3>1, SumSame
  <2>8. /\ SumFunctionOnSet(AmountOf, PayingFor(d) \cup {c})
             = SumFunctionOnSet(AmountOf, PayingFor(d)) + AmountOf[c]
        /\ SumFunctionOnSet(AmountOf, PayingFor(d)) \in Nat
    BY <1>a, <1>b, <2>6, SumAdd
  <2>9. /\ paymentRows[d] = announced[d] + unannounced[d] + SumFunctionOnSet(AmountOf, PayingFor(d))
        /\ announced[d] \in Nat /\ unannounced[d] \in Nat
        /\ paymentRows'[d] = IF d = e THEN paymentRows[d] + n ELSE paymentRows[d]
    BY <1>0, <2>1 DEF PaymentsAnnounced
  <2>q. QED
    BY <2>1, <2>5, <2>6, <2>7, <2>8, <2>9
<1>6. ASSUME NEW c \in Clerk, PublishPayment(c) \/ (FailPayment(c) /\ pay[c].at = "publish")
      PROVE  PaymentsAnnounced'
  <2> DEFINE e == pay[c].doc
             n == pay[c].amount
  <2>1. /\ e \in Document /\ n \in Nat /\ pay[c].at = "publish" /\ UNCHANGED paymentRows
        /\ \/ announced' = [announced EXCEPT ![e] = @ + n] /\ UNCHANGED unannounced
           \/ unannounced' = [unannounced EXCEPT ![e] = @ + n] /\ UNCHANGED announced
    BY <1>0, <1>6, PayJobFields DEF PublishPayment, FailPayment, PayAt
  <2>2. pay'[c].at = "idle" /\ \A k \in Clerk \ {c} : pay'[k] = pay[k]
    BY <1>0, <1>6, DoneJobs
  <2>3. \A k \in Clerk \ {c} : AmountOf'[k] = AmountOf[k]
    BY <1>a, <2>2
  <2>4. AmountOf[c] = n
    BY <1>a
  <2> HIDE DEF n
  <2> SUFFICES ASSUME NEW d \in Document
               PROVE  paymentRows[d] = announced'[d] + unannounced'[d]
                        + SumFunctionOnSet(AmountOf', PayingFor(d)')
    BY <2>1 DEF PaymentsAnnounced
  <2>5. PayingFor(d)' = PayingFor(d) \ {c} /\ (c \in PayingFor(d) <=> d = e)
    BY <2>1, <2>2 DEF PayingFor
  <2>6. SumFunctionOnSet(AmountOf', PayingFor(d)') = SumFunctionOnSet(AmountOf, PayingFor(d)')
    <3>1. PayingFor(d)' \subseteq Publishing
          /\ \A k \in PayingFor(d)' : AmountOf'[k] = AmountOf[k]
      BY <1>b, <2>3, <2>5
    <3>q. QED
      BY <3>1, SameSum
  <2>7. /\ d = e => SumFunctionOnSet(AmountOf, PayingFor(d) \ {c})
                      = SumFunctionOnSet(AmountOf, PayingFor(d)) - AmountOf[c]
        /\ SumFunctionOnSet(AmountOf, PayingFor(d)) \in Nat
    BY <1>a, <1>b, <2>5, SumRemove, SumType
  <2>8. d # e => PayingFor(d) \ {c} = PayingFor(d)
    BY <2>5
  <2>9. /\ paymentRows[d] = announced[d] + unannounced[d] + SumFunctionOnSet(AmountOf, PayingFor(d))
        /\ announced[d] \in Nat /\ unannounced[d] \in Nat
        /\ announced'[d] + unannounced'[d]
             = IF d = e THEN announced[d] + unannounced[d] + n ELSE announced[d] + unannounced[d]
    BY <1>0, <2>1 DEF PaymentsAnnounced
  <2>q. QED
    <3> DEFINE x == SumFunctionOnSet(AmountOf, PayingFor(d))
    <3>1. SumFunctionOnSet(AmountOf', PayingFor(d)') = IF d = e THEN x - n ELSE x
      BY <2>4, <2>5, <2>6, <2>7, <2>8
    <3>2. x \in Nat /\ n \in Nat /\ announced[d] + unannounced[d] \in Nat
      BY <2>1, <2>7, <2>9
    <3>3. paymentRows[d] = announced[d] + unannounced[d] + x
      BY <2>9
    <3> HIDE DEF x
    <3>q. QED
      BY <2>9, <3>1, <3>2, <3>3
<1>7. ASSUME NEW c \in Clerk, FailPayment(c), pay[c].at # "publish"
      PROVE  PaymentsAnnounced'
  <2>1. pay'[c].at = "idle" /\ \A k \in Clerk \ {c} : pay'[k] = pay[k]
    BY <1>0, <1>7, DoneJobs
  <2>2. UNCHANGED <<paymentRows, announced, unannounced>>
    BY <1>7 DEF FailPayment, PayAt
  <2>q. QED
    BY <1>1, <1>7, <2>1, <2>2
<1>q. QED
  BY <1>2, <1>3, <1>4, <1>5, <1>6, <1>7 DEF SettlementNext

LEMMA RecordedStep ==
    ASSUME SettlementTypeOK, RequestsOK, NoRowNoMoney, PaidIsRecorded, SettlementNext
    PROVE  PaidIsRecorded'
<1>0. /\ total \in [Document -> Nat] /\ paid \in [Document -> Nat]
      /\ paymentRows \in [Document -> Nat] /\ PayType
      /\ \A c \in Clerk : pay[c] \in PayJobs
  BY DEF SettlementTypeOK, PayType
<1>1. CASE AddBillLine \/ RaiseInvoice
  <2> DEFINE e == DocumentOf[Current]
  <2>1. /\ e \in Document /\ Worth[Current] \in Nat /\ UNCHANGED <<paid, paymentRows, outrun>>
    BY <1>1, BillableFacts DEF AddBillLine, RaiseInvoice, paymentVars
  <2>2. \A d \in Document : d # e => total'[d] = total[d]
    BY <1>0, <1>1 DEF AddBillLine, RaiseInvoice
  <2>3. CASE AddBillLine
    <3>1. total'[e] = total[e] + Worth[Current]
      BY <1>0, <2>1, <2>3 DEF AddBillLine
    <3> HIDE DEF e
    <3>q. QED
      BY <1>0, <2>1, <2>2, <3>1 DEF PaidIsRecorded
  <2>4. CASE RaiseInvoice
    <3>1. total'[e] = Worth[Current] /\ paid[e] = 0 /\ paymentRows[e] = 0
      BY <1>0, <2>1, <2>4 DEF RaiseInvoice, NoRowNoMoney
    <3> HIDE DEF e
    <3>q. QED
      BY <1>0, <2>1, <2>2, <3>1 DEF PaidIsRecorded
  <2>q. QED
    BY <1>1, <2>3, <2>4
<1>2. ASSUME NEW c \in Clerk, CommitPayment(c)
      PROVE  PaidIsRecorded'
  <2> DEFINE e == pay[c].doc
  <2>1. /\ e \in Document /\ pay[c].at = "write" /\ UNCHANGED total
        /\ pay[c].amount \in Nat /\ pay[c].settled \in Nat
        /\ paymentRows' = [paymentRows EXCEPT ![e] = @ + pay[c].amount]
        /\ paid' = [paid EXCEPT ![e] = pay[c].settled + pay[c].amount]
        /\ outrun' = IF pay[c].stale THEN outrun \cup {e} ELSE outrun
    BY <1>0, <1>2, PayJobFields DEF CommitPayment, PayAt
  <2>2. \A d \in Document : d # e => paid'[d] = paid[d] /\ paymentRows'[d] = paymentRows[d]
    BY <1>0, <2>1
  <2>3. paid'[e] = pay[c].settled + pay[c].amount
        /\ paymentRows'[e] = paymentRows[e] + pay[c].amount
    BY <1>0, <2>1
  <2>4. e \notin outrun' =>
          /\ pay[c].settled = paid[e] /\ pay[c].settled + pay[c].amount <= total[e]
          /\ paid[e] = paymentRows[e]
    BY <2>1 DEF RequestsOK, PaidIsRecorded
  <2> HIDE DEF e
  <2>q. QED
    BY <2>1, <2>2, <2>3, <2>4 DEF PaidIsRecorded
<1>3. CASE UNCHANGED <<total, paid, paymentRows, outrun>>
  BY <1>3 DEF PaidIsRecorded
<1>q. QED
  BY <1>1, <1>2, <1>3
  DEF SettlementNext, PassOver, SkipFailed, CommitOffset, RestartConsumer,
      BeginPayment, PublishPayment, FailPayment, consumerVars, paymentVars

--------------------------------------------------------------------------------
(* The status tells the balance. *)

LEMMA StatusStep ==
    ASSUME SettlementTypeOK, RequestsOK, NoRowNoMoney, PaidIsRecorded, StatusTellsBalance,
           SettlementNext
    PROVE  StatusTellsBalance'
<1>0. /\ total \in [Document -> Nat] /\ paid \in [Document -> Nat]
      /\ status \in [Document -> {"none", "OPEN", "PARTIALLY_PAID", "PAID"}] /\ PayType
      /\ \A c \in Clerk : pay[c] \in PayJobs
  BY DEF SettlementTypeOK, PayType
<1>1. CASE AddBillLine
  <2> DEFINE e == DocumentOf[Current]
  <2>1. /\ e \in Document /\ Worth[Current] \in Nat /\ UNCHANGED <<paid, outrun>>
        /\ total' = [total EXCEPT ![e] = @ + Worth[Current]]
        /\ status' = IF status[e] = "none" THEN [status EXCEPT ![e] = "OPEN"] ELSE status
        /\ grown' = IF status[e] = "PAID" THEN grown \cup {e} ELSE grown
    BY <1>1, BillableFacts DEF AddBillLine, paymentVars
  <2>2. \A d \in Document : d # e => total'[d] = total[d] /\ status'[d] = status[d]
    BY <1>0, <2>1
  <2>3. /\ total'[e] = total[e] + Worth[Current]
        /\ status[e] = "none" => paid[e] = 0
        /\ status'[e] = IF status[e] = "none" THEN "OPEN" ELSE status[e]
    BY <1>0, <2>1 DEF NoRowNoMoney
  <2> HIDE DEF e
  <2>q. QED
    BY <1>0, <2>1, <2>2, <2>3 DEF StatusTellsBalance
<1>2. CASE RaiseInvoice
  <2> DEFINE e == DocumentOf[Current]
  <2>1. /\ e \in Document /\ UNCHANGED <<paid, outrun, grown>>
        /\ total' = [total EXCEPT ![e] = Worth[Current]]
        /\ status' = [status EXCEPT ![e] = "OPEN"] /\ paid[e] = 0
    BY <1>2, BillableFacts DEF RaiseInvoice, NoRowNoMoney, paymentVars
  <2> HIDE DEF e
  <2>2. \A d \in Document : d # e => total'[d] = total[d] /\ status'[d] = status[d]
    BY <1>0, <2>1
  <2>3. status'[e] = "OPEN"
    BY <1>0, <2>1
  <2>q. QED
    BY <2>1, <2>2, <2>3 DEF StatusTellsBalance
<1>3. ASSUME NEW c \in Clerk, CommitPayment(c)
      PROVE  StatusTellsBalance'
  <2> DEFINE e == pay[c].doc
             n == pay[c].settled + pay[c].amount
  <2>1. /\ e \in Document /\ pay[c].at = "write" /\ UNCHANGED <<total, grown>>
        /\ pay[c].amount \in Nat /\ pay[c].settled \in Nat /\ pay[c].due \in Nat
        /\ pay[c].amount > 0
        /\ paid' = [paid EXCEPT ![e] = n]
        /\ status' = [status EXCEPT ![e] = StatusAfter(pay[c].due, n)]
        /\ outrun' = IF pay[c].stale THEN outrun \cup {e} ELSE outrun
    BY <1>0, <1>3, PayJobFields DEF CommitPayment, PayAt, consumerVars, RequestsOK
  <2>2. n \in Nat /\ n > 0
    BY <2>1
  <2>3. e \notin outrun' => pay[c].due = total[e] /\ n <= total[e]
    BY <2>1 DEF RequestsOK
  <2> HIDE DEF e, n
  <2>4. \A d \in Document : d # e => paid'[d] = paid[d] /\ status'[d] = status[d]
    BY <1>0, <2>1
  <2>5. paid'[e] = n /\ status'[e] = StatusAfter(pay[c].due, n)
    BY <1>0, <2>1
  <2>6. e \notin outrun' => /\ status'[e] = "PAID" => n = total[e]
                            /\ status'[e] = "PARTIALLY_PAID" => 0 < n /\ n < total[e]
                            /\ status'[e] \notin {"none", "OPEN"}
    BY <1>0, <2>1, <2>2, <2>3, <2>5 DEF StatusAfter
  <2>q. QED
    BY <2>1, <2>4, <2>5, <2>6 DEF StatusTellsBalance
<1>4. CASE UNCHANGED <<total, paid, status, outrun, grown>>
  BY <1>4 DEF StatusTellsBalance
<1>q. QED
  BY <1>1, <1>2, <1>3, <1>4
  DEF SettlementNext, PassOver, SkipFailed, CommitOffset, RestartConsumer,
      BeginPayment, PublishPayment, FailPayment, consumerVars, paymentVars

--------------------------------------------------------------------------------
(* The two services together. *)

LEMMA ReceiptStep ==
    ASSUME GrnTypeOK, PublisherOK, SentSoFar, [PipelineNext]_pipelineVars
    PROVE  GrnTypeOK' /\ PublisherOK' /\ SentSoFar' /\ AppliedGrns \subseteq AppliedGrns'
<1>1. CASE [GrnNext]_grnVars
  <2>1. ASSUME NEW h \in Handler, AcceptGrn(h)
        PROVE  AppliedGrns \subseteq AppliedGrns'
    BY <2>1, AcceptApplies
  <2>2. AppliedGrns \subseteq AppliedGrns'
    BY <1>1, <2>1, OnlyAcceptApplies
  <2>q. QED
    BY <1>1, <2>2, GrnTypeStep, PublisherStep, SentStep
<1>2. ASSUME NEW m \in Message \ Line, topic' = Append(topic, m), UNCHANGED receiptVars
      PROVE  GrnTypeOK' /\ PublisherOK' /\ SentSoFar' /\ AppliedGrns \subseteq AppliedGrns'
  <2>1. topic \in Seq(Message) /\ topic' \in Seq(Message)
    BY <1>2, AppendProperties DEF GrnTypeOK
  <2>2. GrnTypeOK' /\ PublisherOK' /\ AppliedGrns' = AppliedGrns
    BY <1>2, <2>1 DEF GrnTypeOK, PublisherOK, receiptVars, AppliedGrns, Applied
  <2>3. ASSUME NEW g \in Grn
        PROVE  \A n : Announces(topic', g, n) <=> Announces(topic, g, n)
    <3>1. ~Touches(g, m)
      BY <1>2, LinesOfGrn DEF Touches
    <3>q. QED
      BY <1>2, <2>1, <3>1, AnnouncesOther
  <2>4. grnDropped \subseteq Grn /\ \A h \in Handler : grnJob[h].grn \in Grn
    BY TaskFields DEF GrnTypeOK
  <2>5. SentSoFar'
    BY <1>2, <2>3, <2>4 DEF SentSoFar, Applied, receiptVars
  <2>q. QED
    BY <2>2, <2>5
<1>q. QED
  BY <1>1, <1>2, ReceiptCases

\* What is on the topic was announced, and what was announced is on it.
LEMMA OnTopic ==
    ASSUME GrnTypeOK, NEW l
    PROVE  Count(topic, l) # 0 <=> \E i \in 1 .. Len(topic) : topic[i] = l
<1>1. DOMAIN topic = 1 .. Len(topic) /\ Len(topic) \in Nat
  BY LenProperties DEF GrnTypeOK
<1>2. IsFiniteSet(PlacesOf(topic, l))
  <2>1. PlacesOf(topic, l) \subseteq 1 .. Len(topic)
    BY <1>1 DEF PlacesOf
  <2>2. IsFiniteSet(1 .. Len(topic))
    BY <1>1, FS_Interval
  <2>q. QED
    BY <2>1, <2>2, FS_Subset
<1>3. Cardinality(PlacesOf(topic, l)) = 0 <=> PlacesOf(topic, l) = {}
  BY <1>2, FS_EmptySet
<1>q. QED
  BY <1>1, <1>3 DEF Count, PlacesOf

\* The receipt of a line, and what a message bills.
LEMMA DocumentOfLine ==
    ASSUME NEW m \in Billable, DocumentOf[m] \notin Invoice
    PROVE  m \in Line /\ DocumentOf[m] \in Grn /\ Touches(DocumentOf[m], m)
<1>1. m \in Line
  BY DEF DocumentOf, Billable, Invoice
<1>2. DocumentOf[m] = GrnOf(m)
  BY <1>1 DEF DocumentOf
<1>3. \E g \in Grn : Touches(g, m)
  BY <1>1, LinesAssumption
<1>4. GrnOf(m) \in Grn /\ Touches(GrnOf(m), m)
  BY <1>3 DEF GrnOf
<1>q. QED
  BY <1>1, <1>2, <1>4

\* A receipt that is not applied has no bill.
NotAppliedNotBilled == \A g \in Grn : ~Applied(g) => status[g] = "none"

LEMMA NotBilledStep ==
    ASSUME GrnTypeOK, SentSoFar, SettlementTypeOK, RequestsOK, NotAppliedNotBilled,
           SettlementNext, UNCHANGED grnVars
    PROVE  NotAppliedNotBilled'
<1>0. /\ status \in [Document -> {"none", "OPEN", "PARTIALLY_PAID", "PAID"}]
      /\ Grn \subseteq Document /\ \A c \in Clerk : pay[c].doc \in Document
      /\ \A g : Applied(g)' <=> Applied(g)
  BY PayJobFields DEF SettlementTypeOK, Document, Applied, grnVars
<1>1. CASE AddBillLine
  <2> DEFINE e == DocumentOf[Current]
  <2>1. /\ Pending /\ Current \in Billable /\ e \notin Invoice
        /\ \A d \in Document : d # e => status'[d] = status[d]
    BY <1>0, <1>1 DEF AddBillLine
  <2>2. Current \in Line /\ e \in Grn /\ Touches(e, Current)
    BY <2>1, DocumentOfLine
  <2>3. position + 1 \in 1 .. Len(topic) /\ topic[position + 1] = Current
    BY <2>1, CurrentIsMessage DEF Current
  <2>4. Count(topic, Current) # 0
    BY <2>3, OnTopic
  <2>5. PICK i \in DOMAIN LinesOf[e] : LinesOf[e][i] = Current
    BY <2>2 DEF Touches
  <2>6. ~(i <= 0)
    BY <2>2, <2>5, LinesOfGrn
  <2>7. ~Announces(topic, e, 0)
    BY <2>4, <2>5, <2>6 DEF Announces
  <2>8. Applied(e)
    BY <2>2, <2>7 DEF SentSoFar
  <2> HIDE DEF e
  <2>q. QED
    BY <1>0, <2>1, <2>8 DEF NotAppliedNotBilled
<1>2. CASE RaiseInvoice
  <2>1. DocumentOf[Current] \notin Grn
    BY <1>2, PipelineAssumption DEF RaiseInvoice, Invoice
  <2>2. \A d \in Document : d # DocumentOf[Current] => status'[d] = status[d]
    BY <1>0, <1>2 DEF RaiseInvoice
  <2>q. QED
    BY <1>0, <2>1, <2>2 DEF NotAppliedNotBilled
<1>3. ASSUME NEW c \in Clerk, CommitPayment(c)
      PROVE  NotAppliedNotBilled'
  <2>1. status[pay[c].doc] # "none"
    BY <1>3 DEF CommitPayment, PayAt, RequestsOK
  <2>2. \A d \in Document : d # pay[c].doc => status'[d] = status[d]
    BY <1>0, <1>3 DEF CommitPayment
  <2>q. QED
    BY <1>0, <2>1, <2>2 DEF NotAppliedNotBilled
<1>4. CASE UNCHANGED status
  BY <1>0, <1>4 DEF NotAppliedNotBilled
<1>q. QED
  BY <1>1, <1>2, <1>3, <1>4
  DEF SettlementNext, PassOver, SkipFailed, CommitOffset, RestartConsumer,
      BeginPayment, PublishPayment, FailPayment

\* What the pipeline maintains, part by part.
PipelineInv ==
    /\ GrnTypeOK /\ PublisherOK /\ SentSoFar
    /\ SettlementTypeOK /\ RequestsOK /\ NoRowNoMoney
    /\ TotalsCounted /\ PassedIsHandled
    /\ PaymentsAnnounced /\ PaidIsRecorded /\ StatusTellsBalance
    /\ NotAppliedNotBilled

LEMMA PipelineStep ==
    ASSUME PipelineInv, [PipelineNext]_pipelineVars
    PROVE  PipelineInv'
<1> USE DEF PipelineInv
<1>1. GrnTypeOK' /\ PublisherOK' /\ SentSoFar' /\ AppliedGrns \subseteq AppliedGrns'
      /\ SettlementTypeOK'
  BY ReceiptStep, SettlementTypeStep
<1>2. CASE TopicGrew /\ UNCHANGED billVars
  <2>1. RequestsOK' /\ NoRowNoMoney' /\ TotalsCounted'
    BY <1>2 DEF billVars, RequestsOK, Publishing, NoRowNoMoney, TotalsCounted, AppliedTo
  <2>2. PaymentsAnnounced' /\ PaidIsRecorded' /\ StatusTellsBalance'
    BY <1>2 DEF billVars, PaymentsAnnounced, PayingFor, AmountOf, PaidIsRecorded,
                StatusTellsBalance
  <2>3. PassedIsHandled'
    BY <1>2, HandledWhenTopicGrows
  <2>4. NotAppliedNotBilled'
    BY <1>1, <1>2 DEF billVars, NotAppliedNotBilled, AppliedGrns
  <2>q. QED
    BY <1>1, <2>1, <2>2, <2>3, <2>4
<1>3. CASE SettlementNext /\ UNCHANGED grnVars
  <2>1. UNCHANGED topic
    BY <1>3 DEF grnVars
  <2>q. QED
    BY <1>1, <1>3, <2>1, RequestsStep, NoRowStep, TotalsStep, HandledStep, AnnouncedStep,
       RecordedStep, StatusStep, NotBilledStep
<1>q. QED
  BY <1>2, <1>3, PipelineCases

LEMMA PipelineStart ==
    ASSUME PipelineInit
    PROVE  PipelineInv
<1>1. GrnInit /\ SettlementInit
  BY DEF PipelineInit
<1>2. GrnTypeOK /\ PublisherOK /\ SentSoFar /\ SettlementTypeOK
  BY <1>1, GrnTypeInit, PublisherInit, SentInit, SettlementTypeInit
<1>3. /\ Publishing = {} /\ \A d : PayingFor(d) = {} /\ AppliedTo(d) = {}
      /\ \A c \in Clerk : pay[c].at = "idle"
  BY <1>1, PayIdleType DEF SettlementInit, Publishing, PayingFor, AppliedTo
<1>4. RequestsOK /\ NoRowNoMoney
  BY <1>1, <1>3, FS_EmptySet DEF RequestsOK, NoRowNoMoney, SettlementInit, NoMoney
<1>5. TotalsCounted /\ PaymentsAnnounced
  <2>1. \A d : /\ SumFunctionOnSet(Worth, AppliedTo(d)) = 0
              /\ SumFunctionOnSet(AmountOf, PayingFor(d)) = 0
    BY <1>3, SumEmpty
  <2>2. \A d \in Document : /\ total[d] = 0 /\ paymentRows[d] = 0
                           /\ announced[d] = 0 /\ unannounced[d] = 0
    BY <1>1 DEF SettlementInit, NoMoney
  <2>q. QED
    BY <2>1, <2>2 DEF TotalsCounted, PaymentsAnnounced
<1>6. PassedIsHandled /\ PaidIsRecorded /\ StatusTellsBalance
  BY <1>1 DEF PassedIsHandled, PaidIsRecorded, StatusTellsBalance, SettlementInit, NoMoney
<1>7. NotAppliedNotBilled
  BY <1>1 DEF NotAppliedNotBilled, SettlementInit, Document
<1>q. QED
  BY <1>2, <1>4, <1>5, <1>6, <1>7 DEF PipelineInv

LEMMA PipelineInvariant == PipelineSpec => []PipelineInv
<1>1. PipelineInit => PipelineInv
  BY PipelineStart
<1>2. PipelineInv /\ [PipelineNext]_pipelineVars => PipelineInv'
  BY PipelineStep
<1>q. QED
  BY <1>1, <1>2, PTL DEF PipelineSpec

\* The type invariant of the bills, invoices and payments.
THEOREM SettlementTypeCorrect == PipelineSpec => []SettlementTypeOK
<1>1. PipelineInv => SettlementTypeOK
  BY DEF PipelineInv
<1>q. QED
  BY <1>1, PipelineInvariant, PTL

\* However often the consumer is handed a message, it counts once in the total
\* of its document, and none it has been through is lost without its handler
\* having thrown.
THEOREM MessagesCountOnce == PipelineSpec => []CountedOnce
<1>1. PipelineInv => CountedOnce
  BY CountedParts DEF PipelineInv
<1>q. QED
  BY <1>1, PipelineInvariant, PTL

\* Every recorded payment is announced, owed or lost with its request, and a
\* document is never paid beyond its total unless on an outdated read.
THEOREM PaymentsBalance == PipelineSpec => []PaymentsAddUp
<1>1. PipelineInv => PaymentsAddUp
  BY PaymentParts DEF PipelineInv
<1>q. QED
  BY <1>1, PipelineInvariant, PTL

\* bill_status and invoice_status agree with the balance, unless a read was
\* outdated or a settled bill grew.
THEOREM StatusIsTruthful == PipelineSpec => []StatusTellsBalance
<1>1. PipelineInv => StatusTellsBalance
  BY DEF PipelineInv
<1>q. QED
  BY <1>1, PipelineInvariant, PTL

\* Nothing is billed for goods that were not accepted, and no line of value of
\* a posted receipt is lost on its way to the bill but by a handler that threw.
THEOREM BillsAreForReceipts == PipelineSpec => []BillsFollowReceipts
<1>1. ASSUME PipelineInv PROVE BillsFollowReceipts
  <2> USE <1>1 DEF PipelineInv
  <2>1. SUFFICES ASSUME NEW g \in Grn, grns[g] = "POSTED", NEW l \in ValuedLines(g)
                 PROVE  l \in applied \cup skipped \cup
                              {topic[i] : i \in position + 1 .. Len(topic)}
    BY DEF BillsFollowReceipts, NotAppliedNotBilled
  <2>2. PICK i \in DOMAIN LinesOf[g] : LinesOf[g][i] = l
    BY DEF ValuedLines, Touches
  <2>3. Announces(topic, g, Len(LinesOf[g])) /\ i <= Len(LinesOf[g])
    BY <2>1, <2>2, LinesOfGrn DEF SentSoFar
  <2>4. Count(topic, l) # 0
    BY <2>2, <2>3 DEF Announces, ValuedLines
  <2>5. PICK k \in 1 .. Len(topic) : topic[k] = l
    BY <2>4, OnTopic
  <2>6. position \in Nat /\ Len(topic) \in Nat
    <3>1. committed \in Nat /\ position \in committed .. Len(topic) /\ topic \in Seq(Message)
      BY DEF SettlementTypeOK
    <3>q. QED
      BY <3>1, LenProperties
  <2>7. l \in Billable
    BY DEF ValuedLines, Billable
  <2>8. CASE k <= position
    BY <2>5, <2>6, <2>7, <2>8 DEF PassedIsHandled
  <2>9. CASE ~(k <= position)
    <3>1. k \in position + 1 .. Len(topic)
      BY <2>6, <2>9
    <3>q. QED
      BY <2>5, <3>1
  <2>q. QED
    BY <2>8, <2>9
<1>q. QED
  BY <1>1, PipelineInvariant, PTL
================================================================================
