---------------------------- MODULE TradingCapital ----------------------------
(***************************************************************************)
(* sales-service: order capture against an agent's trading capital, and    *)
(* the NCR (cash collection) path that gives capital back.                 *)
(*                                                                         *)
(* A request handler is one HTTP request in flight on one instance of the  *)
(* service.  Every database transaction runs at Postgres' READ COMMITTED:  *)
(* a handler acts on what its own read saw, other handlers commit between  *)
(* that read and its write, and only unique keys stop two of them.  The    *)
(* INSERTs of one transaction and its COMMIT are one step, for nobody sees *)
(* the former before the latter.                                           *)
(*                                                                         *)
(* An order stands for its clientEventId.  exposure[a] stands for the      *)
(* aggregate SUM(debit_value) - SUM(credit_value) of the append-only       *)
(* trading_capital_ledger; debits and credits count its entries per        *)
(* document.                                                               *)
(***************************************************************************)
EXTENDS Integers

CONSTANTS Handler,      \* requests that can be in flight together
          Agent,
          Order,        \* client event ids of sales orders
          Ncr,          \* client event ids of cash collections
          OwnerOf,      \* the agent a document names
          Value,        \* total_order_value of an order
          Amount,       \* amount of a cash collection
          Direct,       \* orders with a customerId
          UnknownRef,   \* documents naming an agent or customer that does not exist
          Approved,     \* approved_trading_capital
          MaxRequests   \* bound: requests received over a behaviour

Doc == Order \cup Ncr

ASSUME DocsAssumption ==
    /\ Order # {} /\ Order \cap Ncr = {}
    /\ Doc \cap Agent = {}
    /\ Direct \subseteq Order
    /\ UnknownRef \subseteq Doc
    /\ OwnerOf \in [Doc -> Agent]
ASSUME MoneyAssumption ==
    /\ Value \in [Order -> Nat]
    /\ Amount \in [Ncr -> Nat \ {0}]
    /\ Approved \in [Agent -> Nat]
ASSUME RequestsAssumption == MaxRequests \in Nat

VARIABLES
    orders,     \* sales_orders.order_status, "none" when there is no row
    ncrs,       \* ncr_collections.verified_flag, "none" when there is no row
    debits,     \* DEBIT_EXPOSURE entries of an order
    credits,    \* CREDIT_RECOVERY entries of an NCR
    exposure,   \* outstanding exposure of an agent
    events,     \* erp.events messages announcing a document
    answers,    \* statuses ever returned to the clients of an order
    job,        \* what a handler is doing: see Jobs
    overtaken,  \* history: agents and NCRs written on a stale read
    dropped,    \* history: documents whose handler failed before publishing
    requests    \* requests received so far

db == <<orders, ncrs, debits, credits, exposure>>
vars == <<orders, ncrs, debits, credits, exposure, events, answers,
          job, overtaken, dropped, requests>>

OrderSteps == {"lookup", "check", "write", "publish"}
NcrSteps == {"findNcr", "insertNcr", "authorize", "readNcr", "verify", "publishNcr"}

\* at: where the handler is; avail: the available capital its transaction
\* read; stale (history): another commit has overtaken what it read.
Job(step, d, read, old) == [at |-> step, doc |-> d, avail |-> read, stale |-> old]
Idle == Job("idle", CHOOSE d \in Doc : TRUE, 0, FALSE)
Jobs == [at : {"idle"} \cup OrderSteps \cup NcrSteps,
         doc : Doc, avail : Int, stale : BOOLEAN]

TypeOK ==
    /\ orders \in [Order -> {"none", "CONFIRMED", "NEEDS_REVIEW"}]
    /\ ncrs \in [Ncr -> {"none", "submitted", "verified"}]
    /\ debits \in [Order -> Nat] /\ credits \in [Ncr -> Nat]
    /\ exposure \in [Agent -> Int]
    /\ events \in [Doc -> Nat]
    /\ answers \in [Order -> SUBSET {"ACKED", "NEEDS_REVIEW"}]
    /\ job \in [Handler -> Jobs]
    /\ \A h \in Handler : /\ job[h].at \in OrderSteps => job[h].doc \in Order
                          /\ job[h].at \in NcrSteps => job[h].doc \in Ncr
    /\ overtaken \subseteq Agent \cup Ncr
    /\ dropped \subseteq Doc
    /\ requests \in Nat

Init ==
    /\ orders = [o \in Order |-> "none"]
    /\ ncrs = [n \in Ncr |-> "none"]
    /\ debits = [o \in Order |-> 0] /\ credits = [n \in Ncr |-> 0]
    /\ exposure = [a \in Agent |-> 0]
    /\ events = [d \in Doc |-> 0]
    /\ answers = [o \in Order |-> {}]
    /\ job = [h \in Handler |-> Idle]
    /\ overtaken = {} /\ dropped = {}
    /\ requests = 0

At(h, step) == job[h].at = step
Goto(h, step) == job' = [job EXCEPT ![h] = Job(step, @.doc, @.avail, @.stale)]
Finish(h) == job' = [job EXCEPT ![h] = Idle]

\* toCapitalStatus, and the same arithmetic inside createSalesOrder.
Available(a) == Approved[a] - exposure[a]

\* Mutant: the row's status is returned as it is.
RowStatus(status) == status

\* The status a client is told for an order row.
AnswerFor(status) == IF status = "NEEDS_REVIEW" THEN "NEEDS_REVIEW" ELSE "ACKED"

Answer(o, status) ==
    answers' = [answers EXCEPT ![o] = @ \cup {AnswerFor(status)}]

\* kafkaProducer.publish.
Announce(d) == events' = [events EXCEPT ![d] = @ + 1]

(***************************************************************************)
(* POST /sales-orders and the sales_order branch of POST /sync/push.       *)
(***************************************************************************)

\* A request for a document arrives: the first attempt, or a retry of one
\* that is still being handled.
Receive(h, d, step) ==
    /\ At(h, "idle")
    /\ requests < MaxRequests
    /\ requests' = requests + 1
    /\ job' = [job EXCEPT ![h] = Job(step, d, 0, FALSE)]
    /\ UNCHANGED <<db, events, answers, overtaken, dropped>>

\* Mutant: a known clientEventId is always acknowledged.
ReplayAcked(h) ==
    LET o == job[h].doc
    IN  /\ At(h, "lookup") /\ orders[o] # "none"
        /\ Answer(o, "CONFIRMED")
        /\ Finish(h)
        /\ UNCHANGED <<db, events, overtaken, dropped, requests>>

\* Mutant: the replay publishes the event again.
ReplayRepublished(h) ==
    LET o == job[h].doc
    IN  /\ At(h, "lookup") /\ orders[o] # "none"
        /\ Answer(o, orders[o])
        /\ Announce(o)
        /\ Finish(h)
        /\ UNCHANGED <<db, overtaken, dropped, requests>>

\* The clientEventId is known: the recorded outcome is repeated.
ReplayOrder(h) ==
    LET o == job[h].doc
    IN  /\ At(h, "lookup") /\ orders[o] # "none"
        /\ Answer(o, orders[o])
        /\ Finish(h)
        /\ UNCHANGED <<db, events, overtaken, dropped, requests>>

BeginOrder(h) ==
    /\ At(h, "lookup") /\ orders[job[h].doc] = "none"
    /\ Goto(h, "check")
    /\ UNCHANGED <<db, events, answers, overtaken, dropped, requests>>

\* The transaction's reads: the agent, the customer of a direct order, and
\* the aggregate over the ledger.
CheckCapital(h) ==
    /\ At(h, "check") /\ job[h].doc \notin UnknownRef
    /\ job' = [job EXCEPT ![h] = Job("write", @.doc, Available(OwnerOf[@.doc]), FALSE)]
    /\ UNCHANGED <<db, events, answers, overtaken, dropped, requests>>

\* NotFoundException for the agent or the customer.
UnknownParty(h) ==
    /\ At(h, "check") \/ At(h, "insertNcr")
    /\ job[h].doc \in UnknownRef
    /\ Finish(h)
    /\ UNCHANGED <<db, events, answers, overtaken, dropped, requests>>

\* Mutant: the order is compared with the approved, not the available capital.
WithinApproved(h) ==
    job[h].doc \in Direct \/ Value[job[h].doc] <= Approved[OwnerOf[job[h].doc]]

WithinCapital(h) == job[h].doc \in Direct \/ Value[job[h].doc] <= job[h].avail

\* one_sided_ledger_entry refuses an entry whose debit and credit are zero.
LedgerAccepts(o) == o \in Direct \/ Value[o] > 0

\* Handler h commits and goes to step; the others whose read the commit
\* overtook hold an outdated value from now on.
CommitOver(h, step, overtook) ==
    job' = [g \in Handler |->
              LET j == job[g]
              IN  IF g = h THEN Job(step, j.doc, j.avail, j.stale)
                  ELSE Job(j.at, j.doc, j.avail, j.stale \/ g \in overtook)]

ReadsExposureOf(g, a) == At(g, "write") /\ OwnerOf[job[g].doc] = a

\* Mutant: no unique key on the clientEventId.
ConfirmWithoutUniqueKey(h) ==
    LET o == job[h].doc
        a == OwnerOf[o]
        readers == {g \in Handler : ReadsExposureOf(g, a)}
    IN  /\ At(h, "write") /\ o \notin Direct
        /\ WithinCapital(h) /\ LedgerAccepts(o)
        /\ orders' = [orders EXCEPT ![o] = "CONFIRMED"]
        /\ debits' = [debits EXCEPT ![o] = @ + 1]
        /\ exposure' = [exposure EXCEPT ![a] = @ + Value[o]]
        /\ CommitOver(h, "publish", readers)
        /\ overtaken' = IF job[h].stale THEN overtaken \cup {a} ELSE overtaken
        /\ UNCHANGED <<ncrs, credits, events, answers, dropped, requests>>

\* The order row and, in the same transaction, the ledger entry that
\* consumes capital.
ConfirmAgentOrder(h) ==
    LET o == job[h].doc
        a == OwnerOf[o]
        readers == {g \in Handler : ReadsExposureOf(g, a)}
    IN  /\ At(h, "write") /\ o \notin Direct /\ orders[o] = "none"
        /\ WithinCapital(h) /\ LedgerAccepts(o)
        /\ orders' = [orders EXCEPT ![o] = "CONFIRMED"]
        /\ debits' = [debits EXCEPT ![o] = @ + 1]
        /\ exposure' = [exposure EXCEPT ![a] = @ + Value[o]]
        /\ CommitOver(h, "publish", readers)
        /\ overtaken' = IF job[h].stale THEN overtaken \cup {a} ELSE overtaken
        /\ UNCHANGED <<ncrs, credits, events, answers, dropped, requests>>

\* A direct order is always within capital and writes no ledger entry.
ConfirmDirectOrder(h) ==
    LET o == job[h].doc
    IN  /\ At(h, "write") /\ o \in Direct /\ orders[o] = "none"
        /\ orders' = [orders EXCEPT ![o] = "CONFIRMED"]
        /\ Goto(h, "publish")
        /\ UNCHANGED <<ncrs, debits, credits, exposure, events, answers,
                       overtaken, dropped, requests>>

\* Mutant: the blocked order is upserted over the row of a retry.
ParkByUpsert(h) ==
    LET o == job[h].doc
    IN  /\ At(h, "write") /\ ~WithinCapital(h)
        /\ orders' = [orders EXCEPT ![o] = "NEEDS_REVIEW"]
        /\ Answer(o, "NEEDS_REVIEW")
        /\ Finish(h)
        /\ UNCHANGED <<ncrs, debits, credits, exposure, events,
                       overtaken, dropped, requests>>

ParkOrder(h) ==
    LET o == job[h].doc
    IN  /\ At(h, "write") /\ orders[o] = "none"
        /\ ~WithinCapital(h)
        /\ orders' = [orders EXCEPT ![o] = "NEEDS_REVIEW"]
        /\ Answer(o, "NEEDS_REVIEW")
        /\ Finish(h)
        /\ UNCHANGED <<ncrs, debits, credits, exposure, events,
                       overtaken, dropped, requests>>

\* An INSERT violates a constraint (the clientEventId was committed since
\* the lookup, or the ledger entry is empty): the transaction rolls back and
\* the client gets a 500.
RollBackOrder(h) ==
    LET o == job[h].doc
    IN  /\ At(h, "write")
        /\ orders[o] # "none" \/ (WithinCapital(h) /\ ~LedgerAccepts(o))
        /\ Finish(h)
        /\ UNCHANGED <<db, events, answers, overtaken, dropped, requests>>

\* Mutant: a failed send is swallowed and the client acknowledged.
PublishSwallowed(h) ==
    /\ At(h, "publish")
    /\ Answer(job[h].doc, orders[job[h].doc])
    /\ Finish(h)
    /\ UNCHANGED <<db, events, overtaken, dropped, requests>>

\* The event is sent after the commit, outside the transaction.
PublishOrder(h) ==
    LET o == job[h].doc
    IN  /\ At(h, "publish")
        /\ Announce(o)
        /\ Answer(o, orders[o])
        /\ Finish(h)
        /\ UNCHANGED <<db, overtaken, dropped, requests>>

(***************************************************************************)
(* submitNcr (POST /ncr-collections, and the ncr_collection branch of      *)
(* /sync/push) and verifyNcr.                                              *)
(***************************************************************************)

\* A known clientEventId is acknowledged again.
ReplayNcr(h) ==
    /\ At(h, "findNcr") /\ ncrs[job[h].doc] # "none"
    /\ Finish(h)
    /\ UNCHANGED <<db, events, answers, overtaken, dropped, requests>>

BeginNcr(h) ==
    /\ At(h, "findNcr") /\ ncrs[job[h].doc] = "none"
    /\ Goto(h, "insertNcr")
    /\ UNCHANGED <<db, events, answers, overtaken, dropped, requests>>

\* Recorded unverified; a row committed since the lookup makes the INSERT fail.
InsertNcr(h) ==
    LET n == job[h].doc
    IN  /\ At(h, "insertNcr") /\ n \notin UnknownRef
        /\ ncrs' = IF ncrs[n] = "none" THEN [ncrs EXCEPT ![n] = "submitted"] ELSE ncrs
        /\ Finish(h)
        /\ UNCHANGED <<orders, debits, credits, exposure, events, answers,
                       overtaken, dropped, requests>>

\* checkAuthority(can_post): governance-service allows it ...
Authorize(h) ==
    /\ At(h, "authorize")
    /\ Goto(h, "readNcr")
    /\ UNCHANGED <<db, events, answers, overtaken, dropped, requests>>

\* ... or does not (403), or the transaction finds no row, or a verified one.
RefuseVerification(h) ==
    /\ \/ At(h, "authorize")
       \/ At(h, "readNcr") /\ ncrs[job[h].doc] # "submitted"
    /\ Finish(h)
    /\ UNCHANGED <<db, events, answers, overtaken, dropped, requests>>

ReadNcr(h) ==
    /\ At(h, "readNcr") /\ ncrs[job[h].doc] = "submitted"
    /\ job' = [job EXCEPT ![h] = Job("verify", @.doc, @.avail, FALSE)]
    /\ UNCHANGED <<db, events, answers, overtaken, dropped, requests>>

ReadsFlagOf(g, n) == At(g, "verify") /\ job[g].doc = n

\* UPDATE ... SET verified_flag = true (it does not look at the flag again)
\* and the CREDIT_RECOVERY entry.
VerifyNcr(h) ==
    LET n == job[h].doc
        readers == {g \in Handler : ReadsFlagOf(g, n)}
    IN  /\ At(h, "verify")
        /\ ncrs' = [ncrs EXCEPT ![n] = "verified"]
        /\ credits' = [credits EXCEPT ![n] = @ + 1]
        /\ exposure' = [exposure EXCEPT ![OwnerOf[n]] = @ - Amount[n]]
        /\ CommitOver(h, "publishNcr", readers)
        /\ overtaken' = IF job[h].stale THEN overtaken \cup {n} ELSE overtaken
        /\ UNCHANGED <<orders, debits, events, answers, dropped, requests>>

PublishNcr(h) ==
    /\ At(h, "publishNcr")
    /\ Announce(job[h].doc)
    /\ Finish(h)
    /\ UNCHANGED <<db, answers, overtaken, dropped, requests>>

(***************************************************************************)
(* Failures: the database connection or the process dies, the INSERT hits  *)
(* another document's order number, the broker does not answer.  An open   *)
(* transaction rolls back; what was committed stays, and the event of a    *)
(* handler that got past its commit is not sent by anybody else.           *)
(***************************************************************************)
Publishing(h) == At(h, "publish") \/ At(h, "publishNcr")

Fail(h) ==
    /\ ~At(h, "idle")
    /\ dropped' = IF Publishing(h) THEN dropped \cup {job[h].doc} ELSE dropped
    /\ Finish(h)
    /\ UNCHANGED <<db, events, answers, overtaken, requests>>

\* The broker stored the event but its answer was lost: the client sees an
\* error although order and event are both there.
PublishUnacknowledged(h) ==
    /\ Publishing(h)
    /\ Announce(job[h].doc)
    /\ Finish(h)
    /\ UNCHANGED <<db, answers, overtaken, dropped, requests>>

Step(h) ==
    \/ ReplayOrder(h) \/ BeginOrder(h) \/ CheckCapital(h) \/ UnknownParty(h)
    \/ ConfirmAgentOrder(h) \/ ConfirmDirectOrder(h) \/ ParkOrder(h)
    \/ RollBackOrder(h) \/ PublishOrder(h)
    \/ ReplayNcr(h) \/ BeginNcr(h) \/ InsertNcr(h)
    \/ Authorize(h) \/ RefuseVerification(h) \/ ReadNcr(h) \/ VerifyNcr(h)
    \/ PublishNcr(h)

Next ==
    \E h \in Handler :
        \/ \E o \in Order : Receive(h, o, "lookup")
        \/ \E n \in Ncr : Receive(h, n, "findNcr") \/ Receive(h, n, "authorize")
        \/ Step(h)
        \/ Fail(h)
        \/ PublishUnacknowledged(h)

Spec == Init /\ [][Next]_vars

\* A handler that does not fail goes on: the event loop resumes every
\* awaited call that the database, governance or the broker answers.
FairSpec == Spec /\ \A h \in Handler : WF_vars(Step(h))

--------------------------------------------------------------------------------
(***************************************************************************)
(* Properties.                                                             *)
(***************************************************************************)

\* Exactly one ledger debit for every confirmed agent order, none for a
\* blocked, direct or unknown one; capital comes back only from a verified
\* NCR (sales.service.ts 114-123, migration 010 lines 96-99), through every
\* retry, concurrent duplicate and failure.
LedgerMatchesDocuments ==
    /\ \A o \in Order :
          debits[o] = IF orders[o] = "CONFIRMED" /\ o \notin Direct THEN 1 ELSE 0
    /\ \A n \in Ncr : credits[n] > 0 <=> ncrs[n] = "verified"

\* An agent is beyond the approved capital, or an NCR is credited twice, only
\* where a commit went through on a read another commit had overtaken: the
\* gate of createSalesOrder and the flag check of verifyNcr are right in
\* every other interleaving.
GateHoldsUnlessOvertaken ==
    /\ \A a \in Agent : exposure[a] <= Approved[a] \/ a \in overtaken
    /\ \A n \in Ncr : credits[n] <= 1 \/ n \in overtaken

\* Retries never hear two different outcomes of one order, and never hear
\* an outcome the row does not have.
OneAnswerPerOrder ==
    \A o \in Order : answers[o] \subseteq
        IF orders[o] = "none" THEN {} ELSE {AnswerFor(orders[o])}

\* Handler h confirmed order o and has not published it yet.
Owes(h, o) == At(h, "publish") /\ job[h].doc = o

\* A confirmed order's event is out exactly once, or is still in the hands
\* of the handler that confirmed it, or was dropped with that handler: no
\* other path loses or repeats it (an idempotent replay publishes nothing).
EventOwedOnce ==
    \A o \in Order : orders[o] = "CONFIRMED" =>
        \/ events[o] = 1 /\ o \notin dropped /\ \A h \in Handler : ~Owes(h, o)
        \/ events[o] = 0 /\ o \in dropped /\ \A h \in Handler : ~Owes(h, o)
        \/ events[o] = 0 /\ o \notin dropped
           /\ \E h \in Handler : \A g \in Handler : Owes(g, o) <=> g = h

\* The service implements the promise of OrderIntake.
Intake == INSTANCE OrderIntake WITH
    decision <- orders, charged <- debits,
    announced <- [o \in Order |-> events[o]]
ImplementsIntake == Intake!IntakeSpec

\* Unless its handler fails, a confirmed order does reach the ledger's topic.
ConfirmedIsAnnounced ==
    \A o \in Order : orders[o] = "CONFIRMED" ~> (events[o] = 1 \/ o \in dropped)

\* What the class comment of SalesService claims (sales.service.ts 18-21):
\* that reading the exposure and writing the entry in one transaction closes
\* the race of two rapid orders.
CapitalNeverExceeded == \A a \in Agent : exposure[a] <= Approved[a]
================================================================================
