# A verification development for Metrock ERP

TLA+ modules, TLC configurations and TLAPS proofs about the code of this
repository: a multi-tenant, offline-first ERP in which a Flutter application
captures documents without a connection, NestJS services apply them to Postgres,
Kafka carries their events, and a Go service turns the events into double-entry
journal entries.  The models follow the source, definition by definition
(`PROJECT.json`, `map`); where the source and its comments or documents
disagree, the models follow the source and the disagreement is listed under
[What the models found](#what-the-models-found).

Paths below are relative to `src/`.

## The system

    Flutter app: capture -> Drift database + outbox_events
       | POST /sync/push (one request per service)        ^ GET /sync/pull (sync_seq cursor)
       v                                                  |
    domain services (NestJS, Prisma $transaction at READ COMMITTED, RLS per tenant)
       |  synchronous HTTP to governance-service: may this user post / approve?
       |  after the commit: kafka.publish to the one topic erp.events, keyed by tenant
       v
    ledger-service (Go consumer group)          accounting-service (KafkaJS consumer)
       | journal_entries, journal_lines             vendor_bills, customer_invoices
       | integration_queue, failed_posting_review
       v
    finance-connector-service (timer) -> external_ledger_postings

Three facts shape everything that is hard here.

1. *Every service transaction runs at READ COMMITTED and locks no row it reads.*
   A decision taken on a read can be outdated when its write commits.  Only unique
   keys and CHECKs stop a second writer, and they see values, not decisions.
2. *Events are sent after the commit, outside the transaction, without an outbox.*
   A handler that dies between the two loses the event; the client's retry takes
   the idempotent replay path, which publishes nothing.
3. *Every consumer of a message or an answer may get it twice, or late.*
   Phones retry, broker groups redeliver, timers overlap themselves.

### Inventory

| Component | State | Operations | Interacts through | Hard behaviour | Correct when |
|---|---|---|---|---|---|
| Order capture and trading capital, `backend/sales-service` | `sales_orders`, `ncr_collections`, append-only `trading_capital_ledger` | createSalesOrder, submitNcr, verifyNcr | push gateway, governance (can_post), erp.events | check and insert of two orders; concurrent duplicate; death between commit and publish; double verification | debits and credits match documents; capital not exceeded; one answer per order; event owed once |
| Agent onboarding, `backend/sales-service` | onboarding request, agent | submit, approve (stages), reject | governance | read, await, write of a stage | no stage is jumped; an agent is provisioned once |
| Goods receipt, `backend/procurement-service` | `goods_receipts`, `purchase_order_lines.received_qty` | createGoodsReceipt | push gateway, erp.events | stale base of `received_qty`; publication line by line | received is what was delivered; no over-receipt; every line announced once |
| Purchase order approval | `approval_status`, `current_approval_stage` | approve, reject | governance | as onboarding | as onboarding; a decision stands |
| Bills, invoices, payments, `backend/accounting-service` | `vendor_bills`, lines, `customer_invoices`, payments | handleGrnPosted, handleSalesOrderFulfilled, recordPayment | erp.events in and out, governance | redelivery; a bill that grows while it is paid; concurrent payments | each message counts once; paid is the sum of payments; status tells the balance |
| Journals, expenses, period close, reports | `journal_entries`, `journal_lines`, `expense_requests`, `expense_categories` | create, approve, reject, deactivate, close, report | governance; tables shared with ledger-service | decisions over a stale read; amounts rounded by the columns | nothing booked twice; a close zeroes what is there; the reports agree with each other |
| Ledger, `backend/ledger-service` | journal entries and lines, queue, reviews, committed offset | consume, post, record failure | erp.events, integration_queue | rebalance, crash, redelivery; failed statements | one balanced entry per event; every message answered |
| Finance connector, `backend/finance-connector-service` | `integration_queue`, `failed_posting_review`, `external_ledger_postings` | poll, post, mark, record failure, retry, dismiss | the queue | overlapping cycles, crash between post and mark, stale retry counts | one external posting per row; nothing given up unseen |
| Mobile sync, `apps/mobile` and the gateways | `outbox_events`, cache, cursors; rows with `sync_seq` | capture, push, pull | HTTP | app killed, answer lost, request outliving its connection, late commits | the outbox tells the truth; every event answered; the cursor skips nothing |
| Authorization, approval matrix, audit, `backend/governance-service` | matrix, roles, hash-chained `audit_log` | checkAuthority, checkApprovalAuthority, recordEntry, verifyChain | HTTP | concurrent append; an answer that comes late | the chain is a chain; only an approver of the stage approves |
| Production and cost review, `backend/manufacturing-service` | batches, review stage | close, post events, approve, reject | push gateway, erp.events, governance | publication of several events; decision then error | the ledger hears what a batch is owed, in order and once; a batch under review posts nothing |
| Payroll, attendance, `backend/hr-service` | runs, records, `attendance_logs` | calculate, post, record a clock event | push gateway, erp.events, governance | two posts of one run; tax bands at their bounds; two devices, one clock event | a run is announced once and costs what the statute says; one row per employee, type and hour |
| Trips, fuel, maintenance, `backend/fleet-service` | trips, `current_mileage`, fuel records, maintenance requests | createTripLog, createFuelRecord, submit, approve, reject | push gateway, erp.events, governance | trips that overtake each other; a submission after an approval | the mileage covers every trip; one open service request; a completed repair stays completed |
| Customers, activities, opportunities, `backend/crm-service` | documents | create, change status, capture | push gateway | idempotent replay | a captured activity exists once |
| Master data, `backend/governance-service` | tenants, users, roles, plants, reason codes | insert, list | - | - | - |
| UI, login, contracts, deployment | - | - | - | no state machine of their own | - |

`PROJECT.json` lists every component with its status, and every hazard at the line
where it bites.

## Modules

| Module | What it is | Source |
|---|---|---|
| `OrderIntake` | abstract promise about one captured order: decided at most once, charged in the deciding step, announced at most once and only after approval | - |
| `EventPosting` | abstract promise about erp.events: an event is posted once or reviewed, never both, and a commit puts the offset forward or back but never past a message that was not handled to an end | - |
| `MirroredQueue` | abstract promise about a queue row: mirrored once, for good, by the connector it names; given up in sight of a reviewer; refused by the ledger and shown later or never | - |
| `TradingCapital` | sales-service: orders, cash collections, capital | `backend/sales-service/src/{sales,ncr,agents,sync}` |
| `GoodsReceipt` | procurement-service: receipts against PO lines | `backend/procurement-service/src/{procurement,sync}` |
| `Settlement` | accounting-service: consumer, bills, invoices, payments | `backend/accounting-service/src/{bills,invoices,kafka}` |
| `ProcureToPay` | `GoodsReceipt` and `Settlement` joined by one partition of erp.events | both |
| `MobileSync` | one device, its outbox, passes, cache and cursors; the gateways of its services | `apps/mobile/lib/core/{sync,database}`, the services' `sync.service.ts` |
| `Ledger` | ledger-service: consumer group and posting engine | `backend/ledger-service/internal/{kafka,ledger}` |
| `FinanceConnector` | poller, connector, reviews | `backend/finance-connector-service/src/{sync,connectors,review}` |
| `Governance` | the approval matrix, who may post, the hash-chained audit log | `backend/governance-service/src/{authorization,audit}` |
| `Books` | balances, manual entries, the lines of a close, the reports | `backend/accounting-service/src/{journals,period-close,reports,expenses}` |
| `Payroll` | salaries and statutory deductions, and the statute itself | `backend/hr-service/src/payroll` |
| `BackOffice` | everything the office decides: approvals, postings, the close | the services' approve, reject and post methods |
| `FieldCapture` | batches, trips, fuel, clock events, activities, online or pushed; composed with `BackOffice` | `backend/{manufacturing,fleet,hr,crm}-service/src` |
| `Collections` | a filter for sequences | - |
| `*_proofs` | theorems about the module they are named after; `ProcureToPay_proofs` also about `Settlement`, `FieldCapture_proofs` also about `BackOffice`, `Governance`, `Books` and `Payroll`; `Collections_proofs` about sums and filters | - |
| `MC*` | values of the constants for TLC | - |

Conventions: a request handler, poll cycle, reviewer, clerk or consumer instance is
an element of a set of workers, with a record that says where it is and what its
open transaction has read.  Each `await` of the code is a step boundary; statements
between two awaits, and the writes of one transaction together with its COMMIT, are
one step, because nobody else sees anything in between.  A transaction's reads are a
step of their own whenever what they saw is used by the write.  Variables marked
*history* are not in the program: they record that a stale read was committed, or
that a handler died, so that a property can say *exactly* when something may go
wrong.  Definitions headed "Mutant" are never used by a specification: each is a
plausible bug with which the run of its property must fail.

### TradingCapital and OrderIntake

`Receive` starts a request; `ReplayOrder` is the early return for a known
clientEventId; `CheckCapital` is the transaction's aggregate over the ledger
(`sales.service.ts` 62-92), and `ConfirmAgentOrder`, `ConfirmDirectOrder`,
`ParkOrder` and `RollBackOrder` are the four ends of that transaction; `PublishOrder`
is the send after it.  `submitNcr` and `verifyNcr` follow the same pattern.  `Fail`
kills a handler anywhere (rolling back what is open), `PublishUnacknowledged` is a
broker that stored the event although the send threw.  `exposure[a]` stands for the
SUM the code computes; `debits` and `credits` count the entries behind it.
`OrderIntake` knows only decision, charge and announcement; the mapping is in
`Intake == INSTANCE OrderIntake WITH ...` and the run checks `ImplementsIntake`.

### GoodsReceipt, Settlement, ProcureToPay

`ReadPoLines` / `AcceptGrn` keep the code's arithmetic as it is: each line is compared
with the value *read* (`OverReceipt`), and `received_qty` is *assigned* what was read
plus the line (`NewReceivedQty`), the last line of a PO line winning.
`PublishLine` is one turn of the publication loop.  `Settlement` reads the topic in
order with a `position` and a broker-side `committed` offset; its handlers commit
bill, line and increment together; a payment reads (`BeginPayment`) and writes
(`CommitPayment`) in steps of their own.  `Settlement` is written for any set of
documents and messages; `ProcureToPay` instantiates it with bills per receipt and
invoices per order and lets both services write one `topic`.

### MobileSync

`pass` is `syncNow`: select and mark in flight, one request per service, record
results row by row, then pull table by table, page by page, cursor after cache.
`wire` holds requests a service has not finished, including one whose connection is
gone.  A service is one table; `Draw` takes the `bigserial` at the INSERT,
`CommitRow` makes the row visible.  `Kill`, `LoseConnection`, `ServiceFails` and
`PullFails` may strike at any point, `MaxFaults` times.

### Ledger and EventPosting

An instance fetches, handles and commits; `position` is the message its reader delivers
next, which `Take` sets back to the committed offset.  `Rebalance` moves the partition to
another instance, or assigns it anew to the same one, whatever anybody has in hand.  An instance that
lost the partition goes on with its message and commits it: the Reader of kafka-go (v0.4.47,
go.mod) keeps one channel of offsets for all generations and sends what is in it under the
generation and member id its instance has by then, and the broker checks those two and not
whose the partition is.  So `CommitMessages` assigns the offset whoever the owner
is, also below what the new owner committed; if the request went out before the
instance had joined again, it is refused and changes nothing.  An offset that moved back means
that messages are delivered again, to the next reader that starts there.  `Class` abstracts what the
engine makes of an event: posted, unposted (no rule, no positive amount: recorded
for review), refused (a statement the database rejects), malformed (no JSON).  The
class of an event is fixed: a rule activated between two deliveries is not modelled.
`InsertEntry` takes the unique key and `CommitEntry` ends the transaction, so two
instances that insert the same event meet as they do in Postgres: the second waits.
`EventPosting` knows neither instances nor keys nor deliveries, only the topic, the books,
who is in review and the committed offset; `Posting` maps to it with `reviewed` the events
that have a review row.  A `Commit` of it is the commit of an offset, in either
direction, a `Review` the first review row of an event.

### FinanceConnector and MirroredQueue

A cycle keeps the rows as it read them, with their `retry_count`; `PostRow` is the
upsert that updates nothing, `MarkPosted` the second transaction, `RecordFailure`
the unconditional update.  The ledger's side of the queue is `Enqueue`, the PENDING row it
writes with an entry, and, for an event it could not post, the two statements of its
`recordFailure`: `RecordRefusal` writes the row as FAILED for the system NONE and
`RecordReview` its review, later or, after a crash or an error in between, never.  So
`FailedIsInReview` is about the rows the connector gave up, whose FAILED and review are one
transaction.  A reviewer
reads and writes in two steps.  The code closes a review as RESOLVED whether it was
retried or dismissed; the model keeps which, so that `FailedIsInReview` can say it.
`MirroredQueue` has a row's status, its external posting and whether it is in sight (a
review open or dismissed), and neither cycles nor retry counts; `Mirrored` is the mapping.
`Refuse` and `Show` are the ledger's two statements.  A `GiveUp` of it may befall a row that is POSTED, since `recordFailure` writes FAILED
whatever the row has become; its posting stays what it was.

### Governance, Books, Payroll, BackOffice

`BackOffice` extends the three others: `Governance` answers its requests and owns the
variable `chain` (`audit_log`), `Books` owns `balance`, `Payroll` is pure arithmetic.

A handler is one request.  Every approve and reject method has the same four steps
in the code, and here: `Review` reads the row, which must be pending; `Decide` is
governance-service evaluating the matrix and reading the last row of the audit log;
`Record` appends the audit row and gives the answer; the write (`Advance` to the
next stage, or `Settle`) follows without another look at the row.  What the write does
differs per document and is spelled out per method: an agent is provisioned behind a
unique code, an expense or a journal entry changes the balances, a repair is announced
after its commit.  `PostRun` asks governance first and reads the run afterwards;
`CloseBooks` reads the balances first.  `Abandon` drops a request at any await.

Where a write can be stale is recorded in three history variables: a job is `old` when
another request has written its document (for a close: the balances) since it was read,
`raced` collects the documents written by such a job, `behind` and `crossed` say the
same of the audit chain.  The properties hold outside `raced` and `crossed`; that what
they exempt does happen is what the findings say.

`LedgerPosts` is the posting engine of `Ledger`, which writes the tables the close
reads.  Amounts of manual entries are in tenths of a cent on their way in and in cents in
the columns (`AsStored`), which is where a "balanced" entry may lose a cent.
`Payroll` computes in integers scaled so that every product of the code is exact up to
the final rounding; `StatutoryHH` counts naira by naira what the bands take, and the run
compares the two.

### FieldCapture

`Lookup` is a request's idempotent replay or its passage to the write; `Store` the
transaction with its unique `client_event_id`; `PublishNext` the events after it, one
per step; `Fail` an exception or a crash anywhere.  `ReadVehicle` and `CreateTripLog`
keep the code's stale mileage, while the row lock its UPDATE takes orders what follows.
A batch brings about a cost review and a trip or a deviating fuel record a maintenance
request, which `BackOffice` then decides: both modules run in one state space.

## Runs

| Run | Question | Properties |
|---|---|---|
| `trading_capital` | Do orders, ledger, answers and events stay in step through retries, duplicates and failures? | `LedgerMatchesDocuments`, `GateHoldsUnlessOvertaken`, `OneAnswerPerOrder`, `EventOwedOnce`, `ImplementsIntake`, `ConfirmedIsAnnounced` |
| `capital_race` | Is capital never exceeded, as the class comment says? **No.** | `CapitalNeverExceeded` |
| `goods_receipt` | Is `received_qty` right, and is each line announced exactly as far as the loop got? | `ReceivedMatchesReceipts`, `AnnouncedLineByLine`, `OneAnswerPerGrn`, `PendingIsPosted` |
| `over_receipt` | Is over-receipt impossible, as the migration says? **No.** | `NeverOverReceived` |
| `procure_to_pay` | Do receipts, bills and payments agree across two services and a restarting consumer? | `CountedOnce`, `PaymentsAddUp`, `StatusTellsBalance`, `BillsFollowReceipts`, `ReceiptIsBilled` |
| `mobile_sync` | Does the device believe only what is true, and what may its cursor miss? | `OutboxTellsTruth`, `CursorSkipsOnlyLate` |
| `mobile_sync_progress` | Is every captured event answered? | `CapturedIsAnswered` |
| `stranded_outbox` | Is the full outbox replayed on reconnect, as the SDD says? **No.** | `OutboxIsReplayed` |
| `ledger` | Is every event posted at most once and every message handled to an end? | `PostedOnce`, `ImplementsPosting`, `EventuallyHandled` |
| `dropped_event` | Is every committed message posted or in review, as consumer.go says? **No.** | `NoEventDropped` |
| `finance_connector` | Do overlapping cycles, crashes, a row that always fails and reviewers keep one posting per row and lose no failure? | `FailedIsInReview`, `ImplementsMirror`, `EventuallySettled` |
| `field_office` | Do approvals, postings, the books, the audit log and what the field captures stay in step through late writes, retries and failures? | `GrantedStageByStage`, `EffectsOnce`, `BalanceSheetExplained`, `ChainForksOnlyWhenCrossed`, `PayrollFollowsStatute`, `OneAnswerPerCapture`, `AnnouncedAsOwed`, `VehicleIsWatched`, `OnlyLateWritesSpoil` |

Every passing run also checks its module's type invariant (`TypeOK`, `GrnTypeOK`, ...),
and all runs but the violations explore their whole state space.

### Bounds and why they are enough

* Workers: two of each kind.  Every hazard listed is a race of two; a third worker
  adds interleavings of races that are already there.
* `MaxRequests = 4` (`MaxReceipts = 4`): a first attempt and a retry of each of two
  documents, or two pairs of competing documents.  The five orders are one of each
  kind: two that compete, a direct one, a worthless one (refused by
  `one_sided_ledger_entry`), one with an unknown party.  The receipt lines likewise:
  two that compete, two for one PO line in one receipt, one rejected outright.
* `procure_to_pay` uses one receiving handler and one request, since receiving is
  explored by `goods_receipt`; two clerks, two payments of 1 and one restart are what
  it takes to overtake a read, settle a bill and deliver a line again.  The
  request is for a receipt of two lines or for one that brings more than was ordered,
  which must leave no bill.
* `mobile_sync`: `PageSize = 1` makes every page full and moves the cursor row by row,
  `BatchSize = 2` of three events splits a capture over two passes (50 and 200 in the
  code), two faults allow a lost answer followed by a kill.  `mobile_sync_progress`
  leaves out the other device's row, on which no outbox row depends, to check liveness
  with two faults as well.
* `ledger`: three messages over four events cover a redelivered or repeated event next
  to another; two faults, a rebalance followed by a crash, by a failed statement or by another rebalance,
  under an instance that still has an earlier message to commit.
* `finance_connector`: a row of the connector that exists, one of a connector that
  throws on every attempt, and one the ledger could not post.  `MaxRows = 2` of them are
  queued in a behaviour, any two: a batch is never longer, and the third kind is never in
  one.  Two cycles overlap; `MaxRetries = 2`
  (3 in the code) is one failure that does not escalate and one that does;
  `MaxReviews = 2` one retry after giving up.
* `field_office` starts in one of 14 scenes, each with the documents and captures that can
  disturb one another: a single staged approval of each kind that differs (a purchase order
  whose plant has a band of its own, an onboarding of two stages), an expense or a
  journal entry next to a close, two closes next to an entry of ledger-service, two
  entries that round and do not balance, a payroll run, a batch and its review, two batches, a trip
  and its repair, two trips of one vehicle, a trip and its fuel, two clock events of one
  hour, an activity.  Documents of different scenes share no row but those of the audit log,
  which two requests of any scene race for.  Two requests at a time race; three in
  all (four pushes) are two that race for the last stage after the first was granted, or a
  first attempt, its rival and a retry.  Three users (one without a role), three kinds of
  band: one stage, two stages, a third stage behind a gap that no request may reach.
* `MaxFaults`, `MaxRestarts`, `MaxPayments`, `MaxRows`, `MaxReviews`, `MaxMessages` and the scenes'
  `requests` and `pushes` bound behaviours, not values; no property mentions them except
  `EventuallyHandled`, which quantifies over the messages there can be.

`field_office` checks safety only and uses symmetry over its handlers and over its field
requests: no definition chooses or names one of them.  No other run uses symmetry, since
liveness is checked in most of them.
`CHECK_DEADLOCK FALSE` is set everywhere because the systems may stop: no client need
send anything once the bound on requests is reached.

### Fairness

Weak fairness of a worker's own steps, never of failures, retries, new requests or
people.

* A handler that has not failed goes on (`WF(Step(h))`, `WF(GrnStep(h))`): the event
  loop resumes each await the database, governance or the broker answers; an answer
  that never comes is `Fail`.
* The accounting consumer keeps polling; the ledger's partition is assigned again when
  its owner is gone, and an instance goes on with what it fetched.
* The phone starts a pass again and again (connectivity, the sync button, the pass
  after each capture), a pass goes on, and a service goes on with each request.
* The connector's timer ticks (`setInterval`) and a cycle goes on.

`BackOffice` and `FieldCapture` state no fairness: their requests are made by people, end
whenever an answer does not come, and nothing retries them.

## What the models found

With a run that exhibits it:

1. `capital_race`: the comment of `SalesService` claims that reading the exposure and
   inserting the debit in one transaction closes the race of two rapid orders.  At READ
   COMMITTED it does not.
2. `over_receipt`: migration 004 calls its CHECK a hard invariant.  The CHECK guards
   `received_qty`, which two receipts assign from the same base.
3. `stranded_outbox`: an app killed in the middle of a push never sends those rows
   again; the SDD promises the full outbox is replayed.
4. `dropped_event`: consumer.go says an offset is committed only when the event was
   posted or put in review.  Errors other than a missing rule or amount end in a log line.

Stated by the exceptions the properties make, without a run of their own:

* `StatusTellsBalance`: a bill that grows after it was PAID stays PAID.
* `CapturedIsAnswered`: one event whose handler always throws blocks its batch for ever.
* `CursorSkipsOnlyLate`: a pull between two commits skips the row that commits later.
* `GateHoldsUnlessOvertaken`: a collection verified twice at once is credited twice.
* `OnlyLateWritesSpoil`, `EffectsOnce` (histories `raced`): a rejection written after an approval
  un-posts an entry, two final approvals book an expense twice, two posts announce
  a payroll run twice, a late submission re-opens a completed repair, and a close
  writes the closing lines of balances that have changed, twice if two run at once.
* `ChainForksOnlyWhenCrossed`: two answers recorded at once fork the audit chain, after which
  `verifyChain` fails for good although nobody tampered with it.
* `BalanceSheetExplained`: a manual entry whose lines are balanced as sent may be stored out of
  balance by cents.
* `VehicleIsWatched` (history `overrun`): the mileage of a vehicle can go back when trips overtake
  each other.

Read in the code while modelling it: the final approval of a batch cost commits and is then
answered with 400; a batch cost band of a plant puts a batch under a review nobody can end;
after its first service a vehicle past its threshold opens a service request with every trip
that finds none open; a clock event retried in a later hour is stored again.  All are in
`PROJECT.json`, `findings`, with the lines.

## Proofs

Every invariant, action property and refinement the passing runs check is also a theorem of
its specification, for every value of the constants: any number of handlers,
documents, captures, messages, amounts, bands and requests.  The theorems rest on the
named assumptions of the modules (below) and on nothing else but the library's facts on
finite sets, functions and sequences.

| Module | Theorem | Property |
|---|---|---|
| `TradingCapital_proofs` | `TypeCorrect`, `LedgerIsExact`, `GateIsSound`, `AnswersAgree`, `EventIsOwedOnce`, `IntakeImplemented` | `TypeOK`, `LedgerMatchesDocuments`, `GateHoldsUnlessOvertaken`, `OneAnswerPerOrder`, `EventOwedOnce`, `ImplementsIntake` |
| `GoodsReceipt_proofs` | `GrnTypeCorrect`, `GrnAnsweredOnce`, `GrnAnnounced`, `ReceivedIsDelivered` | `GrnTypeOK`, `OneAnswerPerGrn`, `AnnouncedLineByLine`, `ReceivedMatchesReceipts` |
| `ProcureToPay_proofs` | `SettlementTypeCorrect`, `MessagesCountOnce`, `PaymentsBalance`, `StatusIsTruthful`, `BillsAreForReceipts` | `SettlementTypeOK`, `CountedOnce`, `PaymentsAddUp`, `StatusTellsBalance`, `BillsFollowReceipts` |
| `Ledger_proofs` | `LedgerTypeCorrect`, `PostingIsIdempotent`, `NothingIsPassedOver`, `PostingImplemented` | `LedgerTypeOK`, `PostedOnce`, `CommittedIsHandled`, `ImplementsPosting` |
| `FinanceConnector_proofs` | `ConnectorTypeCorrect`, `PostedRowsAreMirrored`, `FailuresAreInSight`, `MirrorImplemented` | `ConnectorTypeOK`, `PostedIsMirrored`, `FailedIsInReview`, `ImplementsMirror` |
| `MobileSync_proofs` | `SyncTypeCorrect`, `OutboxIsTruthful`, `CursorIsSafe` | `SyncTypeOK`, `OutboxTellsTruth`, `CursorSkipsOnlyLate` |
| `FieldCapture_proofs` | `FieldTypeCorrect`, `LogForksOnlyWhenCrossed`, `TimelyWritesAreSafe`, `EffectsHappenOnce`, `StagesAreGranted`, `CaptureAnsweredOnce`, `CaptureAnnounced`, `VehiclesAreWatched`, `ReportsAgree`, `PayrollIsStatutory` | `FieldTypeOK`, `ChainForksOnlyWhenCrossed`, `OnlyLateWritesSpoil`, `EffectsOnce`, `GrantedStageByStage`, `OneAnswerPerCapture`, `AnnouncedAsOwed`, `VehicleIsWatched`, `BalanceSheetExplained`, `PayrollFollowsStatute` |

`CommittedIsHandled` and `PostedIsMirrored` have no run of their own: the refinements that
the runs check contain what they say.  The proofs of the refinements use them.

`Collections_proofs` holds what the others share: sums over finite sets, filtered
sequences, least and largest elements.

### The inductive invariants

Each safety theorem has the shape: initial states, steps, the invariant implies the
property, PTL.  Few of the properties are inductive; what has to be added says what
the workers know of the rows while they are between two awaits.

*TradingCapital.*  `LedgerMatchesDocuments` needs only types: an order is confirmed and debited
in one step guarded by "no row yet".  The gate needs `FreshReads`: a handler about to
write on a read no commit has overtaken holds a lower bound of the capital that is left,
and a verifier in the same position faces an uncredited collection.  Answers and events
need `OnlyConfirmed`: a handler at the publish step has a confirmed order, and an order
that is not confirmed has no event and was not dropped.  `IntakeStep` maps each
`[Next]_vars` to `[IntakeNext]_intakeVars` with the help of these.

*GoodsReceipt.*  `PublisherOK`: the lines of a receipt are published by one handler at a
time, while it is PENDING, and after that handler's failure by nobody.  `SentSoFar`: what the
topic holds of each receipt at each point of the loop.  `FreshReads`: a read is current
for every PO line nobody has committed to since, and the receipts summed over are finitely
many.

*ProcureToPay.*  `PipelineInv` joins the two services: `RequestsOK` (what an open payment knows of
its document, unless overtaken), `NoRowNoMoney` (nothing is counted for a document without a
row), `TotalsCounted` and `PassedIsHandled` (the two halves of `CountedOnce`),
`PaymentsAnnounced` and `PaidIsRecorded` (those of `PaymentsAddUp`), and `NotAppliedNotBilled`, which
carries "no bill without a receipt" across the topic.

*Ledger.*  `KeyIsHeld`: an uncommitted entry and the instance that inserts it determine each
other, and the key is held only for events without a committed entry; with it
`PostedOnce` is inductive, without it the COMMIT could be of a second entry.
`HandledInOrder`: the reader delivers, and an instance handles or commits, an offset only when
every earlier one was handled, by whichever instance, and what was handled stays handled.  It is why a commit that
comes late, and moves the offset back or, past the new owner's position, forward,
still covers handled messages only.  The refinement needs
one more: `KindsOK` (an event with an entry is of the class the engine posts, one with a review row or
about to get one is of the class it does not), which makes "posted or
reviewed, never both" hold.  `CommitPosts`,
`RecordReviews` and `CommitCovers` are the three steps that are not stutters of the group's
work: the COMMIT of an entry, the first review row, the commit of an offset.

*FinanceConnector.*  `MarksArePosted`: a cycle about to mark its row has posted it or found it
posted.  `FailedIsInReview` is inductive with the types, which include that no PENDING row has
used up its attempts, and says nothing of the rows of system NONE.  The refinement needs `RowsKnown`: every row in a cycle's
batch was queued (that it names a connector is part of its type), every review is of a queued row, and a reviewer
about to retry does so for a row of the implemented connector; so no stale cycle or
reviewer mirrors, gives up or reopens what the ledger could not post.  The step lemmas
(`EnqueueQueues`, `ReviewShows`, `PostMirrors`, `MarkSettles`, `FailureGivesUp`, `RetryReopens`,
`DismissalDismisses`) then give each action its step of `MirroredQueue`.

*MobileSync.*  `SyncInv`: numbers are drawn once and kept (`SeqOK`); the results on the
wire and in the pass are true, and stay true although a row may be revised (`WireTruth`,
`PassTruth`); the device waits for one request, which has answered or still holds each
event of the group (`WaitOK`); the cursor is the number of a committed row (`CursorOK`);
and a fetched page leaves out no row that committed in time (`PageOK`), which is what
makes the cursor's step over it safe.

*FieldCapture and BackOffice.*  The steps are first reduced to the few shapes that matter to
documents and requests (`OfficeMove`, `FieldMove`), so that each invariant is shown for a
handful of shapes and not for every method.  On them rest, in this order:

* `FieldInv`, the types, what each request is about (`JobsOK`, `TaskKinds`) and the shape of
  the log (`ChainOK`).
* `ForkInv`: a request about to record is `behind` exactly when the row it read is no longer the
  last (`ForksKnown`).
* `DeedInv`: what a request's own copy says of its document unless it is `old`
  (`Standings`); one request inserts a document and one closes the books
  (`Aparts`); a capture that is not stored brought nothing about (`RowsAhead`);
  nothing is granted before it was asked (`Asked`).
* `EffectInv`: what was brought about fits status and amount (`BroughtOnce`), an agent is
  provisioned once even by late writes (`AgentsOnce`), and a publisher's document has had no
  announcement (`PublishersOK`).
* `GrantInv`: the log holds a grant for each stage a document or a request has passed.  It
  needs a hypothesis, `BandsAgree`: rows of the matrix that cover one amount ask for the
  same roles.  `findFirst` takes any row and the schema (003_governance.sql:70-83)
  does not forbid two; its seeds do not overlap, and TLC evaluates `BandsAgree` for the
  matrix of the run.
* `AnswerInv` (an answer fits the rows, one clock event has one row), `TellInv` (what is announced
  and what the publishing request still holds make up what is owed), `WatchInv` (what a request
  read of a vehicle is the mileage, or old).
* `BookInv`: the trial balance is the sum of what the posted manual entries lost
  in rounding.  It needs `CategoryOK`: an expense is approved only once its category books to an
  expense account and so never to accounts payable itself, else the entry's two lines
  would fall on one account.
* `PayInv`: a calculated run costs what the code's formula makes of some revenue.  That the
  formula is the statute is a fact about the operators of `Payroll`
  (`TaxIsStatutory`): each band takes the hundredths it covers (`BandCounts`), and adding up by
  band or by rate comes to the same (`BandsAndRates`).  It holds where no two bands tax
  the same naira (`BandsApart`), a hypothesis of the theorem: the table
  has no such constraint, its seeds comply, and TLC evaluates it for the bands of the run.

### What is assumed

The constants are what the database or the caller guarantees: well-typed rows, finite
tables (`LinesAssumption`, `QuantitiesAssumption`, `DocsAssumption`, `MoneyAssumption`, `RequestsAssumption`,
`SyncAssumption`, `LedgerAssumption`, `ConnectorAssumption`, `PipelineAssumption`, `GovernanceAssumption`,
`BooksAssumption`, `PayrollAssumption`, `OfficeAssumption`, `FieldAssumption`).  One of them is a
fact about code modelled elsewhere: the entries of ledger-service balance, because the
posting engine writes a debit and a credit line of one amount (posting_engine.go:87-96).
TLC evaluates every assumption on the runs.

### How sums are reasoned about

The sums are folds of the community modules, defined by a recursive function chosen with
CHOOSE.  Its existence, and what it does with one element more, is proved in
`Collections_proofs` by descent instead of an induction theorem with an operator
parameter: of the finite sets for which a claim fails, one of least cardinality is looked at
(`LeastOf`, `FiniteDescent`).  From this follow `SumSplit`, `SumUnion`, `SumPlus`, `SumSame` and
`SumZero`, and likewise the facts about `Keep`, the filter the models use because its
condition is a set and not an operator.

### Model-checked only

Liveness: `ConfirmedIsAnnounced`, `PendingIsPosted`, `ReceiptIsBilled`, `CapturedIsAnswered`,
`EventuallyHandled` and `EventuallySettled` need fairness and ENABLED, which are out of the prover's
reach.  The four properties expected to fail are refuted by TLC.

## Not modelled, and why

* Master data (tenants, users, roles, plants, warehouses, reason codes, vehicles, recipes,
  employees, the chart of accounts) and the rows of the approval matrix: plain inserts,
  constants here.  A matrix that changes between two stages of a document is therefore not
  explored; the code does not say which version should apply.
* Read-only listings, including the connector's postings.
* Tenants: one tenant.  `forTenant` confines each transaction to its tenant and erp.events
  is keyed by tenant, so tenants share no state that a property relates.
* Authentication, token validation, validation of request shape, row level security, grants,
  contracts, UI, login, rendering, configuration, deployment, monitoring.
* Money: integers; `Number` arithmetic on decimals in the services is not modelled.  Two
  places where width decides an outcome are: an amount that numeric(14,2) refuses is the
  class "refused" of `Ledger`, one that it rounds is `ToCents` in `Books`.
* What the broker stores: `publish` stands for the event ids and how often a service asked for
  them to be sent.  The kafkajs producer retries a request whose answer it lost and is not
  idempotent, so a message may be stored twice; "once" in `EventOwedOnce`,
  `AnnouncedLineByLine` and `AnnouncedAsOwed` counts publications.  The consumers
  deduplicate (`PostedOnce`, `CountedOnce`), and `Publish` of `Ledger` may repeat an event.
* The reports' filter on the `isActive` of an account: no service deactivates one.
* Fields that no property tells apart (names, dates, quantities that are only copied), and in
  `FieldCapture` the yield of a batch.

## Plan

All components with a state machine of their own are modelled, and every safety property is
proved.  Left, in this order:

1. Liveness of the publications of `FieldCapture` under the fairness of a request's own steps.
2. The approval matrix as a variable, once the code says which version of it applies to a
   document under way; `BandsAgree` would then be an invariant to maintain.
3. An abstract outbox that answers each event once, which `MobileSync` refines up to the row
   a killed app strands.
