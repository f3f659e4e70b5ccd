------------------------------ MODULE BackOffice ------------------------------
(***************************************************************************)
(* The decisions taken in the office: purchase orders, agent onboarding,   *)
(* expenses, manual journal entries, batch cost reviews and maintenance    *)
(* are approved stage by stage or rejected; payroll runs are posted and    *)
(* the books are closed.  Every one of them reads its row, awaits          *)
(* governance-service, and writes the row without looking at it again.     *)
(*                                                                         *)
(* A handler is one request in flight.  Transactions run at READ COMMITTED *)
(* and the writes of one transaction and its COMMIT are one step.  A       *)
(* request for a row that is missing or not pending is refused before it   *)
(* changes anything and is no step here.  FieldCapture brings about the    *)
(* batches and repairs that are decided here.                              *)
(***************************************************************************)
EXTENDS Governance, Books, Payroll

CONSTANTS Handler,       \* requests that can be in flight together
          Doc,           \* rows that are decided upon
          Type,          \* what each of them is
          PlantOf,       \* plant of a purchase order, AnyPlant for the rest
          Amount,        \* amount of a row, except where a request gives it
          LinesOf,       \* lines of a manual journal entry
          Costs,         \* repair costs a maintenance submission may carry
          Revenues,      \* what a plant may have sold in a payroll period
          Postings,      \* entries of ledger-service
          PostingEffect, \* and what they do to the balances
          Scenes         \* what is in play together: documents, entries of
                         \* ledger-service, captures (FieldCapture) and, both
                         \* bounds, decisions asked for and captures pushed

Approvable == {"PURCHASE_ORDER", "AGENT_ONBOARDING", "EXPENSE_REQUEST",
               "MANUAL_JOURNAL_ENTRY", "BATCH_COST", "MAINTENANCE_COMPLETION"}
DocsOf(type) == {d \in Doc : Type[d] = type}

ASSUME OfficeAssumption ==
    /\ Type \in [Doc -> Approvable \cup {"PAYROLL_RUN", "PERIOD_CLOSE"}]
    /\ Amount \in [Doc -> Nat] /\ Costs \subseteq Nat /\ Revenues \subseteq Nat
    /\ Doc # {}
    /\ \A d \in DocsOf("MANUAL_JOURNAL_ENTRY") : LinesOf[d] \in Lines
    /\ PostingEffect \in [Postings -> [Account -> Int]]
    /\ \A p \in Postings : SumOf(PostingEffect[p]) = 0   \* ledger-service's lines balance
    /\ \A scene \in Scenes : /\ scene.docs \subseteq Doc /\ scene.due \subseteq Postings
                            /\ scene.requests \in Nat /\ scene.pushes \in Nat

VARIABLES
    status,     \* "absent": never created; "none": not created yet
    stage,      \* current_approval_stage
    cost,       \* the amount on the row
    effects,    \* amounts of what a document brought about: agent rows,
                \* journal entries of an expense, events of a repair or a run
    category,   \* the expense category and its account
    job,        \* what a handler is doing
    due,        \* entries ledger-service has yet to post
    raced,      \* history: documents written on a stale read
    crossed,    \* history: an audit row was appended behind another one
    requests    \* bound: decisions still to be asked for

officeVars == <<status, stage, cost, effects, category, job, due, raced, crossed, requests,
                chain, balance>>

Pending == {"PENDING", "PENDING_APPROVAL"}
Agreed == {"APPROVED", "PROVISIONED", "POSTED", "COMPLETED"}
Final == Agreed \cup {"REJECTED"}
NoCategory == [state |-> "none", account |-> AccountsPayable]

FirstStatus(type) == IF type = "PURCHASE_ORDER" THEN "PENDING" ELSE "none"

\* read: the balances a close has read; old (history): the row, or for a
\* close the balances, have changed since they were read; behind (history):
\* another audit row was appended since this one's predecessor was read.
Idle == [at |-> "idle", act |-> "none", doc |-> CHOOSE d \in Doc : TRUE,
         by |-> CHOOSE u \in User : TRUE, stage |-> 1, cost |-> 0, read |-> Nothing,
         ok |-> FALSE, more |-> FALSE, last |-> NoRow, old |-> FALSE, behind |-> FALSE]
Task(at, act, d, u) == [Idle EXCEPT !.at = at, !.act = act, !.doc = d, !.by = u,
                                    !.stage = stage[d], !.cost = cost[d]]

Jobs == [at : {"idle", "ask", "record", "write", "find", "publish", "insert", "submit"},
         act : {"none", "approve", "reject", "post", "close", "create", "submit"},
         doc : Doc, by : User, stage : Level, cost : Int, read : [Account -> Int],
         ok : BOOLEAN, more : BOOLEAN, last : Nat, old : BOOLEAN, behind : BOOLEAN]

OfficeTypeOK ==
    /\ status \in [Doc -> {"absent", "none", "OPEN", "CALCULATED"} \cup Pending \cup Final]
    /\ stage \in [Doc -> Level]
    /\ cost \in [Doc -> Int] /\ effects \in [Doc -> Seq(Int)]
    /\ category \in [state : {"none", "active", "inactive"}, account : Account]
    /\ \A i \in DOMAIN chain : chain[i].prev \in 0 .. i - 1
    /\ balance \in [Account -> Int] /\ due \subseteq Postings
    /\ job \in [Handler -> Jobs]
    /\ \A h \in Handler : /\ job[h].last <= LastRow /\ (job[h].at = "write" => job[h].ok)
                          /\ job[h].more => job[h].stage < 3
    /\ raced \subseteq Doc /\ crossed \in BOOLEAN /\ requests \in Nat

OfficeInit(scene) ==
    /\ status = [d \in Doc |-> IF d \in scene.docs THEN FirstStatus(Type[d]) ELSE "absent"]
    /\ due = scene.due /\ requests = scene.requests
    /\ stage = [d \in Doc |-> 1]
    /\ cost = Amount
    /\ effects = [d \in Doc |-> <<>>]
    /\ category = NoCategory
    /\ job = [h \in Handler |-> Idle]
    /\ chain = <<>> /\ balance = Nothing
    /\ raced = {} /\ crossed = FALSE

--------------------------------------------------------------------------------
\* The steps the handlers share.

Start(h, task) ==
    /\ job[h].at = "idle"
    /\ job' = [job EXCEPT ![h] = task]
    /\ UNCHANGED <<status, stage, cost, effects, category, due, raced, crossed, chain, balance>>

Accept(h, task) ==
    /\ requests > 0 /\ requests' = requests - 1
    /\ Start(h, task)

\* Mutant: the status is not looked at.
ReviewAny(h, act, type) ==
    \E d \in DocsOf(type), u \in User :
        status[d] \notin {"absent", "none"} /\ Accept(h, Task("ask", act, d, u))

\* The row is read in a transaction of its own and must be pending.
Review(h, act, type) ==
    \E d \in DocsOf(type), u \in User :
        status[d] \in Pending /\ Accept(h, Task("ask", act, d, u))

Answers(j) ==
    IF Type[j.doc] \in Approvable
    THEN ApprovalAnswers(Type[j.doc], PlantOf[j.doc], j.cost, j.stage, j.by)
    ELSE PostingAnswers(j.by)

\* governance-service decides, and reads the end of the audit chain.
Decide(h) ==
    /\ job[h].at = "ask"
    /\ \E answer \in Answers(job[h]) :
          job' = [job EXCEPT ![h].at = "record", ![h].ok = answer.ok, ![h].more = answer.more,
                             ![h].last = LastRow, ![h].behind = FALSE]
    /\ UNCHANGED <<status, stage, cost, effects, category, due, raced, crossed, requests,
                   chain, balance>>

\* It records the answer and gives it; a denial ends the request.
Record(h) ==
    LET j == job[h]
        next == IF ~j.ok THEN Idle
                ELSE [j EXCEPT !.at = IF j.act = "post" THEN "find" ELSE "write"]
    IN  /\ j.at = "record"
        /\ RecordEntry(j.doc, j.stage, j.cost, j.by, j.ok, j.last)
        /\ job' = [g \in Handler |-> IF g = h THEN next
                                     ELSE IF job[g].at = "record"
                                          THEN [job[g] EXCEPT !.behind = TRUE] ELSE job[g]]
        /\ crossed' = (crossed \/ j.behind)
        /\ UNCHANGED <<status, stage, cost, effects, category, due, raced, requests, balance>>

\* The service dies, or governance-service or its answer is not to be had.
Abandon(h) ==
    /\ job[h].at # "idle"
    /\ job' = [job EXCEPT ![h] = Idle]
    /\ UNCHANGED <<status, stage, cost, effects, category, due, raced, crossed, requests,
                   chain, balance>>

\* What other requests have read is old now: all of the document d, and
\* with books the balances a close has read.
Outdated(j, d, books) ==
    IF j.at # "idle" /\ (j.doc = d \/ (books /\ j.act = "close"))
    THEN [j EXCEPT !.old = TRUE] ELSE j

\* h has written d, and with it perhaps the books; it goes on with next.
Overtake(h, d, books, next) ==
    job' = [g \in Handler |-> IF g = h THEN next ELSE Outdated(job[g], d, books)]

Granted(h, act, type) == job[h].at = "write" /\ job[h].act = act /\ Type[job[h].doc] = type

\* h writes the status s into its document.
Settle(h, s, books, next) ==
    LET d == job[h].doc
    IN  /\ status' = [status EXCEPT ![d] = s]
        /\ raced' = raced \cup {x \in {d} : job[h].old}
        /\ Overtake(h, d, books, next)
        /\ UNCHANGED <<cost, category, due, crossed, requests, chain>>

BringAbout(d, amount) == effects' = [effects EXCEPT ![d] = Append(@, amount)]

\* A stage follows the one that was granted: stage := the stage read + 1.
Advance(h, type) ==
    LET d == job[h].doc
    IN  /\ Granted(h, "approve", type) /\ job[h].more
        /\ stage' = [stage EXCEPT ![d] = job[h].stage + 1]
        /\ raced' = raced \cup {x \in {d} : job[h].old}
        /\ Overtake(h, d, FALSE, Idle)
        /\ UNCHANGED <<status, cost, effects, category, due, crossed, requests, chain, balance>>

Approving(h, type) == Granted(h, "approve", type) /\ ~job[h].more

Reject(h, type) ==
    \/ Review(h, "reject", type)
    \/ /\ Granted(h, "reject", type)
       /\ Settle(h, "REJECTED", FALSE, Idle)
       /\ UNCHANGED <<stage, effects, balance>>

\* Settling a document that has no further consequence.
SettleOnly(h, type, s) ==
    \/ Review(h, "approve", type)
    \/ Advance(h, type)
    \/ Approving(h, type) /\ Settle(h, s, FALSE, Idle) /\ UNCHANGED <<stage, effects, balance>>

--------------------------------------------------------------------------------
\* procurement-service
ApprovePurchaseOrder(h) == SettleOnly(h, "PURCHASE_ORDER", "APPROVED")
RejectPurchaseOrder(h) == Reject(h, "PURCHASE_ORDER")

\* sales-service.  agent_code is UNIQUE in agent_master: a request cannot be
\* provisioned twice, the transaction rolls back.
SubmitOnboarding ==
    \E d \in DocsOf("AGENT_ONBOARDING") :
        /\ status[d] = "none"
        /\ status' = [status EXCEPT ![d] = "PENDING_APPROVAL"]
        /\ UNCHANGED <<stage, cost, effects, category, job, due, raced, crossed, requests,
                       chain, balance>>

ApproveOnboarding(h) ==
    \/ Review(h, "approve", "AGENT_ONBOARDING")
    \/ Advance(h, "AGENT_ONBOARDING")
    \/ /\ Approving(h, "AGENT_ONBOARDING") /\ effects[job[h].doc] = <<>>
       /\ BringAbout(job[h].doc, job[h].cost)
       /\ Settle(h, "PROVISIONED", FALSE, Idle)
       /\ UNCHANGED <<stage, balance>>
    \/ Approving(h, "AGENT_ONBOARDING") /\ effects[job[h].doc] # <<>> /\ Abandon(h)

RejectOnboarding(h) == Reject(h, "AGENT_ONBOARDING")

\* accounting-service, expenses: a category books to an EXPENSE account.
SetCategory(c) ==
    /\ category' = c
    /\ UNCHANGED <<status, stage, cost, effects, job, due, raced, crossed, requests, chain, balance>>

CreateCategory ==
    /\ \E d \in DocsOf("EXPENSE_REQUEST") : status[d] = "none"
    /\ category.state = "none"
    /\ \E a \in {x \in Account : TypeOf[x] = "EXPENSE"} :
          SetCategory([state |-> "active", account |-> a])

DeactivateCategory == category.state = "active" /\ SetCategory([category EXCEPT !.state = "inactive"])

\* The category is read in one transaction and the request, a new row,
\* inserted in another.
CreateExpenseRequest(h) ==
    \/ \E d \in DocsOf("EXPENSE_REQUEST") :
          /\ status[d] = "none" /\ category.state = "active"
          /\ \A g \in Handler : job[g].at = "insert" => job[g].doc # d
          /\ Start(h, Task("insert", "create", d, Idle.by)) /\ UNCHANGED requests
    \/ /\ job[h].at = "insert"
       /\ Settle(h, "PENDING_APPROVAL", FALSE, Idle)
       /\ UNCHANGED <<stage, effects, balance>>

ApproveExpenseRequest(h) ==
    \/ Review(h, "approve", "EXPENSE_REQUEST")
    \/ Advance(h, "EXPENSE_REQUEST")
    \/ /\ Approving(h, "EXPENSE_REQUEST")
       /\ BringAbout(job[h].doc, job[h].cost)
       /\ balance' = Plus(balance, ExpenseEffect(category.account, job[h].cost))
       /\ Settle(h, "POSTED", TRUE, Idle)
       /\ UNCHANGED stage

RejectExpenseRequest(h) == Reject(h, "EXPENSE_REQUEST")

\* accounting-service, journals: the lines of an entry count for the reports
\* while its status is POSTED.
CreateManualJournalEntry ==
    \E d \in DocsOf("MANUAL_JOURNAL_ENTRY") :
        /\ status[d] = "none" /\ Acceptable(LinesOf[d]) /\ Storable(LinesOf[d])
        /\ status' = [status EXCEPT ![d] = "PENDING_APPROVAL"]
        /\ cost' = [cost EXCEPT ![d] = TotalAmount(LinesOf[d])]
        /\ UNCHANGED <<stage, effects, category, job, due, raced, crossed, requests, chain, balance>>

ApproveJournalEntry(h) ==
    \/ Review(h, "approve", "MANUAL_JOURNAL_ENTRY")
    \/ Advance(h, "MANUAL_JOURNAL_ENTRY")
    \/ LET d == job[h].doc
       IN  /\ Approving(h, "MANUAL_JOURNAL_ENTRY")
           /\ balance' = IF status[d] = "POSTED" THEN balance
                         ELSE Plus(balance, Effect(LinesOf[d]))
           /\ Settle(h, "POSTED", TRUE, Idle)
           /\ UNCHANGED <<stage, effects>>

RejectJournalEntry(h) ==
    \/ Review(h, "reject", "MANUAL_JOURNAL_ENTRY")
    \/ LET d == job[h].doc
       IN  /\ Granted(h, "reject", "MANUAL_JOURNAL_ENTRY")
           /\ balance' = IF status[d] # "POSTED" THEN balance
                         ELSE Minus(balance, Effect(LinesOf[d]))
           /\ Settle(h, "REJECTED", TRUE, Idle)
           /\ UNCHANGED <<stage, effects>>

\* manufacturing-service.  The batch is read once more after the write, and
\* a decided batch is answered with an error.
ApproveBatchCostReview(h) == SettleOnly(h, "BATCH_COST", "APPROVED")
RejectBatchCostReview(h) == Reject(h, "BATCH_COST")

\* fleet-service.  A submission reads and writes in one transaction, but the
\* write does not look at the status again.
SubmitMaintenanceRequest(h) ==
    \/ \E d \in DocsOf("MAINTENANCE_COMPLETION"), c \in Costs :
          /\ status[d] = "OPEN"
          /\ Start(h, [Task("submit", "submit", d, Idle.by) EXCEPT !.cost = c])
          /\ UNCHANGED requests
    \/ LET d == job[h].doc
       IN  /\ job[h].at = "submit"
           /\ status' = [status EXCEPT ![d] = "PENDING_APPROVAL"]
           /\ cost' = [cost EXCEPT ![d] = job[h].cost]
           /\ raced' = raced \cup {x \in {d} : job[h].old}
           /\ Overtake(h, d, FALSE, Idle)
           /\ UNCHANGED <<stage, effects, category, due, crossed, requests, chain, balance>>

\* The event of what was decided, with the amount that was read then.
Publish(h, type) ==
    /\ job[h].at = "publish" /\ Type[job[h].doc] = type
    /\ BringAbout(job[h].doc, job[h].cost)
    /\ job' = [job EXCEPT ![h] = Idle]
    /\ UNCHANGED <<status, stage, cost, category, due, raced, crossed, requests, chain, balance>>

ApproveMaintenanceCompletion(h) ==
    \/ Review(h, "approve", "MAINTENANCE_COMPLETION")
    \/ Advance(h, "MAINTENANCE_COMPLETION")
    \/ /\ Approving(h, "MAINTENANCE_COMPLETION")
       /\ Settle(h, "COMPLETED", FALSE, [job[h] EXCEPT !.at = "publish"])
       /\ UNCHANGED <<stage, effects, balance>>
    \/ Publish(h, "MAINTENANCE_COMPLETION")

RejectMaintenanceCompletion(h) == Reject(h, "MAINTENANCE_COMPLETION")

\* hr-service.  A plant and period has one run.
CalculateRun ==
    \E d \in DocsOf("PAYROLL_RUN"), revenue \in Revenues :
        /\ status[d] = "none"
        /\ status' = [status EXCEPT ![d] = "CALCULATED"]
        /\ cost' = [cost EXCEPT ![d] = NetSalaryTotal(revenue)]
        /\ UNCHANGED <<stage, effects, category, job, due, raced, crossed, requests, chain, balance>>

\* Mutant: a posted run is posted again.
FindAnyRun(h) ==
    /\ job[h].at = "find"
    /\ job' = [job EXCEPT ![h].at = "write", ![h].old = FALSE]
    /\ UNCHANGED <<status, stage, cost, effects, category, due, raced, crossed, requests,
                   chain, balance>>

\* The authority is asked first, then the run is read, written and announced.
FindRun(h) ==
    /\ job[h].at = "find"
    /\ job' = [job EXCEPT ![h] = IF status[job[h].doc] = "POSTED" THEN Idle
                                 ELSE [@ EXCEPT !.at = "write", !.old = FALSE]]
    /\ UNCHANGED <<status, stage, cost, effects, category, due, raced, crossed, requests,
                   chain, balance>>

PostRun(h) ==
    \/ \E d \in DocsOf("PAYROLL_RUN"), u \in User :
          status[d] \in {"CALCULATED", "POSTED"} /\ Accept(h, Task("ask", "post", d, u))
    \/ FindRun(h)
    \/ /\ Granted(h, "post", "PAYROLL_RUN")
       /\ Settle(h, "POSTED", FALSE, [job[h] EXCEPT !.at = "publish"])
       /\ UNCHANGED <<stage, effects, balance>>
    \/ Publish(h, "PAYROLL_RUN")

\* accounting-service, period close: a new entry that zeroes the revenue and
\* expense accounts as they were read.
CloseBooks(h) ==
    \/ \E d \in DocsOf("PERIOD_CLOSE"), u \in User :
          /\ status[d] = "none" /\ ~NothingToClose(balance)
          /\ \A g \in Handler : job[g].at # "idle" => job[g].doc # d
          /\ Accept(h, [Task("ask", "close", d, u) EXCEPT !.read = balance])
    \/ /\ Granted(h, "close", "PERIOD_CLOSE")
       /\ balance' = Plus(balance, ClosingEffect(job[h].read))
       /\ Settle(h, "POSTED", TRUE, Idle)
       /\ UNCHANGED <<stage, effects>>

\* ledger-service writes the same tables (Ledger).
LedgerPosts ==
    \E p \in due :
        /\ due' = due \ {p}
        /\ balance' = Plus(balance, PostingEffect[p])
        /\ job' = [h \in Handler |-> Outdated(job[h], p, TRUE)]
        /\ UNCHANGED <<status, stage, cost, effects, category, raced, crossed, requests, chain>>

--------------------------------------------------------------------------------
Approve(h) ==
    \/ ApprovePurchaseOrder(h) \/ ApproveOnboarding(h) \/ ApproveExpenseRequest(h)
    \/ ApproveJournalEntry(h) \/ ApproveBatchCostReview(h) \/ ApproveMaintenanceCompletion(h)

Refuse(h) ==
    \/ RejectPurchaseOrder(h) \/ RejectOnboarding(h) \/ RejectExpenseRequest(h)
    \/ RejectJournalEntry(h) \/ RejectBatchCostReview(h) \/ RejectMaintenanceCompletion(h)

OfficeNext ==
    \/ SubmitOnboarding \/ CreateCategory \/ DeactivateCategory
    \/ CreateManualJournalEntry \/ CalculateRun \/ LedgerPosts
    \/ \E h \in Handler :
          \/ CreateExpenseRequest(h) \/ SubmitMaintenanceRequest(h)
          \/ Approve(h) \/ Refuse(h) \/ PostRun(h) \/ CloseBooks(h)
          \/ Decide(h) \/ Record(h) \/ Abandon(h)

--------------------------------------------------------------------------------
\* No document takes effect before the audit log holds the grant of every
\* stage of the matrix band of its amount, each by that stage's role: by
\* approvals that overtook one another, rejections that were lost and answers
\* that came late, no stage can be jumped (checkApprovalAuthority and the
\* services' stage + 1).  A repair of which two cost estimates raced is exempt.
StagesOf(band) == {n \in Level : \A m \in 1 .. n : band.levels[m] # NoRole}
GrantedBy(d, band) ==
    \A n \in StagesOf(band) :
        \E i \in DOMAIN chain : /\ chain[i].doc = d /\ chain[i].ok /\ chain[i].stage = n
                                /\ RoleOf[chain[i].by] = band.levels[n]
GrantedStageByStage ==
    \A d \in Doc :
        /\ Type[d] \in Approvable /\ (status[d] \in Agreed \/ effects[d] # <<>>)
        /\ Type[d] # "MAINTENANCE_COMPLETION" \/ d \notin raced
        => \E b \in BandsFor(Type[d], PlantOf[d], cost[d]) : GrantedBy(d, b)

\* What a document brings about happens once, for the amount on the row: an
\* agent is provisioned once whatever happens, since its code is unique; the
\* entry of an expense and the events of a repair or a payroll run only while
\* no two requests decide on one document at once (approveExpenseRequest,
\* approveMaintenanceCompletion, postRun).
EffectsOnce ==
    \A d \in Doc :
        /\ Type[d] = "AGENT_ONBOARDING" => Len(effects[d]) <= 1
        /\ d \notin raced =>
              /\ effects[d] \in {<<>>, <<cost[d]>>}
              /\ effects[d] # <<>> => status[d] \in Agreed
              /\ status[d] \in Agreed /\ Type[d] \in {"AGENT_ONBOARDING", "EXPENSE_REQUEST"}
                 => effects[d] # <<>>

\* What the trial balance lacks are the cents that posted manual entries lost
\* when their amounts were rounded, and the balance sheet, as reports.service
\* says of it, the net income that is not closed yet besides:
\* journals.service's "Balanced by construction" holds up to those cents.
RoundingLoss(d) == SumOf(Effect(LinesOf[d]))
BalanceSheetExplained ==
    LET journals == {d \in DocsOf("MANUAL_JOURNAL_ENTRY") : status[d] = "POSTED"}
        loss == SumOf([d \in journals |-> RoundingLoss(d)])
    IN  TrialBalance = loss /\ BalanceSheetGap = NetIncome + loss

\* The audit log verifies as long as no answer is recorded behind another one
\* that was recorded after its predecessor was read, and never again after
\* (recordEntry, verifyChain).
ChainForksOnlyWhenCrossed == VerifyChain <=> ~crossed

\* A calculated run costs what the bands of the statute leave of the gross
\* salaries (payroll-tax.ts, calculateRun).
PayrollFollowsStatute ==
    \A d \in DocsOf("PAYROLL_RUN") :
        status[d] = "CALCULATED" =>
            \E revenue \in Revenues :
                cost[d] = SumOf([e \in DOMAIN GradeWeight |->
                                 LET gross == Gross(revenue, e)
                                 IN  100 * gross - PensionRate * gross
                                     - Rounded(StatutoryHH(12 * gross), 1200)])

\* Only a late write spoils what was decided: a document that was approved,
\* posted or rejected keeps its status, and a close leaves every revenue and
\* expense account at zero, unless the request had been overtaken since it
\* read (the update of every approve and reject method; closeBooks).
OnlyLateWritesSpoil ==
    [][\A d \in Doc \ raced' :
          /\ status[d] \in Final => status'[d] = status[d]
          /\ Type[d] = "PERIOD_CLOSE" /\ status[d] # "POSTED" /\ status'[d] = "POSTED"
             => \A a \in PnL : balance'[a] = 0]_officeVars
================================================================================
