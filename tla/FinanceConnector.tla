--------------------------- MODULE FinanceConnector ---------------------------
(***************************************************************************)
(* finance-connector-service: its timer starts a poll cycle every few      *)
(* seconds whether or not the last one has ended, a cycle mirrors the      *)
(* PENDING integration_queue rows it read into the external ledger one by  *)
(* one, and people retry or dismiss what was given up.                     *)
(*                                                                         *)
(* The ledger writes the queue (Ledger.tla).  The connector's post, the    *)
(* row's update and recordFailure are transactions of their own.           *)
(***************************************************************************)
EXTENDS FiniteSetsExt, Collections

CONSTANTS Entry,        \* queue rows, each for one event of the ledger
          System,       \* a row's external_system, see Systems
          Cycle,        \* poll cycles that may run at once
          Reviewer,     \* people with can_override who act at once
          BatchSize,    \* rows per cycle (20)
          MaxRetries,   \* attempts before a row is FAILED (3)
          MaxRows,      \* bound: rows ever queued
          MaxReviews,   \* bound: reviews from which nothing is retried again
          MaxFaults     \* bound: crashes and failed statements over a behaviour

\* The one implemented connector, one that is not, and the ledger's own
\* record of an event it could not post.
Systems == {"CUSTOM_MODULE", "ZOHO_BOOKS", "NONE"}

ASSUME ConnectorAssumption ==
    /\ System \in [Entry -> Systems]
    /\ BatchSize \in Nat \ {0} /\ MaxRetries \in Nat \ {0}
    /\ MaxRows \in Nat /\ MaxReviews \in Nat /\ MaxFaults \in Nat

VARIABLES
    queued,     \* the rows by queued_time
    queue,      \* integration_queue
    reviews,    \* failed_posting_review, oldest first
    external,   \* posted_external_id of the row's external posting, or 0
    nextId,     \* the next external id
    cycle,      \* what a poll cycle does, with the rows it still has to do
    reviewer,   \* what a reviewer does, with the review read and the action
    faults      \* faults so far, bounded by MaxFaults

connectorVars == <<queued, queue, reviews, external, nextId, cycle, reviewer, faults>>

Row(s, n, x) == [status |-> s, retries |-> n, externalId |-> x]
NoRow == Row("none", 0, 0)
Review(e, s) == [of |-> e, status |-> s]
Item(e, n) == [of |-> e, retries |-> n]
Running(a, b) == [at |-> a, batch |-> b]
Idle == Running("idle", <<>>)
Acting(a, i, x) == [at |-> a, review |-> i, action |-> x]
NoAction == Acting("idle", 0, "none")

Rows == [status : {"none", "PENDING", "POSTED", "FAILED"},
         retries : 0 .. MaxRetries, externalId : Nat]
Reviews == [of : Entry, status : {"OPEN", "RETRIED", "DISMISSED"}]
Items == [of : {e \in Entry : System[e] # "NONE"}, retries : 0 .. MaxRetries - 1]
Cycles == [at : {"idle", "post", "mark", "fail"}, batch : Seq(Items)]
Actions == [at : {"idle", "write"}, review : Nat, action : {"none", "retry", "dismiss"}]

\* A row that waits for a cycle has attempts left.
QueueOK ==
    /\ queued \in Seq(Entry) /\ queue \in [Entry -> Rows]
    /\ \A e \in Entry : queue[e].status = "PENDING" => queue[e].retries < MaxRetries
    /\ nextId \in Nat \ {0} /\ external \in [Entry -> 0 .. nextId - 1]

CyclesOK ==
    /\ cycle \in [Cycle -> Cycles]
    /\ \A c \in Cycle : cycle[c].at = "idle" <=> cycle[c].batch = <<>>

ReviewersOK ==
    /\ reviews \in Seq(Reviews) /\ reviewer \in [Reviewer -> Actions]
    /\ \A u \in Reviewer : reviewer[u].at = "write" => reviewer[u].review \in DOMAIN reviews

ConnectorTypeOK == QueueOK /\ CyclesOK /\ ReviewersOK /\ faults \in Nat

ConnectorInit ==
    /\ queued = <<>> /\ queue = [e \in Entry |-> NoRow] /\ reviews = <<>>
    /\ external = [e \in Entry |-> 0] /\ nextId = 1
    /\ cycle = [c \in Cycle |-> Idle]
    /\ reviewer = [u \in Reviewer |-> NoAction]
    /\ faults = 0

Fault == faults < MaxFaults /\ faults' = faults + 1

Queueable(e) ==
    queue[e] = NoRow /\ Cardinality({d \in Entry : queue[d] # NoRow}) < MaxRows

\* The ledger queues an entry it posted, in the entry's own transaction.
Enqueue(e) ==
    /\ Queueable(e) /\ System[e] # "NONE"
    /\ queued' = Append(queued, e)
    /\ queue' = [queue EXCEPT ![e] = Row("PENDING", 0, 0)]
    /\ UNCHANGED <<reviews, external, nextId, cycle, reviewer, faults>>

\* The ledger's recordFailure for an event it could not post: two statements,
\* each on its own.  The second comes later or, if the ledger stopped in
\* between or the statement failed, never: a redelivered event is recorded in
\* a row of its own.
RecordRefusal(e) ==
    /\ Queueable(e) /\ System[e] = "NONE"
    /\ queued' = Append(queued, e)
    /\ queue' = [queue EXCEPT ![e] = Row("FAILED", 0, 0)]
    /\ UNCHANGED <<reviews, external, nextId, cycle, reviewer, faults>>

RecordReview(e) ==
    /\ queue[e].status = "FAILED" /\ System[e] = "NONE"
    /\ \A i \in DOMAIN reviews : reviews[i].of # e
    /\ reviews' = Append(reviews, Review(e, "OPEN"))
    /\ UNCHANGED <<queued, queue, external, nextId, cycle, reviewer, faults>>

Current(c) == Head(cycle[c].batch)
NextRow(c) ==
    LET rest == Tail(cycle[c].batch)
    IN  cycle' = [cycle EXCEPT ![c] = IF rest = <<>> THEN Idle ELSE Running("post", rest)]
Stay(c, a) == cycle' = [cycle EXCEPT ![c] = Running(a, cycle[c].batch)]

(***************************************************************************)
(* A poll cycle: pollTenant, processQueueRow, recordFailure.               *)
(***************************************************************************)
Tick(c) ==
    LET due == {e \in Entry : queue[e].status = "PENDING" /\ System[e] # "NONE"}
        pending == Keep(queued, due)
        taken == SubSeq(pending, 1, Min({BatchSize, Len(pending)}))
    IN  /\ cycle[c].at = "idle" /\ pending # <<>>
        /\ cycle' = [cycle EXCEPT ![c] =
                       Running("post", [i \in DOMAIN taken |->
                                          Item(taken[i], queue[taken[i]].retries)])]
        /\ UNCHANGED <<queued, queue, reviews, faults, external, nextId, reviewer>>

\* Mutant of PostRow: the upsert's update writes a new posted_external_id.
PostAgain(c) ==
    /\ cycle[c].at = "post" /\ System[Current(c).of] = "CUSTOM_MODULE"
    /\ external' = [external EXCEPT ![Current(c).of] = nextId]
    /\ nextId' = nextId + 1
    /\ Stay(c, "mark")
    /\ UNCHANGED <<queued, queue, reviews, faults, reviewer>>

\* CustomModuleConnector.post: an upsert that updates nothing.
PostRow(c) ==
    LET e == Current(c).of
    IN  /\ cycle[c].at = "post" /\ System[e] = "CUSTOM_MODULE"
        /\ external' = [external EXCEPT ![e] = IF @ = 0 THEN nextId ELSE @]
        /\ nextId' = IF external[e] = 0 THEN nextId + 1 ELSE nextId
        /\ Stay(c, "mark")
        /\ UNCHANGED <<queued, queue, reviews, faults, reviewer>>

\* The strategy throws: it is not implemented, or reading the entry or
\* posting it fails.
PostThrows(c) ==
    /\ cycle[c].at = "post"
    /\ Stay(c, "fail")
    /\ UNCHANGED <<queued, queue, reviews, faults, external, nextId, reviewer>>

SetPosted(e) ==
    queue' = [queue EXCEPT ![e] = Row("POSTED", queue[e].retries, external[e])]

MarkPosted(c) ==
    /\ cycle[c].at = "mark"
    /\ SetPosted(Current(c).of)
    /\ NextRow(c)
    /\ UNCHANGED <<reviews, faults, queued, external, nextId, reviewer>>

\* The update fails, or its answer is lost after it was committed.
MarkThrows(c) ==
    /\ Fault
    /\ cycle[c].at = "mark"
    /\ \/ SetPosted(Current(c).of)
       \/ UNCHANGED queue
    /\ Stay(c, "fail")
    /\ UNCHANGED <<reviews, queued, external, nextId, reviewer>>

\* Mutant of Attempts: the count is written back as it was read.
AttemptsAsRead(item) == item.retries
Attempts(item) == item.retries + 1

\* Mutant of Escalate: one review per queue row, whatever became of it.
EscalateOnce(e) ==
    reviews' = IF \E i \in DOMAIN reviews : reviews[i].of = e
               THEN reviews ELSE Append(reviews, Review(e, "OPEN"))
Escalate(e) == reviews' = Append(reviews, Review(e, "OPEN"))

\* recordFailure counts from the retry_count the cycle read, and sets FAILED
\* whatever the row's status has become.
RecordFailure(c) ==
    LET e == Current(c).of
        n == Attempts(Current(c))
    IN  /\ cycle[c].at = "fail"
        /\ IF n >= MaxRetries
           THEN /\ queue' = [queue EXCEPT ![e] = Row("FAILED", n, queue[e].externalId)]
                /\ Escalate(e)
           ELSE /\ queue' = [queue EXCEPT ![e] = Row(queue[e].status, n, queue[e].externalId)]
                /\ UNCHANGED reviews
        /\ NextRow(c)
        /\ UNCHANGED <<faults, queued, external, nextId, reviewer>>

\* recordFailure throws, which ends the whole cycle.
CycleFails(c) ==
    /\ Fault
    /\ cycle[c].at = "fail"
    /\ cycle' = [cycle EXCEPT ![c] = Idle]
    /\ UNCHANGED <<queue, reviews, queued, external, nextId, reviewer>>

\* The service stops; its memory was the cycles.
CrashConnector ==
    /\ Fault
    /\ \E c \in Cycle : cycle[c].at # "idle"
    /\ cycle' = [c \in Cycle |-> Idle]
    /\ UNCHANGED <<queue, reviews, queued, external, nextId, reviewer>>

Poll(c) == Tick(c) \/ PostRow(c) \/ PostThrows(c) \/ MarkPosted(c) \/ RecordFailure(c)

(***************************************************************************)
(* ReviewService: read, then unconditional updates, in one transaction     *)
(* that locks nothing it reads.                                            *)
(***************************************************************************)
ReadReview(u, i, action) ==
    /\ reviewer[u].at = "idle" /\ reviews[i].status = "OPEN"
    /\ action = "retry" => /\ System[reviews[i].of] = "CUSTOM_MODULE"
                           /\ queue[reviews[i].of].status = "FAILED"
                           /\ Len(reviews) < MaxReviews
    /\ reviewer' = [reviewer EXCEPT ![u] = Acting("write", i, action)]
    /\ UNCHANGED <<queued, queue, reviews, faults, external, nextId, cycle>>

\* The code writes RESOLVED for either; the model remembers which it was.
CloseReview(u, status) ==
    /\ reviews' = [reviews EXCEPT ![reviewer[u].review] = Review(@.of, status)]
    /\ reviewer' = [reviewer EXCEPT ![u] = NoAction]

\* Mutant of Retry: retry_count stays what it was.
RetryWithoutReset(u) ==
    LET e == reviews[reviewer[u].review].of
    IN  /\ reviewer[u].at = "write" /\ reviewer[u].action = "retry"
        /\ queue' = [queue EXCEPT ![e] = Row("PENDING", queue[e].retries, queue[e].externalId)]
        /\ CloseReview(u, "RETRIED")
        /\ UNCHANGED <<queued, external, nextId, cycle, faults>>

Retry(u) ==
    LET e == reviews[reviewer[u].review].of
    IN  /\ reviewer[u].at = "write" /\ reviewer[u].action = "retry"
        /\ queue' = [queue EXCEPT ![e] = Row("PENDING", 0, queue[e].externalId)]
        /\ CloseReview(u, "RETRIED")
        /\ UNCHANGED <<queued, external, nextId, cycle, faults>>

Dismiss(u) ==
    /\ reviewer[u].at = "write" /\ reviewer[u].action = "dismiss"
    /\ CloseReview(u, "DISMISSED")
    /\ UNCHANGED <<queue, faults, queued, external, nextId, cycle>>

\* Either transaction rolls back.
ReviewFails(u) ==
    /\ Fault
    /\ reviewer[u].at = "write"
    /\ reviewer' = [reviewer EXCEPT ![u] = NoAction]
    /\ UNCHANGED <<queue, reviews, queued, external, nextId, cycle>>

ConnectorNext ==
    \/ \E e \in Entry : Enqueue(e) \/ RecordRefusal(e) \/ RecordReview(e)
    \/ \E c \in Cycle : Poll(c) \/ MarkThrows(c) \/ CycleFails(c)
    \/ CrashConnector
    \/ \E u \in Reviewer :
         \/ \E i \in DOMAIN reviews : \E action \in {"retry", "dismiss"} : ReadReview(u, i, action)
         \/ Retry(u) \/ Dismiss(u) \/ ReviewFails(u)

ConnectorSpec == ConnectorInit /\ [][ConnectorNext]_connectorVars

\* The timer keeps ticking and a cycle goes on.
FairConnector == ConnectorSpec /\ \A c \in Cycle : WF_connectorVars(Poll(c))

--------------------------------------------------------------------------------
(***************************************************************************)
(* Properties.                                                             *)
(***************************************************************************)

\* A row that says POSTED names the one posting the external ledger holds for
\* it: through overlapping cycles, crashes between post and mark, and retries
\* of what had been posted.
PostedIsMirrored ==
    \A e \in Entry :
        /\ queue[e].status = "POSTED" => external[e] # 0 /\ queue[e].externalId = external[e]
        /\ \A f \in Entry \ {e} : external[e] # 0 => external[e] # external[f]

\* A row the connector gave up has an open review, unless somebody dismissed
\* one: no interleaving of cycles and reviewers leaves it unseen.  What the
\* ledger could not post is left out: its FAILED row is written before its
\* review and may stay without.
FailedIsInReview ==
    \A e \in Entry : queue[e].status = "FAILED" /\ System[e] # "NONE" =>
        \E i \in DOMAIN reviews :
            /\ reviews[i].of = e
            /\ reviews[i].status \in {"OPEN", "DISMISSED"}

\* Cycles, batches and reviewers hidden, the connector is MirroredQueue: a row is
\* mirrored once and for good, its status follows its posting, what the
\* connector gives up comes into sight in that very step, and what the ledger
\* could not post stays FAILED whatever cycles and reviewers do.
Mirrored == INSTANCE MirroredQueue WITH
    status <- [d \in Entry |-> queue[d].status],
    externalId <- [d \in Entry |-> queue[d].externalId],
    inSight <- {d \in Entry : \E j \in DOMAIN reviews :
                   reviews[j].of = d /\ reviews[j].status \in {"OPEN", "DISMISSED"}}
ImplementsMirror == Mirrored!MirrorSpec

\* Every row a cycle can read ends in the external ledger or, its attempts
\* used up, in front of a reviewer.
EventuallySettled ==
    \A e \in Entry : queue[e].status = "PENDING" ~> queue[e].status \in {"POSTED", "FAILED"}
================================================================================
