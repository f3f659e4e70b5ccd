----------------------- MODULE FinanceConnector_proofs -----------------------
(***************************************************************************)
(* Proofs about FinanceConnector, for every set of rows and of external    *)
(* systems, any number of overlapping cycles and of reviewers, every batch *)
(* size and limit of attempts, every number of faults.                     *)
(***************************************************************************)
EXTENDS FinanceConnector, Collections_proofs

--------------------------------------------------------------------------------
(* Type correctness. *)

LEMMA RowType ==
    ASSUME NEW s \in {"none", "PENDING", "POSTED", "FAILED"}, NEW n \in 0 .. MaxRetries, NEW x \in Nat
    PROVE  /\ Row(s, n, x) \in Rows
           /\ Row(s, n, x).status = s /\ Row(s, n, x).retries = n /\ Row(s, n, x).externalId = x
BY DEF Row, Rows

LEMMA RowFields ==
    ASSUME NEW r \in Rows
    PROVE  /\ r.status \in {"none", "PENDING", "POSTED", "FAILED"}
           /\ r.retries \in 0 .. MaxRetries /\ r.externalId \in Nat
BY DEF Rows

LEMMA ReviewType ==
    ASSUME NEW e \in Entry, NEW s \in {"OPEN", "RETRIED", "DISMISSED"}
    PROVE  Review(e, s) \in Reviews /\ Review(e, s).of = e /\ Review(e, s).status = s
BY DEF Review, Reviews

LEMMA CycleType ==
    ASSUME NEW a \in {"idle", "post", "mark", "fail"}, NEW b \in Seq(Items)
    PROVE  Running(a, b) \in Cycles /\ Running(a, b).at = a /\ Running(a, b).batch = b
BY DEF Running, Cycles

LEMMA ActionType ==
    ASSUME NEW a \in {"idle", "write"}, NEW i \in Nat, NEW x \in {"none", "retry", "dismiss"}
    PROVE  /\ Acting(a, i, x) \in Actions
           /\ Acting(a, i, x).at = a /\ Acting(a, i, x).review = i /\ Acting(a, i, x).action = x
BY DEF Acting, Actions

\* A cycle that runs has a current row, one a connector is to mirror.
LEMMA CurrentRow ==
    ASSUME CyclesOK, NEW c \in Cycle, cycle[c].at # "idle"
    PROVE  /\ cycle[c].batch \in Seq(Items) /\ cycle[c].batch # <<>>
           /\ Current(c).of \in Entry /\ System[Current(c).of] # "NONE"
           /\ Current(c).retries \in 0 .. MaxRetries - 1
<1>1. cycle[c].batch \in Seq(Items) /\ cycle[c].batch # <<>>
  BY DEF CyclesOK, Cycles
<1>2. Current(c) \in Items
  BY <1>1, HeadTailProperties DEF Current
<1>q. QED
  BY <1>1, <1>2 DEF Items

\* A cycle that goes on with its row, or with the next, stays in its type.
LEMMA StayOK ==
    ASSUME CyclesOK, NEW c \in Cycle, cycle[c].at # "idle",
           NEW a \in {"post", "mark", "fail"}, Stay(c, a)
    PROVE  CyclesOK'
<1>1. cycle[c].batch \in Seq(Items) /\ cycle[c].batch # <<>>
  BY CurrentRow
<1>2. cycle' = [cycle EXCEPT ![c] = Running(a, cycle[c].batch)] /\ cycle \in [Cycle -> Cycles]
  BY DEF Stay, CyclesOK
<1>q. QED
  BY <1>1, <1>2, CycleType DEF CyclesOK

LEMMA IdleType == Idle \in Cycles /\ Idle.at = "idle" /\ Idle.batch = <<>>
<1>1. <<>> \in Seq(Items)
  BY EmptySeq
<1>q. QED
  BY <1>1, CycleType DEF Idle

LEMMA NextRowOK ==
    ASSUME CyclesOK, NEW c \in Cycle, cycle[c].at # "idle", NextRow(c)
    PROVE  CyclesOK'
<1> DEFINE rest == Tail(cycle[c].batch)
<1>1. rest \in Seq(Items)
  BY CurrentRow, HeadTailProperties
<1>2. /\ cycle' = [cycle EXCEPT ![c] = IF rest = <<>> THEN Idle ELSE Running("post", rest)]
      /\ cycle \in [Cycle -> Cycles]
  BY DEF NextRow, CyclesOK
<1> HIDE DEF rest
<1>q. QED
  BY <1>1, <1>2, CycleType, IdleType DEF CyclesOK

\* The items of rows that were queued.
KnownItems == {item \in Items : queue[item.of].status # "none"}

LEMMA SeqGrows ==
    ASSUME NEW S, NEW T, S \subseteq T, NEW s \in Seq(S)
    PROVE  s \in Seq(T)
<1>1. Len(s) \in Nat /\ s \in [1 .. Len(s) -> S]
  BY LenProperties
<1>2. s \in [1 .. Len(s) -> T]
  BY <1>1
<1>q. QED
  BY <1>1, <1>2, SeqDef

\* The batch a cycle takes: rows that are queued.
LEMMA TickOK ==
    ASSUME ConnectorTypeOK, NEW c \in Cycle, Tick(c)
    PROVE  /\ CyclesOK'
           /\ \E b \in Seq(KnownItems) : cycle' = [cycle EXCEPT ![c] = Running("post", b)]
<1> DEFINE due == {e \in Entry : queue[e].status = "PENDING" /\ System[e] # "NONE"}
           pending == Keep(queued, due)
           m == Min({BatchSize, Len(pending)})
           taken == SubSeq(pending, 1, m)
           items == [i \in DOMAIN taken |-> Item(taken[i], queue[taken[i]].retries)]
<1>0. queued \in Seq(Entry) /\ cycle \in [Cycle -> Cycles]
  BY DEF ConnectorTypeOK, QueueOK, CyclesOK
<1>1. pending \in Seq(due) /\ pending # <<>>
  <2>1. Entry \cap due = due
    OBVIOUS
  <2>q. QED
    BY <1>0, <2>1, KeepProperties DEF Tick
<1>2. \A e \in due : Item(e, queue[e].retries) \in KnownItems
  <2> SUFFICES ASSUME NEW e \in due PROVE Item(e, queue[e].retries) \in KnownItems
    OBVIOUS
  <2>1. queue[e].retries \in 0 .. MaxRetries - 1
    BY RowFields, ConnectorAssumption DEF ConnectorTypeOK, QueueOK
  <2>q. QED
    BY <2>1 DEF KnownItems, Items, Item
<1>3. cycle' = [cycle EXCEPT ![c] = Running("post", items)]
  BY DEF Tick
<1> HIDE DEF due, pending
<1>4. Len(pending) \in Nat \ {0}
  BY <1>1, LenProperties, EmptySeq
<1>5. m \in 1 .. Len(pending)
  <2>1. \E x \in {BatchSize, Len(pending)} : \A y \in {BatchSize, Len(pending)} : x <= y
    BY <1>4, ConnectorAssumption
  <2>2. m \in {BatchSize, Len(pending)} /\ \A y \in {BatchSize, Len(pending)} : m <= y
    BY <2>1 DEF Min
  <2>q. QED
    BY <1>4, <2>2, ConnectorAssumption
<1> HIDE DEF m
<1>6. taken \in Seq(due) /\ Len(taken) = m
  BY <1>1, <1>4, <1>5, SubSeqProperties
<1> HIDE DEF taken
<1>7. items \in Seq(KnownItems) /\ Len(items) = m
  <2>1. DOMAIN taken = 1 .. m /\ m \in Nat
    BY <1>4, <1>5, <1>6, LenProperties
  <2>2. \A i \in 1 .. m : taken[i] \in due
    BY <1>6, ElementOfSeq
  <2>3. items \in [1 .. m -> KnownItems]
    BY <1>2, <2>1, <2>2
  <2>q. QED
    BY <2>1, <2>3, SeqDef, LenProperties
<1> HIDE DEF items
<1>8. items # <<>>
  BY <1>4, <1>5, <1>7, EmptySeq
<1>9. items \in Seq(Items)
  BY <1>7, SeqGrows DEF KnownItems
<1>10. CyclesOK'
  BY <1>0, <1>3, <1>8, <1>9, CycleType DEF CyclesOK, ConnectorTypeOK
<1>q. QED
  BY <1>3, <1>7, <1>10

\* A step that queues a row writes one that has not been tried, and nothing else.
RowAdded(e, s) ==
    /\ queued' = Append(queued, e) /\ queue' = [queue EXCEPT ![e] = Row(s, 0, 0)]
    /\ UNCHANGED <<reviews, external, nextId, cycle, reviewer, faults>>

LEMMA QueueingAdds ==
    ASSUME NEW e \in Entry, Enqueue(e) \/ RecordRefusal(e)
    PROVE  /\ Enqueue(e) => RowAdded(e, "PENDING") /\ System[e] # "NONE"
           /\ RecordRefusal(e) => RowAdded(e, "FAILED") /\ System[e] = "NONE"
           /\ \E s \in {"PENDING", "FAILED"} : RowAdded(e, s)
BY DEF Enqueue, RecordRefusal, RowAdded

LEMMA RowAddedOK ==
    ASSUME QueueOK, NEW e \in Entry, NEW s \in {"PENDING", "FAILED"}, RowAdded(e, s)
    PROVE  QueueOK'
<1>1. /\ queued' = Append(queued, e) /\ queue' = [queue EXCEPT ![e] = Row(s, 0, 0)]
      /\ UNCHANGED <<external, nextId>>
  BY DEF RowAdded
<1>2. 0 \in 0 .. MaxRetries /\ 0 < MaxRetries /\ 0 \in Nat
  BY ConnectorAssumption
<1>3. Row(s, 0, 0) \in Rows /\ Row(s, 0, 0).retries = 0
  BY <1>2, RowType
<1>4. queued' \in Seq(Entry)
  BY <1>1, AppendProperties DEF QueueOK
<1>5. /\ queue' \in [Entry -> Rows]
      /\ \A d \in Entry : queue'[d].status = "PENDING" => queue'[d].retries < MaxRetries
  BY <1>1, <1>2, <1>3 DEF QueueOK
<1>q. QED
  BY <1>1, <1>4, <1>5 DEF QueueOK

\* A row that is set POSTED keeps its attempts.
LEMMA SetPostedOK ==
    ASSUME QueueOK, NEW e \in Entry, SetPosted(e), UNCHANGED <<queued, external, nextId>>
    PROVE  QueueOK'
<1>1. /\ queue[e].retries \in 0 .. MaxRetries /\ external[e] \in Nat
      /\ queue \in [Entry -> Rows]
  BY RowFields DEF QueueOK
<1>2. queue' = [queue EXCEPT ![e] = Row("POSTED", queue[e].retries, external[e])]
  BY DEF SetPosted
<1>3. /\ Row("POSTED", queue[e].retries, external[e]) \in Rows
      /\ Row("POSTED", queue[e].retries, external[e]).status = "POSTED"
  BY <1>1, RowType
<1>q. QED
  BY <1>1, <1>2, <1>3 DEF QueueOK

\* A review that is closed stays in the list, and the reviewer is free.
LEMMA CloseReviewOK ==
    ASSUME ReviewersOK, NEW u \in Reviewer, reviewer[u].at = "write",
           NEW s \in {"RETRIED", "DISMISSED"}, CloseReview(u, s)
    PROVE  /\ ReviewersOK' /\ DOMAIN reviews' = DOMAIN reviews
           /\ reviewer[u].review \in DOMAIN reviews
           /\ reviews[reviewer[u].review].of \in Entry
           /\ \A i \in DOMAIN reviews :
                /\ reviews'[i].of = reviews[i].of
                /\ reviews'[i].status = IF i = reviewer[u].review THEN s ELSE reviews[i].status
<1> DEFINE i == reviewer[u].review
           r == Review(reviews[i].of, s)
<1>1. i \in DOMAIN reviews /\ reviews \in Seq(Reviews) /\ reviewer \in [Reviewer -> Actions]
  BY DEF ReviewersOK
<1>2. DOMAIN reviews = 1 .. Len(reviews) /\ reviews[i] \in Reviews
  BY <1>1, LenProperties, ElementOfSeq
<1>3. reviews[i].of \in Entry
  BY <1>2 DEF Reviews
<1>4. r \in Reviews /\ r.of = reviews[i].of /\ r.status = s
  BY <1>3, ReviewType
<1>5. /\ reviews' = [reviews EXCEPT ![i] = r]
      /\ reviewer' = [reviewer EXCEPT ![u] = NoAction]
  BY DEF CloseReview
<1>6. NoAction \in Actions /\ NoAction.at = "idle"
  BY ActionType DEF NoAction
<1> HIDE DEF r
<1>7. reviews' \in Seq(Reviews) /\ DOMAIN reviews' = DOMAIN reviews
  BY <1>1, <1>2, <1>4, <1>5, ExceptSeq, LenProperties
<1>8. \A j \in DOMAIN reviews : reviews'[j] = IF j = i THEN r ELSE reviews[j]
  BY <1>1, <1>5
<1> HIDE DEF i
<1>9. ReviewersOK'
  BY <1>1, <1>5, <1>6, <1>7 DEF ReviewersOK
<1>q. QED
  BY <1>1, <1>3, <1>4, <1>7, <1>8, <1>9 DEF i

\* A review is added at the end.
LEMMA AddReviewOK ==
    ASSUME ReviewersOK, NEW e \in Entry, reviews' = Append(reviews, Review(e, "OPEN")),
           reviewer' = reviewer
    PROVE  /\ ReviewersOK' /\ DOMAIN reviews \subseteq DOMAIN reviews'
           /\ \A i \in DOMAIN reviews : reviews'[i] = reviews[i]
           /\ \E i \in DOMAIN reviews' : reviews'[i].of = e /\ reviews'[i].status = "OPEN"
           /\ \A i \in DOMAIN reviews' \ DOMAIN reviews : reviews'[i].of = e
<1>1. /\ Review(e, "OPEN") \in Reviews
      /\ Review(e, "OPEN").of = e /\ Review(e, "OPEN").status = "OPEN"
  BY ReviewType
<1>2. reviews \in Seq(Reviews)
  BY DEF ReviewersOK
<1>3. /\ reviews' \in Seq(Reviews) /\ Len(reviews') = Len(reviews) + 1
      /\ \A i \in 1 .. Len(reviews) : reviews'[i] = reviews[i]
      /\ reviews'[Len(reviews) + 1] = Review(e, "OPEN")
  BY <1>1, <1>2, AppendProperties
<1>4. /\ DOMAIN reviews = 1 .. Len(reviews) /\ DOMAIN reviews' = 1 .. Len(reviews')
      /\ Len(reviews) \in Nat
  BY <1>2, <1>3, LenProperties
<1>5. DOMAIN reviews \subseteq DOMAIN reviews' /\ Len(reviews) + 1 \in DOMAIN reviews'
  BY <1>3, <1>4
<1>6. ReviewersOK'
  BY <1>3, <1>5 DEF ReviewersOK
<1>7. \A i \in DOMAIN reviews' \ DOMAIN reviews : reviews'[i].of = e
  BY <1>1, <1>3, <1>4
<1>q. QED
  BY <1>1, <1>3, <1>4, <1>5, <1>6, <1>7

\* A failed attempt leaves a pending row with attempts left.
LEMMA RecordFailureOK ==
    ASSUME ConnectorTypeOK, NEW c \in Cycle, RecordFailure(c)
    PROVE  QueueOK' /\ ReviewersOK'
<1> DEFINE e == Current(c).of
           n == Attempts(Current(c))
<1>1. e \in Entry /\ n \in 1 .. MaxRetries
  <2>1. CyclesOK /\ cycle[c].at # "idle"
    BY DEF ConnectorTypeOK, RecordFailure
  <2>q. QED
    BY <2>1, CurrentRow, ConnectorAssumption DEF Attempts
<1>2. /\ queue \in [Entry -> Rows] /\ queue[e].externalId \in Nat
      /\ queue[e].status \in {"none", "PENDING", "POSTED", "FAILED"}
      /\ \A d \in Entry : queue[d].status = "PENDING" => queue[d].retries < MaxRetries
  BY <1>1, RowFields DEF ConnectorTypeOK, QueueOK
<1>3. UNCHANGED <<queued, external, nextId, reviewer>> /\ ReviewersOK
  BY DEF RecordFailure, ConnectorTypeOK
<1>4. MaxRetries \in Nat \ {0}
  BY ConnectorAssumption
<1>5. CASE n >= MaxRetries
  <2>1. /\ queue' = [queue EXCEPT ![e] = Row("FAILED", n, queue[e].externalId)]
        /\ reviews' = Append(reviews, Review(e, "OPEN"))
    BY <1>5 DEF RecordFailure, Escalate
  <2> HIDE DEF e, n
  <2>2. n \in 0 .. MaxRetries
    BY <1>1, <1>4
  <2>3. /\ Row("FAILED", n, queue[e].externalId) \in Rows
        /\ Row("FAILED", n, queue[e].externalId).status = "FAILED"
    BY <1>2, <2>2, RowType
  <2>4. QueueOK'
    BY <1>1, <1>2, <1>3, <2>1, <2>3 DEF QueueOK, ConnectorTypeOK
  <2>q. QED
    BY <1>1, <1>3, <2>1, <2>4, AddReviewOK
<1>6. CASE ~(n >= MaxRetries)
  <2>1. /\ queue' = [queue EXCEPT ![e] = Row(queue[e].status, n, queue[e].externalId)]
        /\ reviews' = reviews
    BY <1>6 DEF RecordFailure
  <2> HIDE DEF e, n
  <2>2. n \in 0 .. MaxRetries /\ n < MaxRetries
    BY <1>1, <1>4, <1>6
  <2>3. /\ Row(queue[e].status, n, queue[e].externalId) \in Rows
        /\ Row(queue[e].status, n, queue[e].externalId).retries = n
    BY <1>2, <2>2, RowType
  <2>4. QueueOK'
    BY <1>1, <1>2, <1>3, <2>1, <2>2, <2>3 DEF QueueOK, ConnectorTypeOK
  <2>q. QED
    BY <1>3, <2>1, <2>4 DEF ReviewersOK
<1>q. QED
  BY <1>5, <1>6

\* Every step keeps every variable in its type, and no row waits for a cycle
\* with its attempts used up.
THEOREM ConnectorTypeCorrect == ConnectorSpec => []ConnectorTypeOK
<1>1. ConnectorInit => ConnectorTypeOK
  <2> SUFFICES ASSUME ConnectorInit PROVE ConnectorTypeOK
    OBVIOUS
  <2> USE DEF ConnectorInit
  <2>1. NoRow \in Rows /\ NoRow.status = "none"
    BY RowType, ConnectorAssumption DEF NoRow
  <2>2. QueueOK
    BY <2>1, EmptySeq DEF QueueOK
  <2>3. CyclesOK
    BY IdleType DEF CyclesOK
  <2>4. NoAction \in Actions /\ NoAction.at = "idle"
    BY ActionType DEF NoAction
  <2>5. ReviewersOK
    BY <2>4, EmptySeq DEF ReviewersOK
  <2>q. QED
    BY <2>2, <2>3, <2>5 DEF ConnectorTypeOK
<1>2. ConnectorTypeOK /\ [ConnectorNext]_connectorVars => ConnectorTypeOK'
  <2> SUFFICES ASSUME ConnectorTypeOK, [ConnectorNext]_connectorVars
               PROVE  ConnectorTypeOK'
    OBVIOUS
  <2>t. QueueOK /\ CyclesOK /\ ReviewersOK /\ faults \in Nat
    BY DEF ConnectorTypeOK
  <2>f. ASSUME Fault PROVE faults' \in Nat
    BY <2>t, <2>f DEF Fault
  <2>1. ASSUME NEW e \in Entry, Enqueue(e) \/ RecordRefusal(e)
        PROVE  ConnectorTypeOK'
    <3>1. PICK s \in {"PENDING", "FAILED"} : RowAdded(e, s)
      BY <2>1, QueueingAdds
    <3>2. QueueOK'
      BY <2>t, <3>1, RowAddedOK
    <3>q. QED
      BY <2>t, <3>1, <3>2 DEF RowAdded, ConnectorTypeOK, CyclesOK, ReviewersOK
  <2>15. ASSUME NEW e \in Entry, RecordReview(e)
         PROVE  ConnectorTypeOK'
    <3>1. ReviewersOK'
      BY <2>t, <2>15, AddReviewOK DEF RecordReview
    <3>q. QED
      BY <2>t, <2>15, <3>1 DEF RecordReview, ConnectorTypeOK, QueueOK, CyclesOK
  <2>2. ASSUME NEW c \in Cycle, Tick(c)
        PROVE  ConnectorTypeOK'
    BY <2>t, <2>2, TickOK DEF Tick, ConnectorTypeOK, QueueOK, ReviewersOK
  <2>3. ASSUME NEW c \in Cycle, PostRow(c)
        PROVE  ConnectorTypeOK'
    <3> DEFINE e == Current(c).of
    <3>1. cycle[c].at # "idle" /\ Stay(c, "mark") /\ UNCHANGED <<queued, queue, reviews, faults, reviewer>>
      BY <2>3 DEF PostRow
    <3>2. CyclesOK' /\ e \in Entry
      BY <2>t, <3>1, StayOK, CurrentRow
    <3>3. /\ external' = [external EXCEPT ![e] = IF @ = 0 THEN nextId ELSE @]
          /\ nextId' = IF external[e] = 0 THEN nextId + 1 ELSE nextId
      BY <2>3 DEF PostRow
    <3> HIDE DEF e
    <3>4. nextId' \in Nat \ {0} /\ external' \in [Entry -> 0 .. nextId' - 1]
      BY <2>t, <3>2, <3>3 DEF QueueOK
    <3>q. QED
      BY <2>t, <3>1, <3>2, <3>4 DEF ConnectorTypeOK, QueueOK, ReviewersOK
  <2>4. ASSUME NEW c \in Cycle, PostThrows(c)
        PROVE  ConnectorTypeOK'
    <3>1. CyclesOK'
      BY <2>t, <2>4, StayOK DEF PostThrows
    <3>q. QED
      BY <2>t, <2>4, <3>1 DEF PostThrows, ConnectorTypeOK, QueueOK, ReviewersOK
  <2>5. ASSUME NEW c \in Cycle, MarkPosted(c)
        PROVE  ConnectorTypeOK'
    <3>1. cycle[c].at # "idle" /\ NextRow(c) /\ SetPosted(Current(c).of)
          /\ UNCHANGED <<reviews, faults, queued, external, nextId, reviewer>>
      BY <2>5 DEF MarkPosted
    <3>2. CyclesOK' /\ QueueOK'
      BY <2>t, <3>1, NextRowOK, CurrentRow, SetPostedOK
    <3>q. QED
      BY <2>t, <3>1, <3>2 DEF ConnectorTypeOK, ReviewersOK
  <2>6. ASSUME NEW c \in Cycle, MarkThrows(c)
        PROVE  ConnectorTypeOK'
    <3>1. /\ cycle[c].at # "idle" /\ Stay(c, "fail") /\ Fault
          /\ SetPosted(Current(c).of) \/ UNCHANGED queue
          /\ UNCHANGED <<reviews, queued, external, nextId, reviewer>>
      BY <2>6 DEF MarkThrows
    <3>2. CyclesOK' /\ Current(c).of \in Entry
      BY <2>t, <3>1, StayOK, CurrentRow
    <3>3. QueueOK'
      <4>1. CASE SetPosted(Current(c).of)
        BY <2>t, <3>1, <3>2, <4>1, SetPostedOK
      <4>2. CASE UNCHANGED queue
        BY <2>t, <3>1, <4>2 DEF QueueOK
      <4>q. QED
        BY <3>1, <4>1, <4>2
    <3>q. QED
      BY <2>t, <2>f, <3>1, <3>2, <3>3 DEF ConnectorTypeOK, ReviewersOK
  <2>7. ASSUME NEW c \in Cycle, RecordFailure(c)
        PROVE  ConnectorTypeOK'
    <3>1. cycle[c].at # "idle" /\ NextRow(c) /\ faults' = faults
      BY <2>7 DEF RecordFailure
    <3>2. CyclesOK' /\ QueueOK' /\ ReviewersOK'
      BY <2>t, <2>7, <3>1, NextRowOK, RecordFailureOK
    <3>q. QED
      BY <2>t, <3>1, <3>2 DEF ConnectorTypeOK
  <2>8. ASSUME NEW c \in Cycle, CycleFails(c)
        PROVE  ConnectorTypeOK'
    <3>1. CyclesOK'
      BY <2>t, <2>8, IdleType DEF CycleFails, CyclesOK
    <3>q. QED
      BY <2>t, <2>f, <2>8, <3>1 DEF CycleFails, ConnectorTypeOK, QueueOK, ReviewersOK
  <2>9. ASSUME CrashConnector
        PROVE  ConnectorTypeOK'
    <3>1. CyclesOK'
      BY <2>9, IdleType DEF CrashConnector, CyclesOK
    <3>q. QED
      BY <2>t, <2>f, <2>9, <3>1 DEF CrashConnector, ConnectorTypeOK, QueueOK, ReviewersOK
  <2>10. ASSUME NEW u \in Reviewer, NEW i \in DOMAIN reviews, NEW action \in {"retry", "dismiss"},
                ReadReview(u, i, action)
         PROVE  ConnectorTypeOK'
    <3>1. i \in Nat
      BY <2>t, LenProperties DEF ReviewersOK
    <3>2. /\ Acting("write", i, action) \in Actions
          /\ Acting("write", i, action).review = i
      BY <3>1, ActionType
    <3>3. ReviewersOK'
      BY <2>t, <2>10, <3>2 DEF ReadReview, ReviewersOK
    <3>q. QED
      BY <2>t, <2>10, <3>3 DEF ReadReview, ConnectorTypeOK, QueueOK, CyclesOK
  <2>11. ASSUME NEW u \in Reviewer, Retry(u)
         PROVE  ConnectorTypeOK'
    <3> DEFINE e == reviews[reviewer[u].review].of
    <3>1. /\ CloseReview(u, "RETRIED") /\ reviewer[u].at = "write"
          /\ queue' = [queue EXCEPT ![e] = Row("PENDING", 0, queue[e].externalId)]
          /\ UNCHANGED <<queued, external, nextId, cycle, faults>>
      BY <2>11 DEF Retry
    <3>2. ReviewersOK' /\ e \in Entry
      BY <2>t, <3>1, CloseReviewOK
    <3> HIDE DEF e
    <3>3. 0 \in 0 .. MaxRetries /\ 0 < MaxRetries
      BY ConnectorAssumption
    <3>4. queue[e].externalId \in Nat /\ queue \in [Entry -> Rows]
      BY <2>t, <3>2, RowFields DEF QueueOK
    <3>5. /\ Row("PENDING", 0, queue[e].externalId) \in Rows
          /\ Row("PENDING", 0, queue[e].externalId).retries = 0
      BY <3>3, <3>4, RowType
    <3>6. QueueOK'
      BY <2>t, <3>1, <3>2, <3>3, <3>4, <3>5 DEF QueueOK
    <3>q. QED
      BY <2>t, <3>1, <3>2, <3>6 DEF ConnectorTypeOK, CyclesOK
  <2>12. ASSUME NEW u \in Reviewer, Dismiss(u)
         PROVE  ConnectorTypeOK'
    <3>1. ReviewersOK'
      BY <2>t, <2>12, CloseReviewOK DEF Dismiss
    <3>q. QED
      BY <2>t, <2>12, <3>1 DEF Dismiss, ConnectorTypeOK, QueueOK, CyclesOK
  <2>13. ASSUME NEW u \in Reviewer, ReviewFails(u)
         PROVE  ConnectorTypeOK'
    <3>1. NoAction \in Actions /\ NoAction.at = "idle"
      BY ActionType DEF NoAction
    <3>2. ReviewersOK'
      BY <2>t, <2>13, <3>1 DEF ReviewFails, ReviewersOK
    <3>q. QED
      BY <2>t, <2>f, <2>13, <3>2 DEF ReviewFails, ConnectorTypeOK, QueueOK, CyclesOK
  <2>14. CASE UNCHANGED connectorVars
    BY <2>t, <2>14 DEF connectorVars, ConnectorTypeOK, QueueOK, CyclesOK, ReviewersOK
  <2>q. QED
    BY <2>1, <2>2, <2>3, <2>4, <2>5, <2>6, <2>7, <2>8, <2>9, <2>10, <2>11, <2>12, <2>13,
       <2>14, <2>15 DEF ConnectorNext, Poll
<1>q. QED
  BY <1>1, <1>2, PTL DEF ConnectorSpec
--------------------------------------------------------------------------------
(* The external ledger. *)

\* What makes PostedIsMirrored inductive: a cycle that is about to mark its
\* row has posted it, or found it posted.
MarksArePosted ==
    \A c \in Cycle : cycle[c].at = "mark" => external[Head(cycle[c].batch).of] # 0

\* A step that moves one cycle, to another place than "mark", or none.
LEMMA MarksKept ==
    ASSUME MarksArePosted, external' = external,
           \A c \in Cycle : cycle'[c] = cycle[c] \/ cycle'[c].at # "mark"
    PROVE  MarksArePosted'
BY DEF MarksArePosted

\* The next row of a cycle, or none, is not marked yet.
LEMMA OthersStay ==
    ASSUME CyclesOK, NEW c \in Cycle, cycle[c].at # "idle",
           NextRow(c) \/ Stay(c, "fail") \/ cycle' = [cycle EXCEPT ![c] = Idle]
    PROVE  \A d \in Cycle : cycle'[d] = cycle[d] \/ cycle'[d].at # "mark"
<1> DEFINE rest == Tail(cycle[c].batch)
<1>1. rest \in Seq(Items) /\ cycle[c].batch \in Seq(Items) /\ cycle \in [Cycle -> Cycles]
  BY CurrentRow, HeadTailProperties DEF CyclesOK
<1>2. \E r \in {Idle, Running("post", rest), Running("fail", cycle[c].batch)} :
         cycle' = [cycle EXCEPT ![c] = r]
  BY DEF NextRow, Stay
<1>3. /\ Idle.at # "mark" /\ Running("post", rest).at # "mark"
      /\ Running("fail", cycle[c].batch).at # "mark"
  <2>1. Idle.at # "mark"
    BY IdleType
  <2>2. Running("post", rest).at = "post"
    BY <1>1, CycleType
  <2>3. Running("fail", cycle[c].batch).at = "fail"
    BY <1>1, CycleType
  <2>q. QED
    BY <2>1, <2>2, <2>3
<1> HIDE DEF rest
<1>q. QED
  BY <1>1, <1>2, <1>3

\* A cycle about to mark its row has posted it, and what is marked stays true.
LEMMA MarksAndMirrors == ConnectorSpec => [](MarksArePosted /\ PostedIsMirrored)
<1> DEFINE Inv == MarksArePosted /\ PostedIsMirrored
<1>1. ConnectorInit => Inv
  BY DEF ConnectorInit, MarksArePosted, PostedIsMirrored, Idle, Running, NoRow, Row
<1>2. ConnectorTypeOK /\ Inv /\ [ConnectorNext]_connectorVars => Inv'
  <2> SUFFICES ASSUME ConnectorTypeOK, Inv, [ConnectorNext]_connectorVars
               PROVE  Inv'
    OBVIOUS
  <2>t. QueueOK /\ CyclesOK /\ ReviewersOK
    BY DEF ConnectorTypeOK
  <2>r. \A e \in Entry : /\ queue[e].retries \in 0 .. MaxRetries
                         /\ queue[e].status \in {"none", "PENDING", "POSTED", "FAILED"}
                         /\ queue[e].externalId \in Nat /\ external[e] \in Nat
    BY <2>t, RowFields DEF QueueOK
  \* A row is rewritten: it stays mirrored if what it says of the posting is
  \* true, or what it said before.
  <2>w. ASSUME NEW e \in Entry, NEW s \in {"none", "PENDING", "POSTED", "FAILED"},
               NEW n \in 0 .. MaxRetries, NEW x \in Nat,
               queue' = [queue EXCEPT ![e] = Row(s, n, x)], external' = external,
               s = "POSTED" => external[e] # 0 /\ x = external[e]
        PROVE  PostedIsMirrored'
    <3>1. Row(s, n, x).status = s /\ Row(s, n, x).externalId = x
      BY <2>w, RowType
    <3>q. QED
      BY <2>t, <2>w, <3>1 DEF QueueOK, PostedIsMirrored
  <2>u. ASSUME queue' = queue, external' = external
        PROVE  PostedIsMirrored'
    BY <2>u DEF PostedIsMirrored
  <2>c. ASSUME cycle' = cycle, external' = external
        PROVE  MarksArePosted'
    BY <2>c DEF MarksArePosted
  <2>1. ASSUME NEW e \in Entry, Enqueue(e) \/ RecordRefusal(e)
        PROVE  Inv'
    <3>1. PICK s \in {"PENDING", "FAILED"} : RowAdded(e, s)
      BY <2>1, QueueingAdds
    <3>2. /\ cycle' = cycle /\ external' = external
          /\ queue' = [queue EXCEPT ![e] = Row(s, 0, 0)]
      BY <3>1 DEF RowAdded
    <3>3. 0 \in 0 .. MaxRetries
      BY ConnectorAssumption
    <3>q. QED
      BY <2>w, <2>c, <3>2, <3>3
  <2>2. ASSUME NEW c \in Cycle, Tick(c)
        PROVE  Inv'
    <3>1. \E b : cycle' = [cycle EXCEPT ![c] = Running("post", b)]
      BY <2>2 DEF Tick
    <3>2. \A d \in Cycle : cycle'[d] = cycle[d] \/ cycle'[d].at # "mark"
      BY <2>t, <3>1 DEF CyclesOK, Running
    <3>q. QED
      BY <2>2, <2>u, <3>2, MarksKept DEF Tick
  <2>3. ASSUME NEW c \in Cycle, PostRow(c)
        PROVE  Inv'
    <3> DEFINE e == Current(c).of
               b == cycle[c].batch
    <3>1. /\ cycle[c].at # "idle" /\ cycle' = [cycle EXCEPT ![c] = Running("mark", b)]
          /\ external' = [external EXCEPT ![e] = IF @ = 0 THEN nextId ELSE @]
          /\ queue' = queue
      BY <2>3 DEF PostRow, Stay
    <3>2. e \in Entry /\ b \in Seq(Items)
      BY <2>t, <3>1, CurrentRow
    <3>3. e = Head(b).of
      BY DEF Current
    <3> HIDE DEF e, b
    <3>4. \A d \in Entry : external'[d] = IF d = e /\ external[e] = 0 THEN nextId ELSE external[d]
      BY <2>t, <3>1, <3>2 DEF QueueOK
    <3>5. nextId # 0 /\ \A d \in Entry : external[d] # nextId
      BY <2>t DEF QueueOK
    <3>6. PostedIsMirrored'
      BY <2>t, <3>1, <3>2, <3>4, <3>5 DEF QueueOK, PostedIsMirrored
    <3>7. cycle'[c].batch = b /\ \A d \in Cycle \ {c} : cycle'[d] = cycle[d]
      BY <2>t, <3>1 DEF CyclesOK, Running
    <3>8. external'[e] # 0
      BY <3>2, <3>4, <3>5
    <3>9. ASSUME NEW d \in Cycle \ {c}, cycle'[d].at = "mark"
          PROVE  external'[Head(cycle'[d].batch).of] # 0
      <4>1. cycle'[d] = cycle[d]
        BY <3>7
      <4>2. Head(cycle[d].batch).of \in Entry
        BY <2>t, <3>9, <4>1, CurrentRow DEF Current
      <4>3. external[Head(cycle[d].batch).of] # 0
        BY <3>9, <4>1 DEF MarksArePosted
      <4>q. QED
        BY <3>4, <3>5, <4>1, <4>2, <4>3
    <3>10. MarksArePosted'
      BY <3>3, <3>7, <3>8, <3>9 DEF MarksArePosted
    <3>q. QED
      BY <3>6, <3>10
  <2>4. ASSUME NEW c \in Cycle, PostThrows(c) \/ CycleFails(c)
        PROVE  Inv'
    <3>1. /\ cycle[c].at # "idle" /\ UNCHANGED <<queue, external>>
          /\ Stay(c, "fail") \/ cycle' = [cycle EXCEPT ![c] = Idle]
      BY <2>4 DEF PostThrows, CycleFails
    <3>q. QED
      BY <2>t, <2>u, <3>1, OthersStay, MarksKept
  <2>5. ASSUME NEW c \in Cycle, MarkPosted(c) \/ MarkThrows(c)
        PROVE  Inv'
    <3> DEFINE e == Current(c).of
    <3>1. /\ cycle[c].at = "mark"
          /\ NextRow(c) \/ Stay(c, "fail")
          /\ SetPosted(e) \/ queue' = queue
          /\ external' = external
      BY <2>5 DEF MarkPosted, MarkThrows
    <3>2. MarksArePosted'
      <4>1. \A d \in Cycle : cycle'[d] = cycle[d] \/ cycle'[d].at # "mark"
        BY <2>t, <3>1, OthersStay
      <4>q. QED
        BY <3>1, <4>1, MarksKept
    <3>3. external[e] # 0
      BY <3>1 DEF MarksArePosted, Current
    <3>4. e \in Entry
      BY <2>t, <3>1, CurrentRow
    <3> HIDE DEF e
    <3>5. PostedIsMirrored'
      <4>1. CASE SetPosted(e)
        BY <2>r, <2>w, <3>1, <3>3, <3>4, <4>1 DEF SetPosted
      <4>2. CASE queue' = queue
        BY <2>u, <3>1, <4>2
      <4>q. QED
        BY <3>1, <4>1, <4>2
    <3>q. QED
      BY <3>2, <3>5
  <2>6. ASSUME NEW c \in Cycle, RecordFailure(c)
        PROVE  Inv'
    <3> DEFINE e == Current(c).of
               n == Attempts(Current(c))
    <3>1. cycle[c].at # "idle" /\ NextRow(c) /\ external' = external
      BY <2>6 DEF RecordFailure
    <3>2. MarksArePosted'
      BY <2>t, <3>1, OthersStay, MarksKept
    <3>3. e \in Entry /\ n \in 0 .. MaxRetries
      BY <2>t, <3>1, CurrentRow, ConnectorAssumption DEF Attempts
    <3>4. \E s \in {queue[e].status, "FAILED"} :
             queue' = [queue EXCEPT ![e] = Row(s, n, queue[e].externalId)]
      BY <2>6 DEF RecordFailure
    <3> HIDE DEF e, n
    <3>5. queue[e].status = "POSTED" => external[e] # 0 /\ queue[e].externalId = external[e]
      BY <3>3 DEF PostedIsMirrored
    <3>6. PICK s \in {queue[e].status, "FAILED"} :
             queue' = [queue EXCEPT ![e] = Row(s, n, queue[e].externalId)]
      BY <3>4
    <3>7. /\ s \in {"none", "PENDING", "POSTED", "FAILED"} /\ queue[e].externalId \in Nat
          /\ s = "POSTED" => external[e] # 0 /\ queue[e].externalId = external[e]
      BY <2>r, <3>3, <3>5
    <3>8. PostedIsMirrored'
      BY <2>w, <3>1, <3>3, <3>6, <3>7
    <3>q. QED
      BY <3>2, <3>8
  <2>7. ASSUME CrashConnector
        PROVE  Inv'
    <3>1. /\ UNCHANGED <<queue, external>> /\ cycle' = [c \in Cycle |-> Idle]
          /\ Idle.at # "mark"
      BY <2>7, IdleType DEF CrashConnector
    <3>q. QED
      BY <2>u, <3>1, MarksKept
  <2>8. ASSUME NEW u \in Reviewer, Retry(u)
        PROVE  Inv'
    <3> DEFINE e == reviews[reviewer[u].review].of
    <3>1. /\ queue' = [queue EXCEPT ![e] = Row("PENDING", 0, queue[e].externalId)]
          /\ UNCHANGED <<external, cycle>>
      BY <2>8 DEF Retry
    <3>2. e \in Entry /\ 0 \in 0 .. MaxRetries
      BY <2>t, <2>8, CloseReviewOK, ConnectorAssumption DEF Retry
    <3> HIDE DEF e
    <3>q. QED
      BY <2>r, <2>w, <2>c, <3>1, <3>2
  <2>9. ASSUME \/ \E u \in Reviewer :
                    \/ \E i \in DOMAIN reviews : \E action \in {"retry", "dismiss"} : ReadReview(u, i, action)
                    \/ Dismiss(u) \/ ReviewFails(u)
               \/ \E e \in Entry : RecordReview(e)
        PROVE  Inv'
    BY <2>9, <2>u, <2>c DEF ReadReview, Dismiss, ReviewFails, RecordReview
  <2>10. CASE UNCHANGED connectorVars
    BY <2>10, <2>u, <2>c DEF connectorVars
  <2>q. QED
    BY <2>1, <2>2, <2>3, <2>4, <2>5, <2>6, <2>7, <2>8, <2>9, <2>10 DEF ConnectorNext, Poll
<1>q. QED
  BY <1>1, <1>2, ConnectorTypeCorrect, PTL DEF ConnectorSpec

\* A row that says POSTED names the one posting the external ledger holds for
\* it, whatever cycles overlap, crash or post again.
THEOREM PostedRowsAreMirrored == ConnectorSpec => []PostedIsMirrored
BY MarksAndMirrors, PTL

--------------------------------------------------------------------------------
(* Nothing that was given up is out of sight. *)

\* A row the connector gave up has an open review, unless somebody dismissed
\* one: whatever cycles give up a row again and whatever reviewers act on
\* reviews they read before.  It says nothing of the rows the ledger could not
\* post, whose review is written in a statement of its own.
THEOREM FailuresAreInSight == ConnectorSpec => []FailedIsInReview
<1>1. ConnectorInit => FailedIsInReview
  BY DEF ConnectorInit, FailedIsInReview, NoRow, Row
<1>2. ConnectorTypeOK /\ FailedIsInReview /\ [ConnectorNext]_connectorVars => FailedIsInReview'
  <2> SUFFICES ASSUME ConnectorTypeOK, FailedIsInReview, [ConnectorNext]_connectorVars
               PROVE  FailedIsInReview'
    OBVIOUS
  <2>t. QueueOK /\ CyclesOK /\ ReviewersOK
    BY DEF ConnectorTypeOK
  <2>r. \A e \in Entry : /\ queue[e].status \in {"none", "PENDING", "POSTED", "FAILED"}
                         /\ queue[e].retries \in 0 .. MaxRetries
                         /\ queue[e].externalId \in Nat /\ external[e] \in Nat
    BY <2>t, RowFields DEF QueueOK
  \* A row is rewritten, and the connector does not give it up by that.
  <2>w. ASSUME NEW e \in Entry, NEW s \in {"none", "PENDING", "POSTED", "FAILED"},
               NEW n \in 0 .. MaxRetries, NEW x \in Nat,
               queue' = [queue EXCEPT ![e] = Row(s, n, x)],
               s = "FAILED" => queue[e].status = "FAILED" \/ System[e] = "NONE"
        PROVE  \A d \in Entry : queue'[d].status = "FAILED" /\ System[d] # "NONE"
                                   => queue[d].status = "FAILED"
    <3>1. Row(s, n, x).status = s
      BY <2>w, RowType
    <3>q. QED
      BY <2>t, <2>w, <3>1 DEF QueueOK
  \* A row is given up and a review is added for it.
  <2>a. ASSUME NEW e \in Entry, reviews' = Append(reviews, Review(e, "OPEN")),
               reviewer' = reviewer, \A d \in Entry \ {e} : queue'[d] = queue[d]
        PROVE  FailedIsInReview'
    BY <2>t, <2>a, AddReviewOK DEF FailedIsInReview
  <2>u. ASSUME reviews' = reviews,
               \A d \in Entry : queue'[d].status = "FAILED" /\ System[d] # "NONE"
                                   => queue[d].status = "FAILED"
        PROVE  FailedIsInReview'
    BY <2>u DEF FailedIsInReview
  <2>1. ASSUME NEW e \in Entry, Enqueue(e) \/ RecordRefusal(e)
        PROVE  FailedIsInReview'
    <3>1. 0 \in 0 .. MaxRetries
      BY ConnectorAssumption
    <3>2. CASE Enqueue(e)
      <4>1. queue' = [queue EXCEPT ![e] = Row("PENDING", 0, 0)] /\ reviews' = reviews
        BY <3>2 DEF Enqueue
      <4>q. QED
        BY <2>u, <2>w, <3>1, <4>1
    <3>3. CASE RecordRefusal(e)
      <4>1. /\ queue' = [queue EXCEPT ![e] = Row("FAILED", 0, 0)] /\ reviews' = reviews
            /\ System[e] = "NONE"
        BY <3>3 DEF RecordRefusal
      <4>q. QED
        BY <2>u, <2>w, <3>1, <4>1
    <3>q. QED
      BY <2>1, <3>2, <3>3
  <2>8. ASSUME NEW e \in Entry, RecordReview(e)
        PROVE  FailedIsInReview'
    <3>1. /\ queue' = queue /\ reviewer' = reviewer
          /\ reviews' = Append(reviews, Review(e, "OPEN"))
      BY <2>8 DEF RecordReview
    <3>q. QED
      BY <2>a, <3>1
  <2>2. ASSUME NEW c \in Cycle, MarkPosted(c) \/ MarkThrows(c)
        PROVE  FailedIsInReview'
    <3> DEFINE e == Current(c).of
    <3>1. /\ cycle[c].at # "idle" /\ reviews' = reviews
          /\ SetPosted(e) \/ queue' = queue
      BY <2>2 DEF MarkPosted, MarkThrows
    <3>2. e \in Entry
      BY <2>t, <3>1, CurrentRow
    <3> HIDE DEF e
    <3>3. CASE SetPosted(e)
      BY <2>r, <2>u, <2>w, <3>1, <3>2, <3>3 DEF SetPosted
    <3>4. CASE queue' = queue
      BY <2>u, <3>1, <3>4
    <3>q. QED
      BY <3>1, <3>3, <3>4
  <2>3. ASSUME NEW c \in Cycle, RecordFailure(c)
        PROVE  FailedIsInReview'
    <3> DEFINE e == Current(c).of
               n == Attempts(Current(c))
    <3>1. e \in Entry /\ n \in 0 .. MaxRetries
      <4>1. cycle[c].at # "idle"
        BY <2>3 DEF RecordFailure
      <4>q. QED
        BY <2>t, <4>1, CurrentRow, ConnectorAssumption DEF Attempts
    <3>2. CASE n >= MaxRetries
      <4>1. /\ queue' = [queue EXCEPT ![e] = Row("FAILED", n, queue[e].externalId)]
            /\ reviews' = Append(reviews, Review(e, "OPEN")) /\ reviewer' = reviewer
        BY <2>3, <3>2 DEF RecordFailure, Escalate
      <4> HIDE DEF e, n
      <4>2. \A d \in Entry \ {e} : queue'[d] = queue[d]
        BY <2>t, <4>1 DEF QueueOK
      <4>q. QED
        BY <2>a, <3>1, <4>1, <4>2
    <3>3. CASE ~(n >= MaxRetries)
      <4>1. /\ queue' = [queue EXCEPT ![e] = Row(queue[e].status, n, queue[e].externalId)]
            /\ reviews' = reviews
        BY <2>3, <3>3 DEF RecordFailure
      <4> HIDE DEF e, n
      <4>q. QED
        BY <2>r, <2>u, <2>w, <3>1, <4>1
    <3>q. QED
      BY <3>2, <3>3
  <2>4. ASSUME NEW u \in Reviewer, Retry(u)
        PROVE  FailedIsInReview'
    <3> DEFINE i == reviewer[u].review
               e == reviews[i].of
    <3>1. /\ CloseReview(u, "RETRIED") /\ reviewer[u].at = "write"
          /\ queue' = [queue EXCEPT ![e] = Row("PENDING", 0, queue[e].externalId)]
      BY <2>4 DEF Retry
    <3>2. /\ DOMAIN reviews' = DOMAIN reviews /\ e \in Entry
          /\ \A j \in DOMAIN reviews :
               /\ reviews'[j].of = reviews[j].of
               /\ reviews'[j].status = IF j = i THEN "RETRIED" ELSE reviews[j].status
      BY <2>t, <3>1, CloseReviewOK
    <3>3. 0 \in 0 .. MaxRetries /\ queue[e].externalId \in Nat
      BY <2>r, <3>2, ConnectorAssumption
    <3>4. Row("PENDING", 0, queue[e].externalId).status = "PENDING"
      BY <3>3, RowType
    <3>5. queue'[e].status # "FAILED" /\ \A d \in Entry \ {e} : queue'[d] = queue[d]
      BY <2>t, <3>1, <3>2, <3>4 DEF QueueOK
    <3>6. ASSUME NEW d \in Entry, queue'[d].status = "FAILED", System[d] # "NONE"
          PROVE  \E j \in DOMAIN reviews' :
                    reviews'[j].of = d /\ reviews'[j].status \in {"OPEN", "DISMISSED"}
      <4>1. d # e /\ queue[d].status = "FAILED"
        BY <3>5, <3>6
      <4>2. PICK j \in DOMAIN reviews :
               reviews[j].of = d /\ reviews[j].status \in {"OPEN", "DISMISSED"}
        BY <3>6, <4>1 DEF FailedIsInReview
      <4>3. j # i
        BY <4>1, <4>2
      <4>q. QED
        BY <3>2, <4>2, <4>3
    <3>q. QED
      BY <3>6 DEF FailedIsInReview
  <2>5. ASSUME NEW u \in Reviewer, Dismiss(u)
        PROVE  FailedIsInReview'
    <3>1. /\ queue' = queue /\ DOMAIN reviews' = DOMAIN reviews
          /\ \A j \in DOMAIN reviews :
               /\ reviews'[j].of = reviews[j].of
               /\ reviews'[j].status \in {"DISMISSED", reviews[j].status}
      BY <2>t, <2>5, CloseReviewOK DEF Dismiss
    <3>q. QED
      BY <3>1 DEF FailedIsInReview
  <2>6. ASSUME \/ \E c \in Cycle : \/ Tick(c) \/ PostRow(c) \/ PostThrows(c) \/ CycleFails(c)
               \/ CrashConnector
               \/ \E u \in Reviewer :
                    \/ \E i \in DOMAIN reviews : \E action \in {"retry", "dismiss"} : ReadReview(u, i, action)
                    \/ ReviewFails(u)
        PROVE  FailedIsInReview'
    <3>1. UNCHANGED <<queue, reviews>>
      BY <2>6 DEF Tick, PostRow, PostThrows, CycleFails, CrashConnector, ReadReview, ReviewFails
    <3>q. QED
      BY <3>1, <2>u
  <2>7. CASE UNCHANGED connectorVars
    BY <2>7, <2>u DEF connectorVars
  <2>q. QED
    BY <2>1, <2>2, <2>3, <2>4, <2>5, <2>6, <2>7, <2>8 DEF ConnectorNext, Poll
<1>q. QED
  BY <1>1, <1>2, ConnectorTypeCorrect, PTL DEF ConnectorSpec

--------------------------------------------------------------------------------
(* The connector implements MirroredQueue. *)

\* What a cycle works on and what a reviewer sees was queued, and only rows
\* of the implemented connector are tried again.
RowsKnown ==
    /\ \A c \in Cycle : cycle[c].batch \in Seq(KnownItems)
    /\ \A j \in DOMAIN reviews : queue[reviews[j].of].status # "none"
    /\ \A u \in Reviewer : reviewer[u].at = "write" /\ reviewer[u].action = "retry" =>
          System[reviews[reviewer[u].review].of] = "CUSTOM_MODULE"

\* The rows a step leaves as they are, or writes once.
RowWritten(e, s) ==
    \E n \in 0 .. MaxRetries : \E x \in Nat : queue' = [queue EXCEPT ![e] = Row(s, n, x)]

LEMMA RowWrittenOK ==
    ASSUME QueueOK, NEW e \in Entry, NEW s \in {"none", "PENDING", "POSTED", "FAILED"},
           RowWritten(e, s)
    PROVE  queue'[e].status = s /\ \A d \in Entry \ {e} : queue'[d] = queue[d]
<1>1. PICK n \in 0 .. MaxRetries, x \in Nat : queue' = [queue EXCEPT ![e] = Row(s, n, x)]
  BY DEF RowWritten
<1>2. Row(s, n, x).status = s /\ queue \in [Entry -> Rows]
  BY RowType DEF QueueOK
<1>q. QED
  BY <1>1, <1>2

\* No step takes a row out of the queue.
LEMMA QueuedForGood ==
    ASSUME ConnectorTypeOK, [ConnectorNext]_connectorVars
    PROVE  \A d \in Entry : queue[d].status # "none" => queue'[d].status # "none"
<1> DEFINE Kept == \A d \in Entry : queue[d].status # "none" => queue'[d].status # "none"
<1>t. QueueOK /\ CyclesOK /\ ReviewersOK
  BY DEF ConnectorTypeOK
<1>r. \A e \in Entry : /\ queue[e].status \in {"none", "PENDING", "POSTED", "FAILED"}
                       /\ queue[e].retries \in 0 .. MaxRetries
                       /\ queue[e].externalId \in Nat /\ external[e] \in Nat
  BY <1>t, RowFields DEF QueueOK
<1>w. ASSUME NEW e \in Entry, NEW s \in {"none", "PENDING", "POSTED", "FAILED"}, RowWritten(e, s),
             queue[e].status # "none" => s # "none"
      PROVE  Kept
  BY <1>t, <1>w, RowWrittenOK
<1>z. 0 \in 0 .. MaxRetries
  BY ConnectorAssumption
<1>1. ASSUME NEW e \in Entry, Enqueue(e) \/ RecordRefusal(e)
      PROVE  Kept
  <2>1. PICK s \in {"PENDING", "FAILED"} : RowAdded(e, s)
    BY <1>1, QueueingAdds
  <2>2. RowWritten(e, s)
    BY <1>z, <2>1 DEF RowAdded, RowWritten
  <2>q. QED
    BY <1>w, <2>2
<1>2. ASSUME NEW c \in Cycle, MarkPosted(c) \/ MarkThrows(c)
      PROVE  Kept
  <2> DEFINE e == Current(c).of
  <2>1. cycle[c].at # "idle" /\ (SetPosted(e) \/ queue' = queue)
    BY <1>2 DEF MarkPosted, MarkThrows
  <2>2. e \in Entry
    BY <1>t, <2>1, CurrentRow
  <2> HIDE DEF e
  <2>3. CASE SetPosted(e)
    <3>1. RowWritten(e, "POSTED")
      BY <1>r, <2>2, <2>3 DEF SetPosted, RowWritten
    <3>q. QED
      BY <1>w, <2>2, <3>1
  <2>q. QED
    BY <2>1, <2>3
<1>3. ASSUME NEW c \in Cycle, RecordFailure(c)
      PROVE  Kept
  <2> DEFINE e == Current(c).of
             n == Attempts(Current(c))
  <2>1. e \in Entry /\ n \in 0 .. MaxRetries
    <3>1. cycle[c].at # "idle"
      BY <1>3 DEF RecordFailure
    <3>q. QED
      BY <1>t, <3>1, CurrentRow, ConnectorAssumption DEF Attempts
  <2>2. \E s \in {queue[e].status, "FAILED"} :
           queue' = [queue EXCEPT ![e] = Row(s, n, queue[e].externalId)]
    BY <1>3 DEF RecordFailure
  <2> HIDE DEF e, n
  <2>3. PICK s \in {queue[e].status, "FAILED"} : RowWritten(e, s)
    BY <1>r, <2>1, <2>2 DEF RowWritten
  <2>q. QED
    BY <1>r, <1>w, <2>1, <2>3
<1>4. ASSUME NEW u \in Reviewer, Retry(u)
      PROVE  Kept
  <2> DEFINE e == reviews[reviewer[u].review].of
  <2>1. queue' = [queue EXCEPT ![e] = Row("PENDING", 0, queue[e].externalId)]
    BY <1>4 DEF Retry
  <2>2. e \in Entry
    BY <1>t, <1>4, CloseReviewOK DEF Retry
  <2> HIDE DEF e
  <2>3. RowWritten(e, "PENDING")
    BY <1>r, <1>z, <2>1, <2>2 DEF RowWritten
  <2>q. QED
    BY <1>w, <2>2, <2>3
<1>5. ASSUME \/ \E c \in Cycle : \/ Tick(c) \/ PostRow(c) \/ PostThrows(c) \/ CycleFails(c)
             \/ CrashConnector
             \/ \E u \in Reviewer :
                  \/ \E i \in DOMAIN reviews : \E action \in {"retry", "dismiss"} : ReadReview(u, i, action)
                  \/ Dismiss(u) \/ ReviewFails(u)
             \/ \E e \in Entry : RecordReview(e)
             \/ UNCHANGED connectorVars
      PROVE  Kept
  <2>1. queue' = queue
    BY <1>5 DEF Tick, PostRow, PostThrows, CycleFails, CrashConnector, ReadReview, Dismiss,
                ReviewFails, RecordReview, connectorVars
  <2>q. QED
    BY <2>1
<1>q. QED
  BY <1>1, <1>2, <1>3, <1>4, <1>5 DEF ConnectorNext, Poll

\* The batches hold queued rows only.
LEMMA BatchesKnown ==
    ASSUME ConnectorTypeOK, RowsKnown, [ConnectorNext]_connectorVars
    PROVE  \A d \in Cycle : cycle'[d].batch \in Seq(KnownItems)
<1> DEFINE Known == \A d \in Cycle : cycle'[d].batch \in Seq(KnownItems)
<1>t. CyclesOK /\ cycle \in [Cycle -> Cycles]
  BY DEF ConnectorTypeOK, CyclesOK
<1>b. \A c \in Cycle : cycle[c].batch \in Seq(KnownItems)
  BY DEF RowsKnown
<1>e. <<>> \in Seq(KnownItems) /\ Seq(KnownItems) \subseteq Seq(Items)
  BY EmptySeq, SeqGrows DEF KnownItems
\* A step that gives one cycle another batch of queued rows.
<1>w. ASSUME NEW c \in Cycle, NEW a \in {"idle", "post", "mark", "fail"}, NEW b \in Seq(KnownItems),
             cycle' = [cycle EXCEPT ![c] = Running(a, b)]
      PROVE  Known
  <2>1. Running(a, b).batch = b
    BY <1>e, CycleType
  <2>q. QED
    BY <1>t, <1>b, <1>w, <2>1
<1>1. ASSUME NEW c \in Cycle, Tick(c)
      PROVE  Known
  <2>1. PICK b \in Seq(KnownItems) : cycle' = [cycle EXCEPT ![c] = Running("post", b)]
    BY <1>1, TickOK
  <2>q. QED
    BY <1>w, <2>1
<1>2. ASSUME NEW c \in Cycle, NEW a \in {"post", "mark", "fail"}, Stay(c, a)
      PROVE  Known
  BY <1>b, <1>w, <1>2 DEF Stay
<1>3. ASSUME NEW c \in Cycle, cycle[c].at # "idle", NextRow(c)
      PROVE  Known
  <2> DEFINE rest == Tail(cycle[c].batch)
  <2>1. cycle[c].batch # <<>> /\ cycle[c].batch \in Seq(KnownItems)
    BY <1>t, <1>b, <1>3, CurrentRow
  <2>2. rest \in Seq(KnownItems)
    BY <2>1, HeadTailProperties
  <2>3. \/ cycle' = [cycle EXCEPT ![c] = Running("idle", <<>>)]
        \/ cycle' = [cycle EXCEPT ![c] = Running("post", rest)]
    BY <1>3 DEF NextRow, Idle
  <2> HIDE DEF rest
  <2>q. QED
    BY <1>e, <1>w, <2>2, <2>3
<1>4. ASSUME NEW c \in Cycle, CycleFails(c)
      PROVE  Known
  BY <1>e, <1>w, <1>4 DEF CycleFails, Idle
<1>5. ASSUME CrashConnector
      PROVE  Known
  BY <1>e, <1>5, IdleType DEF CrashConnector
<1>6. ASSUME NEW c \in Cycle, \/ PostRow(c) \/ PostThrows(c) \/ MarkPosted(c) \/ MarkThrows(c)
                              \/ RecordFailure(c)
      PROVE  Known
  <2>1. cycle[c].at # "idle" /\ (NextRow(c) \/ \E a \in {"post", "mark", "fail"} : Stay(c, a))
    BY <1>6 DEF PostRow, PostThrows, MarkPosted, MarkThrows, RecordFailure
  <2>q. QED
    BY <1>2, <1>3, <2>1
<1>7. ASSUME cycle' = cycle
      PROVE  Known
  BY <1>b, <1>7
<1>8. ASSUME \/ \E e \in Entry : Enqueue(e) \/ RecordRefusal(e) \/ RecordReview(e)
             \/ \E u \in Reviewer :
                  \/ \E i \in DOMAIN reviews : \E action \in {"retry", "dismiss"} : ReadReview(u, i, action)
                  \/ Retry(u) \/ Dismiss(u) \/ ReviewFails(u)
             \/ UNCHANGED connectorVars
      PROVE  Known
  BY <1>7, <1>8 DEF Enqueue, RecordRefusal, RecordReview, ReadReview, Retry, Dismiss, ReviewFails, connectorVars
<1>q. QED
  BY <1>1, <1>4, <1>5, <1>6, <1>8 DEF ConnectorNext, Poll

\* A review is about the same row for good, and every review is about a queued one.
LEMMA ReviewsKnown ==
    ASSUME ConnectorTypeOK, RowsKnown, [ConnectorNext]_connectorVars
    PROVE  /\ \A j \in DOMAIN reviews : j \in DOMAIN reviews' /\ reviews'[j].of = reviews[j].of
           /\ \A j \in DOMAIN reviews' : queue'[reviews'[j].of].status # "none"
<1> DEFINE Same == \A j \in DOMAIN reviews : j \in DOMAIN reviews' /\ reviews'[j].of = reviews[j].of
           New == \A j \in DOMAIN reviews' \ DOMAIN reviews : queue'[reviews'[j].of].status # "none"
<1>t. QueueOK /\ CyclesOK /\ ReviewersOK
  BY DEF ConnectorTypeOK
<1>o. \A j \in DOMAIN reviews : reviews[j].of \in Entry
  <2>1. reviews \in Seq(Reviews) /\ DOMAIN reviews = 1 .. Len(reviews)
    BY <1>t, LenProperties DEF ReviewersOK
  <2>2. \A j \in DOMAIN reviews : reviews[j] \in Reviews
    BY <2>1, ElementOfSeq
  <2>q. QED
    BY <2>2 DEF Reviews
<1>k. \A d \in Entry : queue[d].status # "none" => queue'[d].status # "none"
  BY QueuedForGood
<1>a. ASSUME NEW e \in Entry, reviews' = Append(reviews, Review(e, "OPEN")), reviewer' = reviewer,
             queue'[e].status # "none"
      PROVE  Same /\ New
  BY <1>t, <1>a, AddReviewOK
<1>u. ASSUME reviews' = reviews
      PROVE  Same /\ New
  BY <1>u
<1>1. ASSUME NEW e \in Entry, Enqueue(e) \/ RecordRefusal(e)
      PROVE  Same /\ New
  BY <1>1, <1>u DEF Enqueue, RecordRefusal
<1>7. ASSUME NEW e \in Entry, RecordReview(e)
      PROVE  Same /\ New
  <2>1. /\ queue' = queue /\ queue[e].status = "FAILED" /\ reviewer' = reviewer
        /\ reviews' = Append(reviews, Review(e, "OPEN"))
    BY <1>7 DEF RecordReview
  <2>q. QED
    BY <1>a, <2>1
<1>2. ASSUME NEW c \in Cycle, RecordFailure(c)
      PROVE  Same /\ New
  <2> DEFINE e == Current(c).of
  <2>1. cycle[c].at # "idle" /\ reviewer' = reviewer
    BY <1>2 DEF RecordFailure
  <2>2. e \in Entry /\ Current(c) \in KnownItems
    <3>1. cycle[c].batch \in Seq(KnownItems) /\ cycle[c].batch # <<>>
      BY <1>t, <2>1, CurrentRow DEF RowsKnown
    <3>q. QED
      BY <1>t, <2>1, <3>1, CurrentRow, HeadTailProperties DEF Current
  <2>3. queue'[e].status # "none"
    BY <1>k, <2>2 DEF KnownItems
  <2>4. reviews' = Append(reviews, Review(e, "OPEN")) \/ reviews' = reviews
    BY <1>2 DEF RecordFailure, Escalate
  <2> HIDE DEF e
  <2>q. QED
    BY <1>a, <1>u, <2>1, <2>2, <2>3, <2>4
<1>3. ASSUME NEW u \in Reviewer, Retry(u) \/ Dismiss(u)
      PROVE  Same /\ New
  <2>1. PICK s \in {"RETRIED", "DISMISSED"} : CloseReview(u, s)
    BY <1>3 DEF Retry, Dismiss
  <2>2. reviewer[u].at = "write"
    BY <1>3 DEF Retry, Dismiss
  <2>q. QED
    BY <1>t, <2>1, <2>2, CloseReviewOK
<1>4. ASSUME \/ \E c \in Cycle : \/ Tick(c) \/ PostRow(c) \/ PostThrows(c) \/ CycleFails(c)
                                 \/ MarkPosted(c) \/ MarkThrows(c)
             \/ CrashConnector
             \/ \E u \in Reviewer :
                  \/ \E i \in DOMAIN reviews : \E action \in {"retry", "dismiss"} : ReadReview(u, i, action)
                  \/ ReviewFails(u)
             \/ UNCHANGED connectorVars
      PROVE  Same /\ New
  <2>1. reviews' = reviews
    BY <1>4 DEF Tick, PostRow, PostThrows, CycleFails, MarkPosted, MarkThrows, CrashConnector,
                ReadReview, ReviewFails, connectorVars
  <2>q. QED
    BY <1>u, <2>1
<1>5. Same /\ New
  BY <1>1, <1>2, <1>3, <1>4, <1>7 DEF ConnectorNext, Poll
<1>6. ASSUME NEW j \in DOMAIN reviews
      PROVE  queue'[reviews'[j].of].status # "none"
  BY <1>k, <1>o, <1>5 DEF RowsKnown
<1>q. QED
  BY <1>5, <1>6

\* A reviewer has only rows of the implemented connector tried again.
LEMMA RetriesKnown ==
    ASSUME ConnectorTypeOK, RowsKnown, [ConnectorNext]_connectorVars
    PROVE  \A u \in Reviewer : reviewer'[u].at = "write" /\ reviewer'[u].action = "retry" =>
               System[reviews'[reviewer'[u].review].of] = "CUSTOM_MODULE"
<1>t. ReviewersOK /\ reviewer \in [Reviewer -> Actions]
  BY DEF ConnectorTypeOK, ReviewersOK
<1>s. \A j \in DOMAIN reviews : reviews'[j].of = reviews[j].of
  BY ReviewsKnown
<1>n. NoAction.at = "idle"
  BY ActionType DEF NoAction
\* The reviewers that do not read a review, read one before or are free.
<1>u. ASSUME NEW u \in Reviewer, reviewer'[u].at = "write", reviewer'[u].action = "retry",
             reviewer'[u] = reviewer[u]
      PROVE  System[reviews'[reviewer'[u].review].of] = "CUSTOM_MODULE"
  <2>1. reviewer[u].review \in DOMAIN reviews
    BY <1>t, <1>u DEF ReviewersOK
  <2>q. QED
    BY <1>s, <1>u, <2>1 DEF RowsKnown
<1>1. ASSUME NEW v \in Reviewer, NEW i \in DOMAIN reviews, NEW action \in {"retry", "dismiss"},
             ReadReview(v, i, action),
             NEW u \in Reviewer, reviewer'[u].at = "write", reviewer'[u].action = "retry"
      PROVE  System[reviews'[reviewer'[u].review].of] = "CUSTOM_MODULE"
  <2>1. i \in Nat
    BY <1>t, LenProperties DEF ReviewersOK
  <2>2. /\ reviewer' = [reviewer EXCEPT ![v] = Acting("write", i, action)] /\ reviews' = reviews
        /\ action = "retry" => System[reviews[i].of] = "CUSTOM_MODULE"
    BY <1>1 DEF ReadReview
  <2>3. CASE u = v
    <3>1. reviewer'[u] = Acting("write", i, action)
      BY <1>t, <2>2, <2>3
    <3>2. reviewer'[u].review = i /\ reviewer'[u].action = action
      BY <2>1, <3>1, ActionType
    <3>q. QED
      BY <1>1, <2>2, <3>2
  <2>4. CASE u # v
    BY <1>t, <1>u, <1>1, <2>2, <2>4
  <2>q. QED
    BY <2>3, <2>4
<1>2. ASSUME NEW v \in Reviewer, Retry(v) \/ Dismiss(v) \/ ReviewFails(v),
             NEW u \in Reviewer, reviewer'[u].at = "write", reviewer'[u].action = "retry"
      PROVE  System[reviews'[reviewer'[u].review].of] = "CUSTOM_MODULE"
  <2>1. reviewer' = [reviewer EXCEPT ![v] = NoAction]
    BY <1>2 DEF Retry, Dismiss, ReviewFails, CloseReview
  <2>2. reviewer'[u] = reviewer[u]
    BY <1>t, <1>n, <1>2, <2>1
  <2>q. QED
    BY <1>u, <1>2, <2>2
<1>3. ASSUME \/ \E e \in Entry : Enqueue(e) \/ RecordRefusal(e) \/ RecordReview(e)
             \/ \E c \in Cycle : \/ Tick(c) \/ PostRow(c) \/ PostThrows(c) \/ MarkPosted(c)
                                 \/ RecordFailure(c) \/ MarkThrows(c) \/ CycleFails(c)
             \/ CrashConnector
             \/ UNCHANGED connectorVars
      PROVE  reviewer' = reviewer
  BY <1>3 DEF Enqueue, RecordRefusal, RecordReview, Tick, PostRow, PostThrows, CycleFails, MarkPosted, MarkThrows,
              RecordFailure, CrashConnector, connectorVars
<1>4. SUFFICES ASSUME NEW u \in Reviewer, reviewer'[u].at = "write", reviewer'[u].action = "retry"
               PROVE  System[reviews'[reviewer'[u].review].of] = "CUSTOM_MODULE"
  OBVIOUS
<1>5. CASE reviewer' = reviewer
  BY <1>u, <1>4, <1>5
<1>6. CASE \E v \in Reviewer : Retry(v) \/ Dismiss(v) \/ ReviewFails(v)
  BY <1>2, <1>4, <1>6
<1>7. CASE \E v \in Reviewer : \E i \in DOMAIN reviews : \E action \in {"retry", "dismiss"} :
              ReadReview(v, i, action)
  BY <1>1, <1>4, <1>7
<1>q. QED
  BY <1>3, <1>5, <1>6, <1>7 DEF ConnectorNext, Poll

LEMMA RowsAreKnown == ConnectorSpec => []RowsKnown
<1>1. ConnectorInit => RowsKnown
  <2> SUFFICES ASSUME ConnectorInit PROVE RowsKnown
    OBVIOUS
  <2>1. \A c \in Cycle : cycle[c].batch \in Seq(KnownItems)
    BY IdleType, EmptySeq DEF ConnectorInit
  <2>2. DOMAIN reviews = {}
    BY DEF ConnectorInit
  <2>3. \A u \in Reviewer : reviewer[u].at = "idle"
    BY ActionType DEF ConnectorInit, NoAction
  <2>q. QED
    BY <2>1, <2>2, <2>3 DEF RowsKnown
<1>2. ConnectorTypeOK /\ RowsKnown /\ [ConnectorNext]_connectorVars => RowsKnown'
  <2> SUFFICES ASSUME ConnectorTypeOK, RowsKnown, [ConnectorNext]_connectorVars
               PROVE  RowsKnown'
    OBVIOUS
  <2>1. KnownItems \subseteq KnownItems'
    BY QueuedForGood DEF KnownItems, Items
  <2>2. \A c \in Cycle : cycle'[c].batch \in Seq(KnownItems')
    BY <2>1, BatchesKnown, SeqGrows
  <2>q. QED
    BY <2>2, ReviewsKnown, RetriesKnown DEF RowsKnown
<1>q. QED
  BY <1>1, <1>2, ConnectorTypeCorrect, PTL DEF ConnectorSpec

\* What MirroredQueue sees of the queue and of the reviews.
StatusOf == [d \in Entry |-> queue[d].status]
ExternalIdOf == [d \in Entry |-> queue[d].externalId]
InSight == {d \in Entry : \E j \in DOMAIN reviews :
               reviews[j].of = d /\ reviews[j].status \in {"OPEN", "DISMISSED"}}

\* A step sets the status, or the external id, that is seen of a row.
StatusBecomes(e, s) == StatusOf' = [StatusOf EXCEPT ![e] = s]
ExternalIdBecomes(e, x) == ExternalIdOf' = [ExternalIdOf EXCEPT ![e] = x]

LEMMA RowIsSeen ==
    ASSUME QueueOK, NEW e \in Entry, NEW s \in {"none", "PENDING", "POSTED", "FAILED"},
           NEW n \in 0 .. MaxRetries, NEW x \in Nat, queue' = [queue EXCEPT ![e] = Row(s, n, x)]
    PROVE  StatusBecomes(e, s) /\ ExternalIdBecomes(e, x)
<1>1. Row(s, n, x).status = s /\ Row(s, n, x).externalId = x
  BY RowType
<1>2. \A d \in Entry : queue'[d] = IF d = e THEN Row(s, n, x) ELSE queue[d]
  BY DEF QueueOK
<1>3. \A d \in Entry : /\ queue'[d].status = IF d = e THEN s ELSE queue[d].status
                       /\ queue'[d].externalId = IF d = e THEN x ELSE queue[d].externalId
  BY <1>1, <1>2
<1>4. StatusBecomes(e, s)
  BY <1>3 DEF StatusBecomes, StatusOf
<1>5. ExternalIdBecomes(e, x)
  BY <1>3 DEF ExternalIdBecomes, ExternalIdOf
<1>q. QED
  BY <1>4, <1>5

\* A row that keeps its status, or its external id, is seen to keep it.
LEMMA RowKeeps ==
    ASSUME NEW e \in Entry
    PROVE  /\ StatusBecomes(e, queue[e].status) => StatusOf' = StatusOf
           /\ ExternalIdBecomes(e, queue[e].externalId) => ExternalIdOf' = ExternalIdOf
BY DEF StatusBecomes, ExternalIdBecomes, StatusOf, ExternalIdOf

\* A review that is added brings its row into sight.
LEMMA ReviewIsSeen ==
    ASSUME ReviewersOK, NEW e \in Entry, reviews' = Append(reviews, Review(e, "OPEN")),
           reviewer' = reviewer
    PROVE  InSight' = InSight \cup {e}
<1>1. ASSUME NEW d \in Entry, d \in InSight
      PROVE  d \in InSight'
  BY <1>1, AddReviewOK DEF InSight
<1>2. e \in InSight'
  BY AddReviewOK DEF InSight
<1>3. ASSUME NEW d \in Entry, d \in InSight', d # e
      PROVE  d \in InSight
  BY <1>3, AddReviewOK DEF InSight
<1>q. QED
  BY <1>1, <1>2, <1>3 DEF InSight

\* A step of MirroredQueue by a named action is a step of MirroredQueue.
LEMMA MirrorStep ==
    ASSUME NEW d \in Entry,
           \/ Mirrored!Queue(d) \/ Mirrored!Refuse(d) \/ Mirrored!Show(d) \/ Mirrored!Mirror(d)
           \/ Mirrored!Settle(d) \/ Mirrored!GiveUp(d) \/ Mirrored!Reopen(d) \/ Mirrored!Dismiss(d)
    PROVE  Mirrored!MirrorNext
BY DEF Mirrored!MirrorNext

\* A row that is queued had not been seen, and is seen with its first status.
LEMMA RowAddedIsSeen ==
    ASSUME ConnectorTypeOK, NEW e \in Entry, NEW s \in {"PENDING", "FAILED"},
           Queueable(e), RowAdded(e, s)
    PROVE  /\ StatusOf[e] = "none" /\ StatusBecomes(e, s)
           /\ ExternalIdOf' = ExternalIdOf /\ InSight' = InSight
<1>1. /\ queue[e] = NoRow /\ reviews' = reviews
      /\ queue' = [queue EXCEPT ![e] = Row(s, 0, 0)]
  BY DEF Queueable, RowAdded
<1>z. 0 \in 0 .. MaxRetries /\ 0 \in Nat
  BY ConnectorAssumption
<1>2. queue[e].status = "none" /\ queue[e].externalId = 0
  BY <1>1, <1>z, RowType DEF NoRow
<1>3. StatusBecomes(e, s) /\ ExternalIdBecomes(e, 0)
  BY <1>z, <1>1, RowIsSeen DEF ConnectorTypeOK
<1>4. ExternalIdOf' = ExternalIdOf
  BY <1>2, <1>3, RowKeeps
<1>5. StatusOf[e] = "none" /\ InSight' = InSight
  BY <1>1, <1>2 DEF StatusOf, InSight
<1>q. QED
  BY <1>3, <1>4, <1>5

LEMMA EnqueueQueues ==
    ASSUME ConnectorTypeOK, NEW e \in Entry, Enqueue(e) \/ RecordRefusal(e)
    PROVE  Mirrored!MirrorNext
<1>1. CASE Enqueue(e)
  <2>1. /\ Queueable(e) /\ RowAdded(e, "PENDING") /\ System[e] # "NONE"
        /\ UNCHANGED <<external, nextId>>
    BY <1>1, QueueingAdds DEF Enqueue
  <2>2. /\ StatusOf[e] = "none" /\ StatusBecomes(e, "PENDING")
        /\ ExternalIdOf' = ExternalIdOf /\ InSight' = InSight
    BY <2>1, RowAddedIsSeen
  <2>3. PICK d \in Entry : Mirrored!Queue(d)
    BY <2>1, <2>2 DEF Mirrored!Queue, StatusBecomes, StatusOf, ExternalIdOf, InSight
  <2>q. QED
    BY <2>3, MirrorStep
<1>2. CASE RecordRefusal(e)
  <2>1. /\ Queueable(e) /\ RowAdded(e, "FAILED") /\ System[e] = "NONE"
        /\ UNCHANGED <<external, nextId>>
    BY <1>2, QueueingAdds DEF RecordRefusal
  <2>2. /\ StatusOf[e] = "none" /\ StatusBecomes(e, "FAILED")
        /\ ExternalIdOf' = ExternalIdOf /\ InSight' = InSight
    BY <2>1, RowAddedIsSeen
  <2>3. PICK d \in Entry : Mirrored!Refuse(d)
    BY <2>1, <2>2 DEF Mirrored!Refuse, StatusBecomes, StatusOf, ExternalIdOf, InSight
  <2>q. QED
    BY <2>3, MirrorStep
<1>q. QED
  BY <1>1, <1>2

\* The review of a refused event brings its row into sight, later than it was
\* queued.
LEMMA ReviewShows ==
    ASSUME ConnectorTypeOK, NEW e \in Entry, RecordReview(e)
    PROVE  Mirrored!MirrorNext
<1>1. /\ queue[e].status = "FAILED" /\ System[e] = "NONE"
      /\ \A j \in DOMAIN reviews : reviews[j].of # e
      /\ reviews' = Append(reviews, Review(e, "OPEN")) /\ reviewer' = reviewer
      /\ UNCHANGED <<queue, external, nextId>>
  BY DEF RecordReview
<1>2. StatusOf[e] = "FAILED" /\ StatusOf' = StatusOf /\ ExternalIdOf' = ExternalIdOf
  BY <1>1 DEF StatusOf, ExternalIdOf
<1>3. e \notin InSight
  BY <1>1 DEF InSight
<1>4. InSight' = InSight \cup {e}
  BY <1>1, ReviewIsSeen DEF ConnectorTypeOK
<1>5. PICK d \in Entry : Mirrored!Show(d)
  BY <1>1, <1>2, <1>3, <1>4 DEF Mirrored!Show, StatusOf, ExternalIdOf, InSight
<1>q. QED
  BY <1>5, MirrorStep

\* The row a running cycle is at was queued.
LEMMA CurrentIsKnown ==
    ASSUME ConnectorTypeOK, RowsKnown, NEW c \in Cycle, cycle[c].at # "idle"
    PROVE  /\ Current(c).of \in Entry /\ System[Current(c).of] # "NONE"
           /\ queue[Current(c).of].status # "none" /\ StatusOf[Current(c).of] # "none"
<1>1. CyclesOK
  BY DEF ConnectorTypeOK
<1>2. cycle[c].batch \in Seq(KnownItems) /\ cycle[c].batch # <<>>
  BY <1>1, CurrentRow DEF RowsKnown
<1>3. Current(c) \in KnownItems
  BY <1>2, HeadTailProperties DEF Current
<1>4. Current(c).of \in Entry /\ System[Current(c).of] # "NONE"
  BY <1>1, CurrentRow
<1>q. QED
  BY <1>3, <1>4 DEF KnownItems, StatusOf

LEMMA PostMirrors ==
    ASSUME ConnectorTypeOK, RowsKnown, NEW c \in Cycle, PostRow(c)
    PROVE  Mirrored!MirrorNext \/ UNCHANGED Mirrored!mirrorVars
<1> DEFINE e == Current(c).of
<1>1. /\ cycle[c].at # "idle" /\ System[e] = "CUSTOM_MODULE"
      /\ external' = [external EXCEPT ![e] = IF @ = 0 THEN nextId ELSE @]
      /\ nextId' = IF external[e] = 0 THEN nextId + 1 ELSE nextId
      /\ UNCHANGED <<queue, reviews>>
  BY DEF PostRow
<1>2. e \in Entry /\ StatusOf[e] # "none"
  BY <1>1, CurrentIsKnown
<1> HIDE DEF e
<1>3. external \in [Entry -> 0 .. nextId - 1]
  BY DEF ConnectorTypeOK, QueueOK
<1>4. StatusOf' = StatusOf /\ ExternalIdOf' = ExternalIdOf /\ InSight' = InSight
  BY <1>1 DEF StatusOf, ExternalIdOf, InSight
<1>5. CASE external[e] = 0
  <2>1. external' = [external EXCEPT ![e] = nextId] /\ nextId' = nextId + 1
    BY <1>1, <1>5
  <2>2. PICK d \in Entry : Mirrored!Mirror(d)
    BY <1>1, <1>2, <1>4, <1>5, <2>1 DEF Mirrored!Mirror, StatusBecomes, ExternalIdBecomes,
        StatusOf, ExternalIdOf, InSight
  <2>q. QED
    BY <1>2, <2>2, MirrorStep
<1>6. CASE external[e] # 0
  <2>1. external' = external /\ nextId' = nextId
    BY <1>1, <1>2, <1>3, <1>6
  <2>q. QED
    BY <1>4, <2>1 DEF Mirrored!mirrorVars, StatusOf, ExternalIdOf, InSight
<1>q. QED
  BY <1>5, <1>6

LEMMA MarkSettles ==
    ASSUME ConnectorTypeOK, MarksArePosted, RowsKnown, NEW c \in Cycle,
           MarkPosted(c) \/ MarkThrows(c)
    PROVE  Mirrored!MirrorNext \/ UNCHANGED Mirrored!mirrorVars
<1> DEFINE e == Current(c).of
<1>1. /\ cycle[c].at = "mark" /\ UNCHANGED <<external, nextId, reviews>>
      /\ SetPosted(e) \/ queue' = queue
  BY DEF MarkPosted, MarkThrows
<1>2. e \in Entry /\ queue[e].status # "none" /\ StatusOf[e] # "none"
  BY <1>1, CurrentIsKnown
<1>3. external[e] # 0
  BY <1>1 DEF MarksArePosted, Current
<1> HIDE DEF e
<1>4. InSight' = InSight
  BY <1>1 DEF InSight
<1>5. CASE SetPosted(e)
  <2>1. QueueOK /\ queue[e].retries \in 0 .. MaxRetries /\ external[e] \in Nat
    BY <1>2, RowFields DEF ConnectorTypeOK, QueueOK
  <2>2. queue' = [queue EXCEPT ![e] = Row("POSTED", queue[e].retries, external[e])]
    BY <1>5 DEF SetPosted
  <2>3. /\ StatusBecomes(e, "POSTED")
        /\ ExternalIdBecomes(e, external[e])
    BY <1>2, <2>1, <2>2, RowIsSeen
  <2>4. PICK d \in Entry : Mirrored!Settle(d)
    BY <1>1, <1>2, <1>3, <1>4, <2>3 DEF Mirrored!Settle, StatusBecomes, ExternalIdBecomes,
        StatusOf, ExternalIdOf, InSight
  <2>q. QED
    BY <1>2, <2>4, MirrorStep
<1>6. CASE queue' = queue
  BY <1>1, <1>6 DEF Mirrored!mirrorVars
<1>q. QED
  BY <1>1, <1>5, <1>6

LEMMA FailureGivesUp ==
    ASSUME ConnectorTypeOK, RowsKnown, NEW c \in Cycle, RecordFailure(c)
    PROVE  Mirrored!MirrorNext \/ UNCHANGED Mirrored!mirrorVars
<1> DEFINE e == Current(c).of
           n == Attempts(Current(c))
<1>t. QueueOK /\ CyclesOK /\ ReviewersOK
  BY DEF ConnectorTypeOK
<1>1. cycle[c].at # "idle" /\ UNCHANGED <<external, nextId, reviewer>>
  BY DEF RecordFailure
<1>2. e \in Entry /\ System[e] # "NONE" /\ StatusOf[e] # "none"
  BY <1>1, CurrentIsKnown
<1>3. n \in 0 .. MaxRetries
  BY <1>t, <1>1, CurrentRow, ConnectorAssumption DEF Attempts
<1>4. queue[e].status \in {"none", "PENDING", "POSTED", "FAILED"} /\ queue[e].externalId \in Nat
  BY <1>t, <1>2, RowFields DEF QueueOK
<1>5. CASE n >= MaxRetries
  <2>1. /\ queue' = [queue EXCEPT ![e] = Row("FAILED", n, queue[e].externalId)]
        /\ reviews' = Append(reviews, Review(e, "OPEN"))
    BY <1>5 DEF RecordFailure, Escalate
  <2> HIDE DEF e, n
  <2>2. /\ StatusBecomes(e, "FAILED")
        /\ ExternalIdBecomes(e, queue[e].externalId)
    BY <1>t, <1>2, <1>3, <1>4, <2>1, RowIsSeen
  <2>3. ExternalIdOf' = ExternalIdOf
    BY <1>2, <2>2, RowKeeps
  <2>4. InSight' = InSight \cup {e}
    BY <1>t, <1>1, <1>2, <2>1, ReviewIsSeen
  <2>5. PICK d \in Entry : Mirrored!GiveUp(d)
    BY <1>1, <1>2, <2>2, <2>3, <2>4 DEF Mirrored!GiveUp, StatusBecomes, ExternalIdBecomes,
        StatusOf, ExternalIdOf, InSight
  <2>q. QED
    BY <1>2, <2>5, MirrorStep
<1>6. CASE ~(n >= MaxRetries)
  <2>1. /\ queue' = [queue EXCEPT ![e] = Row(queue[e].status, n, queue[e].externalId)]
        /\ reviews' = reviews
    BY <1>6 DEF RecordFailure
  <2> HIDE DEF e, n
  <2>2. /\ StatusBecomes(e, queue[e].status)
        /\ ExternalIdBecomes(e, queue[e].externalId)
    BY <1>t, <1>2, <1>3, <1>4, <2>1, RowIsSeen
  <2>3. StatusOf' = StatusOf /\ ExternalIdOf' = ExternalIdOf /\ InSight' = InSight
    BY <1>2, <2>1, <2>2, RowKeeps DEF InSight
  <2>q. QED
    BY <1>1, <2>3 DEF Mirrored!mirrorVars, StatusOf, ExternalIdOf, InSight
<1>q. QED
  BY <1>5, <1>6

LEMMA RetryReopens ==
    ASSUME ConnectorTypeOK, RowsKnown, NEW u \in Reviewer, Retry(u)
    PROVE  Mirrored!MirrorNext
<1> DEFINE i == reviewer[u].review
           e == reviews[i].of
<1>t. QueueOK /\ ReviewersOK
  BY DEF ConnectorTypeOK
<1>1. /\ reviewer[u].at = "write" /\ reviewer[u].action = "retry" /\ CloseReview(u, "RETRIED")
      /\ queue' = [queue EXCEPT ![e] = Row("PENDING", 0, queue[e].externalId)]
      /\ UNCHANGED <<external, nextId>>
  BY DEF Retry
<1>2. /\ DOMAIN reviews' = DOMAIN reviews /\ i \in DOMAIN reviews /\ e \in Entry
      /\ \A j \in DOMAIN reviews :
           /\ reviews'[j].of = reviews[j].of
           /\ reviews'[j].status = IF j = i THEN "RETRIED" ELSE reviews[j].status
  BY <1>t, <1>1, CloseReviewOK
<1>3. System[e] = "CUSTOM_MODULE" /\ StatusOf[e] # "none"
  BY <1>1, <1>2 DEF RowsKnown, StatusOf
<1>4. 0 \in 0 .. MaxRetries /\ queue[e].externalId \in Nat
  BY <1>t, <1>2, RowFields, ConnectorAssumption DEF QueueOK
<1>5. \A d \in Entry : d # e => (d \in InSight' <=> d \in InSight)
  BY <1>2 DEF InSight
<1>6. e \in InSight' => e \in InSight
  BY <1>2 DEF InSight
<1> HIDE DEF e
<1>7. InSight' \in {InSight, InSight \ {e}}
  <2>1. InSight \subseteq Entry /\ InSight' \subseteq Entry
    BY DEF InSight
  <2>2. CASE e \in InSight'
    BY <1>5, <1>6, <2>1, <2>2
  <2>3. CASE e \notin InSight'
    BY <1>5, <2>1, <2>3
  <2>q. QED
    BY <2>2, <2>3
<1>8. /\ StatusBecomes(e, "PENDING")
      /\ ExternalIdBecomes(e, queue[e].externalId)
  BY <1>t, <1>1, <1>2, <1>4, RowIsSeen
<1>9. ExternalIdOf' = ExternalIdOf
  BY <1>2, <1>8, RowKeeps
<1>10. PICK d \in Entry : Mirrored!Reopen(d)
  BY <1>1, <1>2, <1>3, <1>7, <1>8, <1>9 DEF Mirrored!Reopen, StatusBecomes, ExternalIdBecomes,
        StatusOf, ExternalIdOf, InSight
<1>q. QED
  BY <1>2, <1>10, MirrorStep

LEMMA DismissalDismisses ==
    ASSUME ConnectorTypeOK, RowsKnown, NEW u \in Reviewer, Dismiss(u)
    PROVE  Mirrored!MirrorNext
<1> DEFINE i == reviewer[u].review
           e == reviews[i].of
<1>t. ReviewersOK
  BY DEF ConnectorTypeOK
<1>1. /\ reviewer[u].at = "write" /\ CloseReview(u, "DISMISSED")
      /\ UNCHANGED <<queue, external, nextId>>
  BY DEF Dismiss
<1>2. /\ DOMAIN reviews' = DOMAIN reviews /\ i \in DOMAIN reviews /\ e \in Entry
      /\ \A j \in DOMAIN reviews :
           /\ reviews'[j].of = reviews[j].of
           /\ reviews'[j].status = IF j = i THEN "DISMISSED" ELSE reviews[j].status
  BY <1>t, <1>1, CloseReviewOK
<1>3. StatusOf[e] # "none" /\ StatusOf' = StatusOf /\ ExternalIdOf' = ExternalIdOf
  BY <1>1, <1>2 DEF RowsKnown, StatusOf, ExternalIdOf
<1>4. \A d \in Entry : d \in InSight' <=> d \in InSight \/ d = e
  BY <1>2 DEF InSight
<1> HIDE DEF e
<1>5. InSight' = InSight \cup {e}
  BY <1>2, <1>4 DEF InSight
<1>6. PICK d \in Entry : Mirrored!Dismiss(d)
  BY <1>1, <1>2, <1>3, <1>5 DEF Mirrored!Dismiss, StatusBecomes, ExternalIdBecomes,
        StatusOf, ExternalIdOf, InSight
<1>q. QED
  BY <1>2, <1>6, MirrorStep

\* With cycles, batches and reviewers hidden, the connector is MirroredQueue:
\* the ledger queues a row, or refuses it and shows it later or never, PostRow mirrors a row for the first time or changes nothing, MarkPosted settles
\* it, RecordFailure gives it up in sight or changes nothing, and the reviewers
\* reopen and dismiss.
THEOREM MirrorImplemented == ConnectorSpec => ImplementsMirror
<1>1. ConnectorInit => Mirrored!MirrorInit
  <2> SUFFICES ASSUME ConnectorInit PROVE Mirrored!MirrorInit
    OBVIOUS
  <2>1. 0 \in 0 .. MaxRetries /\ 0 \in Nat
    BY ConnectorAssumption
  <2>2. NoRow.status = "none" /\ NoRow.externalId = 0
    BY <2>1, RowType DEF NoRow
  <2>3. DOMAIN reviews = {} /\ queue = [e \in Entry |-> NoRow]
    BY DEF ConnectorInit
  <2>q. QED
    BY <2>2, <2>3 DEF ConnectorInit, Mirrored!MirrorInit
<1>2. ConnectorTypeOK /\ MarksArePosted /\ RowsKnown /\ [ConnectorNext]_connectorVars
        => [Mirrored!MirrorNext]_(Mirrored!mirrorVars)
  <2> SUFFICES ASSUME ConnectorTypeOK, MarksArePosted, RowsKnown, [ConnectorNext]_connectorVars
               PROVE  Mirrored!MirrorNext \/ UNCHANGED Mirrored!mirrorVars
    OBVIOUS
  <2>1. ASSUME \/ \E c \in Cycle : Tick(c) \/ PostThrows(c) \/ CycleFails(c)
               \/ CrashConnector
               \/ \E u \in Reviewer :
                    \/ \E i \in DOMAIN reviews : \E action \in {"retry", "dismiss"} : ReadReview(u, i, action)
                    \/ ReviewFails(u)
               \/ UNCHANGED connectorVars
        PROVE  UNCHANGED Mirrored!mirrorVars
    <3>1. UNCHANGED <<queue, reviews, external, nextId>>
      BY <2>1 DEF Tick, PostThrows, CycleFails, CrashConnector, ReadReview, ReviewFails, connectorVars
    <3>q. QED
      BY <3>1 DEF Mirrored!mirrorVars
  <2>q. QED
    BY <2>1, EnqueueQueues, ReviewShows, PostMirrors, MarkSettles, FailureGivesUp, RetryReopens,
       DismissalDismisses DEF ConnectorNext, Poll
<1>q. QED
  BY <1>1, <1>2, ConnectorTypeCorrect, MarksAndMirrors, RowsAreKnown,
     PTL DEF ConnectorSpec, ImplementsMirror, Mirrored!MirrorSpec
================================================================================
