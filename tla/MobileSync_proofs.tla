-------------------------- MODULE MobileSync_proofs --------------------------
(***************************************************************************)
(* Proofs about MobileSync, for every set of events, every number of       *)
(* services, every size of batches and pages and any number of failures.   *)
(***************************************************************************)
EXTENDS MobileSync, Collections_proofs

--------------------------------------------------------------------------------
(* The elements of a sequence. *)

LEMMA ToSetType ==
    ASSUME NEW S, NEW s \in Seq(S)
    PROVE  ToSet(s) \subseteq S /\ (ToSet(s) = {} <=> s = <<>>)
<1>1. DOMAIN s = 1 .. Len(s) /\ Len(s) \in Nat
  BY LenProperties
<1>2. \A i \in 1 .. Len(s) : s[i] \in S
  BY ElementOfSeq
<1>3. s # <<>> => 1 \in 1 .. Len(s)
  BY <1>1, EmptySeq
<1>4. s = <<>> => DOMAIN s = {}
  BY <1>1
<1>q. QED
  BY <1>1, <1>2, <1>3, <1>4 DEF ToSet

LEMMA ToSetAppend ==
    ASSUME NEW S, NEW s \in Seq(S), NEW x \in S
    PROVE  ToSet(Append(s, x)) = ToSet(s) \cup {x}
<1>1. /\ Len(s) \in Nat /\ DOMAIN s = 1 .. Len(s) /\ DOMAIN Append(s, x) = 1 .. Len(s) + 1
      /\ \A i \in 1 .. Len(s) : Append(s, x)[i] = s[i]
      /\ Append(s, x)[Len(s) + 1] = x
  BY LenProperties, AppendProperties
<1>q. QED
  BY <1>1 DEF ToSet

LEMMA ToSetTail ==
    ASSUME NEW S, NEW s \in Seq(S), s # <<>>
    PROVE  ToSet(s) = {Head(s)} \cup ToSet(Tail(s))
<1>1. /\ Len(s) \in Nat \ {0} /\ DOMAIN s = 1 .. Len(s)
      /\ Tail(s) \in Seq(S) /\ Len(Tail(s)) = Len(s) - 1 /\ DOMAIN Tail(s) = 1 .. Len(s) - 1
      /\ \A i \in 1 .. Len(s) - 1 : Tail(s)[i] = s[i + 1]
  BY LenProperties, HeadTailProperties, EmptySeq
<1>2. Head(s) = s[1]
  OBVIOUS
<1>3. ASSUME NEW x \in ToSet(s) PROVE x \in {Head(s)} \cup ToSet(Tail(s))
  <2>1. PICK i \in 1 .. Len(s) : x = s[i]
    BY <1>1 DEF ToSet
  <2>2. CASE i = 1
    BY <1>2, <2>1, <2>2
  <2>3. CASE i # 1
    <3>1. i - 1 \in 1 .. Len(s) - 1 /\ (i - 1) + 1 = i
      BY <1>1, <2>1, <2>3
    <3>2. Tail(s)[i - 1] = x
      BY <1>1, <2>1, <3>1
    <3>q. QED
      BY <1>1, <3>1, <3>2 DEF ToSet
  <2>q. QED
    BY <2>2, <2>3
<1>4. \A i \in 1 .. Len(s) - 1 : i + 1 \in 1 .. Len(s)
  BY <1>1
<1>5. ToSet(Tail(s)) \subseteq ToSet(s)
  BY <1>1, <1>4 DEF ToSet
<1>6. Head(s) \in ToSet(s)
  BY <1>1, <1>2 DEF ToSet
<1>q. QED
  BY <1>3, <1>5, <1>6

LEMMA ToSetKeep ==
    ASSUME NEW S, NEW s \in Seq(S), NEW P
    PROVE  ToSet(Keep(s, P)) = ToSet(s) \cap P /\ Keep(s, P) \in Seq(S)
<1>1. /\ Keep(s, P) \in Seq(S \cap P)
      /\ \A x : (\E i \in 1 .. Len(s) : s[i] = x /\ x \in P)
                <=> \E j \in 1 .. Len(Keep(s, P)) : Keep(s, P)[j] = x
  BY KeepProperties
<1>2. DOMAIN s = 1 .. Len(s) /\ DOMAIN Keep(s, P) = 1 .. Len(Keep(s, P))
  BY <1>1, LenProperties
<1>3. Keep(s, P) \in Seq(S)
  BY <1>1, SeqMonotonic
<1>q. QED
  BY <1>1, <1>2, <1>3 DEF ToSet

\* The oldest pending events, as many as a batch takes.
LEMMA TakenType ==
    ASSUME NEW s \in Seq(Local)
    PROVE  LET taken == SubSeq(s, 1, Min({BatchSize, Len(s)}))
           IN  taken \in Seq(Local) /\ ToSet(taken) \subseteq ToSet(s)
<1> DEFINE n == Min({BatchSize, Len(s)})
           taken == SubSeq(s, 1, n)
<1>1. Len(s) \in Nat /\ BatchSize \in Nat /\ DOMAIN s = 1 .. Len(s)
  BY LenProperties, SyncAssumption
<1>2. n \in Nat /\ n <= Len(s)
  <2>1. CASE BatchSize <= Len(s)
    BY <1>1, <2>1 DEF Min
  <2>2. CASE ~(BatchSize <= Len(s))
    BY <1>1, <2>2 DEF Min
  <2>q. QED
    BY <2>1, <2>2
<1> HIDE DEF n
<1>3. \A i \in 1 .. n : i \in 1 .. Len(s) /\ s[i] \in Local
  BY <1>1, <1>2, ElementOfSeq
<1>4. /\ taken \in Seq(Local) /\ Len(taken) = (IF 1 <= n THEN n - 1 + 1 ELSE 0)
      /\ \A i \in 1 .. n - 1 + 1 : taken[i] = s[1 + i - 1]
  BY <1>2, <1>3, SubSeqProperties
<1>5. DOMAIN taken = 1 .. Len(taken) /\ Len(taken) = n
  BY <1>2, <1>4, LenProperties
<1> HIDE DEF taken
<1>6. \A i \in 1 .. n : taken[i] = s[i]
  BY <1>2, <1>4
<1>7. ToSet(taken) \subseteq ToSet(s)
  BY <1>1, <1>3, <1>5, <1>6 DEF ToSet
<1>q. QED
  BY <1>4, <1>7 DEF taken, n

--------------------------------------------------------------------------------
(* Passes and requests. *)

LEMMA PassFields ==
    ASSUME NEW a, NEW b, NEW g, NEW res, NEW t, NEW p
    PROVE  /\ Pass(a, b, g, res, t, p).at = a /\ Pass(a, b, g, res, t, p).batch = b
           /\ Pass(a, b, g, res, t, p).group = g /\ Pass(a, b, g, res, t, p).results = res
           /\ Pass(a, b, g, res, t, p).table = t /\ Pass(a, b, g, res, t, p).page = p
BY DEF Pass

LEMMA RequestType ==
    ASSUME NEW ev \in Seq(Local), NEW res \in Seq(Local \X Answers),
           NEW b \in BOOLEAN, NEW w \in BOOLEAN, NEW f \in BOOLEAN
    PROVE  Request(ev, res, b, w, f) \in Requests
BY DEF Request, Requests

LEMMA RequestParts ==
    ASSUME NEW r \in Requests
    PROVE  /\ r.events \in Seq(Local) /\ r.results \in Seq(Local \X Answers)
           /\ r.busy \in BOOLEAN /\ r.waiting \in BOOLEAN /\ r.failed \in BOOLEAN
BY DEF Requests

--------------------------------------------------------------------------------
(* The inductive invariant. *)

\* What an answer claims of the rows R.
Tells(R, e, a) ==
    /\ a = "ACKED" => R[e] \in {"APPLIED", "REVISED"}
    /\ a = "NEEDS_REVIEW" => R[e] = "NEEDS_REVIEW"
    /\ a = "REJECTED" => e \in Invalid

\* Numbers are drawn once; a row has one from its insertion on, and is not
\* committed while its transaction is open.
SeqOK ==
    /\ \A e, f \in Event : seqOf[e] = seqOf[f] /\ seqOf[e] > 0 => e = f
    /\ \A e \in Event : rows[e] # "none" \/ e \in open => seqOf[e] > 0
    /\ \A e \in open : rows[e] = "none"
    /\ IsFiniteSet({e \in Event : seqOf[e] > 0})

\* A request holds captured events and true answers; the transaction it has
\* open is for its first event and for nobody else.
WireTruth ==
    /\ \A r \in wire : \A p \in ToSet(r.results) : Tells(rows, p[1], p[2])
    /\ \A r \in wire : \A e \in ToSet(r.events) : outbox[e] # "none"
    /\ \A r \in wire : r.busy => Head(r.events) \in open \ Invalid
    /\ \A r, q \in wire :
          r.busy /\ q.busy /\ Head(r.events) = Head(q.events) => r = q

\* So do the results the pass received.
PassTruth ==
    /\ \A p \in ToSet(pass.results) : Tells(rows, p[1], p[2])
    /\ \A e \in ToSet(pass.batch) : outbox[e] # "none"

\* The device waits for one request at most, which has answered or still
\* holds every event of the group.
WaitOK ==
    /\ \A r \in wire : r.waiting =>
          /\ pass.at = "await"
          /\ r.failed \/ ToSet(pass.group) \subseteq
                             ToSet(r.events) \cup {p[1] : p \in ToSet(r.results)}
    /\ \A r, q \in wire : r.waiting /\ q.waiting => r = q

\* The cursor of a table is the number of one of its committed rows.
CursorOK ==
    \A t \in Table : cursor[t] = 0 \/
        \E e \in Event : rows[e] # "none" /\ TableOf[e] = t /\ cursor[t] = seqOf[e]

\* The status of a copy of a row, next to the row's own.
CopyOf(a, row) == a = row \/ (a = "APPLIED" /\ row = "REVISED")

\* A fetched page: rows of its table, and no row that committed in time
\* between the cursor and one of them is left out.
PageOK ==
    pass.at \in {"page", "cursor"} =>
        \A m \in DOMAIN pass.page :
            /\ TableOf[m] = Tables[pass.table] /\ CopyOf(pass.page[m], rows[m])
            /\ pass.at = "cursor" => cache[m] \notin {"none", "local"}
            /\ \A e \in Event :
                  /\ rows[e] # "none" /\ TableOf[e] = TableOf[m] /\ e \notin late
                  /\ seqOf[e] <= seqOf[m]
                  => e \in DOMAIN pass.page \/ seqOf[e] <= cursor[TableOf[e]]

SyncInv ==
    /\ SyncTypeOK /\ SeqOK /\ WireTruth /\ PassTruth /\ WaitOK
    /\ OutboxTellsTruth /\ CursorOK /\ PageOK /\ CursorSkipsOnlyLate

--------------------------------------------------------------------------------
(* Types. *)

LEMMA EventFacts == Local \subseteq Event /\ Remote \subseteq Event /\ TableOf \in [Event -> Table]
BY SyncAssumption DEF Event

LEMMA HeadInLocal ==
    ASSUME NEW s \in Seq(Local), s # <<>>
    PROVE  Head(s) \in Local /\ Tail(s) \in Seq(Local)
BY HeadTailProperties, ElementOfSeq, EmptySeq

LEMMA AnswerType ==
    ASSUME NEW row \in {"none", "APPLIED", "REVISED", "NEEDS_REVIEW"}
    PROVE  AnswerOf(row) \in Answers
BY DEF AnswerOf, Answers

\* The ways the services' tables change.
LEMMA ServerMoves ==
    ASSUME WireOK, [SyncNext]_syncVars
    PROVE  \/ UNCHANGED serverVars
           \/ \E e \in Event : Draw(e)
           \/ \E e \in Event, status \in {"APPLIED", "NEEDS_REVIEW"} :
                  /\ (e \in Remote /\ e \in open)
                        \/ \E r \in wire : r.busy /\ e = Head(r.events)
                  /\ CommitRow(e, status)
           \/ \E r \in wire : /\ r.busy /\ open' = open \ {Head(r.events)}
                             /\ UNCHANGED <<rows, seqOf, nextSeq, late>>
           \/ \E e \in Event : /\ rows[e] = "APPLIED" /\ rows' = [rows EXCEPT ![e] = "REVISED"]
                              /\ UNCHANGED <<seqOf, open, nextSeq, late>>
<1> USE DEF serverVars
<1>0. ASSUME NEW r \in wire, r.events # <<>> PROVE Head(r.events) \in Event
  BY <1>0, HeadInLocal, RequestParts, EventFacts DEF WireOK
<1>1. ASSUME NEW r \in wire, ServiceFails(r) \/ HandleThrows(r)
      PROVE  \/ UNCHANGED serverVars
             \/ /\ r.busy /\ open' = open \ {Head(r.events)}
                /\ UNCHANGED <<rows, seqOf, nextSeq, late>>
  BY <1>1 DEF ServiceFails, HandleThrows, EndInError, Next1
<1>2. ASSUME NEW r \in wire, HandleInsert(r) PROVE \E e \in Event : Draw(e)
  BY <1>2, <1>0 DEF HandleInsert, CanHandle, Next1
<1>3. ASSUME NEW r \in wire, NEW status \in {"APPLIED", "NEEDS_REVIEW"}, HandleCommit(r, status)
      PROVE  Head(r.events) \in Event /\ r.busy /\ CommitRow(Head(r.events), status)
  BY <1>3, <1>0 DEF HandleCommit, Next1, WireOK
<1>4. ASSUME NEW r \in wire, HandleInvalid(r) \/ HandleReplay(r) \/ Forget(r) \/ LoseConnection(r)
                              \/ ReceiveResults(r) \/ ReceiveError(r)
      PROVE  UNCHANGED serverVars
  BY <1>4 DEF HandleInvalid, HandleReplay, Forget, LoseConnection, ReceiveResults, ReceiveError
<1>5. ASSUME NEW e \in Remote, RemoteInsert(e) PROVE e \in Event /\ Draw(e)
  BY <1>5, EventFacts DEF RemoteInsert
<1>6. ASSUME NEW e \in Remote, RemoteCommit(e)
      PROVE  e \in Event /\ e \in open /\ CommitRow(e, "APPLIED")
  BY <1>6, EventFacts DEF RemoteCommit
<1>7. ASSUME NEW e \in Event, Revise(e)
      PROVE  /\ rows[e] = "APPLIED" /\ rows' = [rows EXCEPT ![e] = "REVISED"]
             /\ UNCHANGED <<seqOf, open, nextSeq, late>>
  BY <1>7 DEF Revise
<1>8. ASSUME (\E e \in Local : Capture(e)) \/ StartSync \/ SendGroup \/ RecordResult \/ StartPull
             \/ PullPage \/ ApplyPage \/ SaveCursor \/ EndPass \/ Kill \/ PullFails
             \/ UNCHANGED syncVars
      PROVE  UNCHANGED serverVars
  BY <1>8 DEF Capture, StartSync, SendGroup, RecordResult, StartPull, PullPage, ApplyPage,
              SaveCursor, EndPass, Kill, PullFails, syncVars
<1> HIDE DEF serverVars
<1>q. QED
  BY <1>1, <1>2, <1>3, <1>4, <1>5, <1>6, <1>7, <1>8 DEF SyncNext, Proceed, Serve

LEMMA RowsStep ==
    ASSUME WireOK, RowsOK, [SyncNext]_syncVars
    PROVE  RowsOK'
<1>1. CASE UNCHANGED serverVars
  BY <1>1 DEF serverVars, RowsOK
<1>2. ASSUME NEW e \in Event, Draw(e) PROVE RowsOK'
  BY <1>2 DEF Draw, RowsOK
<1>3. ASSUME NEW e \in Event, NEW status \in {"APPLIED", "NEEDS_REVIEW"}, CommitRow(e, status)
      PROVE  RowsOK'
  BY <1>3 DEF CommitRow, RowsOK
<1>4. ASSUME NEW r \in wire, r.busy, open' = open \ {Head(r.events)},
             UNCHANGED <<rows, seqOf, nextSeq, late>>
      PROVE  RowsOK'
  BY <1>4 DEF RowsOK
<1>5. ASSUME NEW e \in Event, rows' = [rows EXCEPT ![e] = "REVISED"],
             UNCHANGED <<seqOf, open, nextSeq, late>>
      PROVE  RowsOK'
  BY <1>5 DEF RowsOK
<1>q. QED
  BY <1>1, <1>2, <1>3, <1>4, <1>5, ServerMoves

\* The results a pass takes over, one of which it records.
LEMMA ResultType ==
    ASSUME NEW s \in Seq(Local \X Answers), s # <<>>
    PROVE  /\ Head(s)[1] \in Local /\ Head(s)[2] \in Answers
           /\ Tail(s) \in Seq(Local \X Answers)
<1>1. Head(s) \in Local \X Answers /\ Tail(s) \in Seq(Local \X Answers)
  BY HeadTailProperties, ElementOfSeq, EmptySeq
<1>q. QED
  BY <1>1

LEMMA AppendType ==
    ASSUME NEW s \in Seq(Local \X Answers), NEW e \in Local, NEW a \in Answers
    PROVE  Append(s, <<e, a>>) \in Seq(Local \X Answers)
BY AppendProperties

LEMMA TableType ==
    ASSUME NEW i \in 1 .. Len(Tables)
    PROVE  Tables[i] \in Table
BY SyncAssumption, ElementOfSeq

\* A fetched page and the number of its last row.
LEMMA PageType ==
    ASSUME RowsOK, NEW t, NEW since
    PROVE  PageAfter(t, since) \subseteq
             {e \in Event : TableOf[e] = t /\ rows[e] # "none" /\ seqOf[e] > since}
BY DEF PageAfter

LEMMA LastOfPage ==
    ASSUME RowsOK, NEW page \in SUBSET Event, page # {}
    PROVE  \E m \in page : /\ Max({seqOf[e] : e \in page}) = seqOf[m]
                           /\ \A e \in page : seqOf[e] <= seqOf[m]
<1> DEFINE T == {seqOf[e] : e \in page}
<1>1. \A e \in page : seqOf[e] \in 0 .. nextSeq
  BY DEF RowsOK
<1>2. T \in SUBSET (0 .. nextSeq) /\ T # {} /\ nextSeq \in Nat
  BY <1>1 DEF RowsOK
<1>3. Max(T) \in T /\ \A n \in T : n <= Max(T)
  <2> HIDE DEF T
  <2>q. QED
    BY <1>2, LargestOf
<1>q. QED
  BY <1>3

LEMMA DeviceStep ==
    ASSUME SyncTypeOK, [SyncNext]_syncVars
    PROVE  DeviceOK'
<1> USE DEF DeviceOK, SyncTypeOK
<1>1. ASSUME NEW e \in Local, Capture(e) PROVE DeviceOK'
  <2>1. captured' \in Seq(Local)
    BY <1>1, AppendProperties DEF Capture
  <2>q. QED
    BY <1>1, <2>1, EventFacts DEF Capture
<1>2. CASE StartSync
  BY <1>2 DEF StartSync, SetOutbox
<1>3. CASE RecordResult
  <2>1. CASE pass.results = <<>>
    BY <1>3, <2>1 DEF RecordResult
  <2>2. CASE pass.results # <<>>
    <3>1. outbox' = [outbox EXCEPT ![Head(pass.results)[1]] = Head(pass.results)[2]]
      BY <1>3, <2>2 DEF RecordResult
    <3>2. Head(pass.results)[1] \in Local /\ Head(pass.results)[2] \in Answers
      BY <2>2, ResultType DEF PassOK
    <3>3. outbox' \in [Local -> {"none", "PENDING", "IN_FLIGHT"} \cup Answers]
      BY <3>1, <3>2
    <3>q. QED
      BY <1>3, <3>3 DEF RecordResult
  <2>q. QED
    BY <2>1, <2>2
<1>4. CASE ApplyPage
  <2>1. cache' \in [Event -> {"none", "local", "APPLIED", "REVISED", "NEEDS_REVIEW"}]
    BY <1>4 DEF ApplyPage, PassOK
  <2>q. QED
    BY <1>4, <2>1 DEF ApplyPage
<1>5. CASE SaveCursor
  <2>1. DOMAIN pass.page \in SUBSET Event /\ DOMAIN pass.page # {}
    BY <1>5 DEF SaveCursor, PassOK
  <2>2. Max({seqOf[e] : e \in DOMAIN pass.page}) \in Nat
    <3>1. \E m \in DOMAIN pass.page : Max({seqOf[e] : e \in DOMAIN pass.page}) = seqOf[m]
      BY <2>1, LastOfPage
    <3>q. QED
      BY <2>1, <3>1 DEF RowsOK
  <2>3. cursor' = [cursor EXCEPT ![Tables[pass.table]] = Max({seqOf[e] : e \in DOMAIN pass.page})]
    BY <1>5 DEF SaveCursor
  <2>4. cursor' \in [Table -> Nat]
    BY <2>2, <2>3
  <2>q. QED
    BY <1>5, <2>4 DEF SaveCursor
<1>6. ASSUME NEW r \in wire, ReceiveError(r) \/ LoseConnection(r) PROVE DeviceOK'
  BY <1>6 DEF ReceiveError, LoseConnection, RevertGroup, SetOutbox
<1>7. CASE Kill
  BY <1>7 DEF Kill
<1>8. CASE SendGroup \/ StartPull \/ PullPage \/ EndPass \/ PullFails
           \/ (\E r \in wire : ReceiveResults(r))
  BY <1>8 DEF SendGroup, StartPull, PullPage, EndPass, PullFails, ReceiveResults
<1>9. CASE (\E e \in Remote : RemoteInsert(e) \/ RemoteCommit(e)) \/ (\E e \in Event : Revise(e))
           \/ (\E r \in wire : Serve(r) \/ ServiceFails(r)) \/ UNCHANGED syncVars
  BY <1>9 DEF RemoteInsert, RemoteCommit, Revise, Serve, HandleInvalid, HandleReplay, HandleInsert,
              HandleThrows, HandleCommit, Forget, ServiceFails, deviceVars, syncVars
<1>q. QED
  BY <1>1, <1>2, <1>3, <1>4, <1>5, <1>6, <1>7, <1>8, <1>9 DEF SyncNext, Proceed

LEMMA PassStep ==
    ASSUME SyncTypeOK, [SyncNext]_syncVars
    PROVE  PassOK'
<1> USE DEF SyncTypeOK
<1>0. /\ <<>> \in Seq(Local) /\ <<>> \in Seq(Local \X Answers) /\ 1 \in 1 .. Len(Tables) + 1
      /\ DOMAIN EmptyPage = {} /\ Len(Tables) \in Nat
  BY SyncAssumption, EmptySeq, LenProperties DEF EmptyPage
<1>n. ASSUME NEW a \in {"idle", "send", "await", "apply", "pull"},
             NEW b \in Seq(Local), NEW g \in Seq(Local),
             NEW res \in Seq(Local \X Answers), NEW t \in 1 .. Len(Tables) + 1,
             pass' = Pass(a, b, g, res, t, EmptyPage)
      PROVE  PassOK'
  <2>1. /\ pass'.at = a /\ pass'.batch = b /\ pass'.group = g /\ pass'.results = res
        /\ pass'.table = t /\ pass'.page = EmptyPage
    BY <1>n, PassFields
  <2>q. QED
    BY <1>0, <2>1 DEF PassOK
<1>i. ASSUME pass' = NoPass PROVE PassOK'
  BY <1>i, <1>0, <1>n DEF NoPass
<1>1. CASE StartSync
  <2> DEFINE pending == Keep(captured, {e \in Local : outbox[e] = "PENDING"})
             taken == SubSeq(pending, 1, Min({BatchSize, Len(pending)}))
  <2>1. pending \in Seq(Local)
    BY ToSetKeep DEF DeviceOK
  <2>2. pass' = Pass("send", taken, <<>>, <<>>, 1, EmptyPage)
    BY <1>1 DEF StartSync
  <2> HIDE DEF pending
  <2>3. taken \in Seq(Local)
    BY <2>1, TakenType
  <2> HIDE DEF taken
  <2>q. QED
    BY <2>2, <2>3, <1>0, <1>n
<1>2. CASE SendGroup
  <2> DEFINE t == TableOf[Head(pass.batch)]
             group == Keep(pass.batch, {e \in Local : TableOf[e] = t})
             rest == Keep(pass.batch, {e \in Local : TableOf[e] # t})
  <2>1. group \in Seq(Local) /\ rest \in Seq(Local)
    BY ToSetKeep DEF PassOK
  <2>2. pass' = Pass("await", rest, group, <<>>, 1, EmptyPage)
    BY <1>2 DEF SendGroup
  <2> HIDE DEF group, rest
  <2>q. QED
    BY <2>1, <2>2, <1>0, <1>n
<1>3. CASE RecordResult
  <2>1. CASE pass.results = <<>>
    <3>1. pass' = Pass("send", pass.batch, <<>>, <<>>, 1, EmptyPage)
      BY <1>3, <2>1 DEF RecordResult
    <3>q. QED
      BY <3>1, <1>0, <1>n DEF PassOK
  <2>2. CASE pass.results # <<>>
    <3>1. pass' = Pass("apply", pass.batch, pass.group, Tail(pass.results), 1, EmptyPage)
      BY <1>3, <2>2 DEF RecordResult
    <3>2. Tail(pass.results) \in Seq(Local \X Answers)
      BY <2>2, ResultType DEF PassOK
    <3>q. QED
      BY <3>1, <3>2, <1>0, <1>n DEF PassOK
  <2>q. QED
    BY <2>1, <2>2
<1>4. CASE StartPull
  BY <1>4, <1>0, <1>n DEF StartPull
<1>5. CASE PullPage
  <2> DEFINE t == Tables[pass.table]
             page == PageAfter(t, cursor[t])
  <2>1. pass.table \in 1 .. Len(Tables) /\ pass.table + 1 \in 1 .. Len(Tables) + 1
    BY <1>5, <1>0 DEF PullPage, PassOK
  <2>2. page \subseteq {e \in Event : TableOf[e] = t /\ rows[e] # "none" /\ seqOf[e] > cursor[t]}
    BY PageType
  <2>3. pass' = IF page = {}
                THEN Pass("pull", <<>>, <<>>, <<>>, pass.table + 1, EmptyPage)
                ELSE Pass("page", <<>>, <<>>, <<>>, pass.table, [e \in page |-> rows[e]])
    BY <1>5 DEF PullPage
  <2> HIDE DEF page
  <2>4. CASE page = {}
    BY <2>1, <2>3, <2>4, <1>0, <1>n
  <2>5. CASE page # {}
    <3>1. /\ pass'.at = "page" /\ pass'.batch = <<>> /\ pass'.group = <<>> /\ pass'.results = <<>>
          /\ pass'.table = pass.table /\ pass'.page = [e \in page |-> rows[e]]
      BY <2>3, <2>5, PassFields
    <3>2. \A e \in page : rows[e] \in {"APPLIED", "REVISED", "NEEDS_REVIEW"}
      BY <2>2 DEF RowsOK
    <3>q. QED
      BY <1>0, <2>1, <2>2, <2>5, <3>1, <3>2 DEF PassOK
  <2>q. QED
    BY <2>4, <2>5
<1>6. CASE ApplyPage
  <2>1. pass.at = "page" /\ pass' = Pass("cursor", <<>>, <<>>, <<>>, pass.table, pass.page)
    BY <1>6 DEF ApplyPage
  <2>2. /\ pass'.at = "cursor" /\ pass'.batch = <<>> /\ pass'.group = <<>> /\ pass'.results = <<>>
        /\ pass'.table = pass.table /\ pass'.page = pass.page
    BY <2>1, PassFields
  <2>q. QED
    BY <1>0, <2>1, <2>2 DEF PassOK
<1>7. CASE SaveCursor
  <2>1. pass.at = "cursor"
    BY <1>7 DEF SaveCursor
  <2>2. pass.table \in 1 .. Len(Tables) + 1 /\ pass.table + 1 \in 1 .. Len(Tables) + 1
    BY <2>1, <1>0 DEF PassOK
  <2>3. \E t \in {pass.table, pass.table + 1} : pass' = Pass("pull", <<>>, <<>>, <<>>, t, EmptyPage)
    BY <1>7 DEF SaveCursor
  <2>q. QED
    BY <2>2, <2>3, <1>0, <1>n
<1>8. CASE EndPass \/ PullFails \/ Kill
  BY <1>8, <1>i DEF EndPass, PullFails, Kill
<1>9. ASSUME NEW r \in wire, ReceiveResults(r) PROVE PassOK'
  <2>1. pass' = Pass("apply", pass.batch, pass.group, r.results, 1, EmptyPage)
    BY <1>9 DEF ReceiveResults
  <2>2. r.results \in Seq(Local \X Answers)
    BY RequestParts DEF WireOK
  <2>q. QED
    BY <2>1, <2>2, <1>0, <1>n DEF PassOK
<1>10. ASSUME NEW r \in wire, ReceiveError(r) \/ LoseConnection(r) PROVE PassOK'
  <2>1. pass' = Pass("send", pass.batch, <<>>, <<>>, 1, EmptyPage)
    BY <1>10 DEF ReceiveError, LoseConnection, RevertGroup
  <2>q. QED
    BY <2>1, <1>0, <1>n DEF PassOK
<1>11. CASE (\E e \in Remote : RemoteInsert(e) \/ RemoteCommit(e)) \/ (\E e \in Event : Revise(e))
           \/ (\E r \in wire : Serve(r) \/ ServiceFails(r)) \/ UNCHANGED syncVars
           \/ \E e \in Local : Capture(e)
  <2>1. pass' = pass
    BY <1>11 DEF RemoteInsert, RemoteCommit, Revise, Serve, HandleInvalid, HandleReplay, HandleInsert,
              HandleThrows, HandleCommit, Forget, ServiceFails, deviceVars, syncVars, Capture
  <2>q. QED
    BY <2>1 DEF PassOK
<1>q. QED
  BY <1>1, <1>2, <1>3, <1>4, <1>5, <1>6, <1>7, <1>8, <1>9, <1>10, <1>11 DEF SyncNext, Proceed

\* What a step of a service makes of a request: q has the first event of r
\* answered with a.
OneLess(q, r, a) ==
    /\ ToSet(r.events) = {Head(r.events)} \cup ToSet(q.events)
    /\ ToSet(q.results) = ToSet(r.results) \cup {<<Head(r.events), a>>}

LEMMA AnsweredType ==
    ASSUME NEW r \in Requests, r.events # <<>>, NEW a \in Answers,
           NEW q, q = Request(Tail(r.events), Append(r.results, <<Head(r.events), a>>),
                              FALSE, r.waiting, FALSE)
    PROVE  /\ q \in Requests /\ q.events = Tail(r.events) /\ ~q.busy /\ ~q.failed
           /\ q.results = Append(r.results, <<Head(r.events), a>>) /\ q.waiting = r.waiting
           /\ OneLess(q, r, a)
<1>1. /\ r.events \in Seq(Local) /\ r.results \in Seq(Local \X Answers)
      /\ r.busy \in BOOLEAN /\ r.waiting \in BOOLEAN /\ r.failed \in BOOLEAN
  BY RequestParts
<1>2. Head(r.events) \in Local /\ Tail(r.events) \in Seq(Local)
  BY <1>1, HeadInLocal
<1>3. Append(r.results, <<Head(r.events), a>>) \in Seq(Local \X Answers)
  BY <1>1, <1>2, AppendType
<1>4. q \in Requests
  BY <1>1, <1>2, <1>3, RequestType
<1>5. /\ q.events = Tail(r.events) /\ q.results = Append(r.results, <<Head(r.events), a>>)
      /\ q.busy = FALSE /\ q.waiting = r.waiting /\ q.failed = FALSE
  BY DEF Request
<1>6. ToSet(r.events) = {Head(r.events)} \cup ToSet(Tail(r.events))
  BY <1>1, ToSetTail
<1>7. <<Head(r.events), a>> \in Local \X Answers
  BY <1>2
<1>8. ToSet(Append(r.results, <<Head(r.events), a>>))
        = ToSet(r.results) \cup {<<Head(r.events), a>>}
  BY <1>1, <1>7, ToSetAppend
<1>9. OneLess(q, r, a)
  BY <1>5, <1>6, <1>8 DEF OneLess
<1>q. QED
  BY <1>4, <1>5, <1>9

\* A request that ends in an error, one that is abandoned, one whose handler
\* opens its transaction.
LEMMA MovedRequestType ==
    ASSUME NEW r \in Requests
    PROVE  /\ Request(r.events, <<>>, FALSE, TRUE, TRUE) \in Requests
           /\ Request(r.events, r.results, r.busy, FALSE, FALSE) \in Requests
           /\ Request(r.events, r.results, TRUE, r.waiting, FALSE) \in Requests
<1>1. /\ r.events \in Seq(Local) /\ r.results \in Seq(Local \X Answers)
      /\ r.busy \in BOOLEAN /\ r.waiting \in BOOLEAN /\ r.failed \in BOOLEAN
  BY RequestParts
<1>2. <<>> \in Seq(Local \X Answers)
  OBVIOUS
<1>q. QED
  BY <1>1, <1>2, RequestType

LEMMA WireStep ==
    ASSUME SyncTypeOK, [SyncNext]_syncVars
    PROVE  WireOK'
<1> USE DEF SyncTypeOK
<1>m. ASSUME NEW r \in wire, NEW q \in Requests, q.busy => q.events # <<>> /\ ~q.failed,
             wire' \subseteq (wire \ {r}) \cup {q}
      PROVE  WireOK'
  BY <1>m DEF WireOK
<1>a. ASSUME NEW r \in wire, r.events # <<>>, NEW a \in Answers, Answered(r, a) PROVE WireOK'
  <2>1. PICK q : /\ q = Request(Tail(r.events), Append(r.results, <<Head(r.events), a>>),
                                FALSE, r.waiting, FALSE)
                 /\ wire' = (wire \ {r}) \cup {q}
    BY <1>a DEF Answered, Replace, Next1
  <2>2. q \in Requests /\ ~q.busy
    BY <2>1, <1>a, AnsweredType DEF WireOK
  <2>3. q.busy => q.events # <<>> /\ ~q.failed
    BY <2>2
  <2>4. wire' \subseteq (wire \ {r}) \cup {q}
    BY <2>1
  <2>q. QED
    BY <2>2, <2>3, <2>4, <1>m
<1>b. ASSUME NEW r \in wire, Abandon(r) PROVE WireOK'
  <2>1. Abandoned(r) \in Requests /\ Abandoned(r).busy = r.busy /\ Abandoned(r).events = r.events
        /\ ~Abandoned(r).failed
    BY MovedRequestType DEF Abandoned, WireOK, Request
  <2>2. wire' \subseteq (wire \ {r}) \cup {Abandoned(r)}
    BY <1>b DEF Abandon
  <2>q. QED
    BY <2>1, <2>2, <1>m DEF WireOK
<1>c. ASSUME NEW r \in wire, EndInError(r) PROVE WireOK'
  <2> DEFINE q == Request(r.events, <<>>, FALSE, TRUE, TRUE)
  <2>1. q \in Requests /\ q.busy = FALSE
    BY MovedRequestType DEF WireOK, Request
  <2>2. wire' \subseteq (wire \ {r}) \cup {q}
    BY <1>c DEF EndInError
  <2> HIDE DEF q
  <2>q. QED
    BY <2>1, <2>2, <1>m
<1>1. CASE SendGroup
  <2> DEFINE t == TableOf[Head(pass.batch)]
             group == Keep(pass.batch, {e \in Local : TableOf[e] = t})
  <2>1. group \in Seq(Local)
    BY ToSetKeep DEF PassOK
  <2>2. wire' = wire \cup {Request(group, <<>>, FALSE, TRUE, FALSE)}
    BY <1>1 DEF SendGroup
  <2> HIDE DEF group
  <2>3. <<>> \in Seq(Local \X Answers)
    OBVIOUS
  <2>4. Request(group, <<>>, FALSE, TRUE, FALSE) \in Requests
    BY <2>1, <2>3, RequestType
  <2>5. Request(group, <<>>, FALSE, TRUE, FALSE).busy = FALSE
    BY DEF Request
  <2>q. QED
    BY <2>2, <2>4, <2>5 DEF WireOK
<1>2. ASSUME NEW r \in wire, ReceiveResults(r) \/ ReceiveError(r) \/ Forget(r) PROVE WireOK'
  BY <1>2 DEF ReceiveResults, ReceiveError, Forget, WireOK
<1>3. ASSUME NEW r \in wire, LoseConnection(r) PROVE WireOK'
  BY <1>3, <1>b DEF LoseConnection
<1>4. CASE Kill
  BY <1>4, <1>b DEF Kill, WireOK
<1>5. ASSUME NEW r \in wire, HandleInvalid(r) PROVE WireOK'
  BY <1>5, <1>a DEF HandleInvalid, CanHandle, Answers
<1>6. ASSUME NEW r \in wire, HandleReplay(r) PROVE WireOK'
  <2>1. r.events # <<>> /\ Answered(r, AnswerOf(rows[Head(r.events)]))
    BY <1>6 DEF HandleReplay, CanHandle, Next1
  <2>2. Head(r.events) \in Event
    BY <2>1, RequestParts, HeadInLocal, EventFacts DEF WireOK
  <2>3. AnswerOf(rows[Head(r.events)]) \in Answers
    BY <2>2, AnswerType DEF RowsOK
  <2>q. QED
    BY <2>1, <2>3, <1>a
<1>7. ASSUME NEW r \in wire, NEW status \in {"APPLIED", "NEEDS_REVIEW"}, HandleCommit(r, status)
      PROVE  WireOK'
  <2>1. r.events # <<>> /\ Answered(r, AnswerOf(status))
    BY <1>7 DEF HandleCommit, WireOK
  <2>q. QED
    BY <2>1, <1>a, AnswerType
<1>8. ASSUME NEW r \in wire, HandleInsert(r) PROVE WireOK'
  <2> DEFINE q == Request(r.events, r.results, TRUE, r.waiting, FALSE)
  <2>1. q \in Requests /\ q.events = r.events /\ ~q.failed
    BY MovedRequestType DEF WireOK, Request
  <2>2. wire' \subseteq (wire \ {r}) \cup {q} /\ r.events # <<>>
    BY <1>8 DEF HandleInsert, Replace, CanHandle
  <2> HIDE DEF q
  <2>q. QED
    BY <2>1, <2>2, <1>m
<1>9. ASSUME NEW r \in wire, HandleThrows(r) \/ ServiceFails(r) PROVE WireOK'
  BY <1>9, <1>c DEF HandleThrows, ServiceFails
<1>10. CASE (\E e \in Remote : RemoteInsert(e) \/ RemoteCommit(e)) \/ (\E e \in Event : Revise(e))
           \/ UNCHANGED syncVars \/ (\E e \in Local : Capture(e))
           \/ StartSync \/ RecordResult \/ StartPull \/ PullPage \/ ApplyPage \/ SaveCursor
           \/ EndPass \/ PullFails
  BY <1>10 DEF RemoteInsert, RemoteCommit, Revise, syncVars, Capture, StartSync, RecordResult,
       StartPull, PullPage, ApplyPage, SaveCursor, EndPass, PullFails, WireOK
<1>q. QED
  BY <1>1, <1>2, <1>3, <1>4, <1>5, <1>6, <1>7, <1>8, <1>9, <1>10 DEF SyncNext, Proceed, Serve

LEMMA SyncTypeInit == SyncInit => SyncTypeOK
<1> SUFFICES ASSUME SyncInit PROVE SyncTypeOK
  OBVIOUS
<1>1. /\ <<>> \in Seq(Local) /\ <<>> \in Seq(Local \X Answers) /\ 1 \in 1 .. Len(Tables) + 1
      /\ DOMAIN EmptyPage = {}
  BY SyncAssumption, LenProperties DEF EmptyPage
<1>2. /\ pass.at = "idle" /\ pass.batch = <<>> /\ pass.group = <<>> /\ pass.results = <<>>
      /\ pass.table = 1 /\ pass.page = EmptyPage
  BY PassFields DEF SyncInit, NoPass
<1>3. PassOK
  BY <1>1, <1>2 DEF PassOK
<1>4. DeviceOK /\ WireOK /\ RowsOK
  BY <1>1 DEF SyncInit, DeviceOK, WireOK, RowsOK
<1>q. QED
  BY <1>3, <1>4 DEF SyncInit, SyncTypeOK

LEMMA SyncTypeStep == SyncTypeOK /\ [SyncNext]_syncVars => SyncTypeOK'
<1> SUFFICES ASSUME SyncTypeOK, [SyncNext]_syncVars PROVE SyncTypeOK'
  OBVIOUS
<1>1. faults' \in Nat
  <2>1. faults' = faults \/ faults' = faults + 1
    BY DEF SyncNext, Proceed, Serve, Fault, Capture, StartSync, SendGroup, ReceiveResults, ReceiveError,
       RecordResult, StartPull, PullPage, ApplyPage, SaveCursor, EndPass, HandleInvalid, HandleReplay,
       HandleInsert, HandleThrows, HandleCommit, Forget, ServiceFails, LoseConnection, Kill, PullFails,
       RemoteInsert, RemoteCommit, Revise, syncVars
  <2>q. QED
    BY <2>1 DEF SyncTypeOK
<1>q. QED
  BY <1>1, DeviceStep, PassStep, WireStep, RowsStep DEF SyncTypeOK

\* Every variable of the device, of the wire and of the services keeps its
\* type; a busy request has an event left, a fetched page has a row and a
\* table, and no sync_seq in use is one still to be drawn.
THEOREM SyncTypeCorrect == SyncSpec => []SyncTypeOK
BY SyncTypeInit, SyncTypeStep, PTL DEF SyncSpec

--------------------------------------------------------------------------------
(* The rows and their numbers. *)

\* A row is committed from an open transaction, never for an invalid event
\* nor for one the device has not captured.
LEMMA CommitFacts ==
    ASSUME SyncTypeOK, SeqOK, WireTruth, NEW e \in Event,
           (e \in Remote /\ e \in open) \/ \E r \in wire : r.busy /\ e = Head(r.events)
    PROVE  /\ e \in open /\ rows[e] = "none" /\ seqOf[e] > 0 /\ e \notin Invalid
           /\ e \in Local => outbox[e] # "none"
<1>1. CASE e \in Remote /\ e \in open
  BY <1>1, SyncAssumption DEF SeqOK
<1>2. ASSUME NEW r \in wire, r.busy, e = Head(r.events)
      PROVE  e \in open /\ e \notin Invalid /\ e \in ToSet(r.events)
  <2>1. r.events \in Seq(Local) /\ r.events # <<>>
    BY <1>2, RequestParts DEF SyncTypeOK, WireOK
  <2>2. ToSet(r.events) = {Head(r.events)} \cup ToSet(Tail(r.events))
    BY <2>1, ToSetTail
  <2>q. QED
    BY <2>2, <1>2 DEF WireTruth
<1>3. CASE \E r \in wire : r.busy /\ e = Head(r.events)
  BY <1>2, <1>3 DEF SeqOK, WireTruth
<1>q. QED
  BY <1>1, <1>3

\* A committed row stays, and only an applied one is ever revised; a row of
\* the device appears only when it was captured and is valid.
RowGrows(e) ==
    \/ rows'[e] = rows[e]
    \/ rows[e] = "APPLIED" /\ rows'[e] = "REVISED"
    \/ /\ rows[e] = "none" /\ e \in open /\ e \notin Invalid
       /\ e \in Local => outbox[e] # "none"

LEMMA RowsGrow ==
    ASSUME SyncTypeOK, SeqOK, WireTruth, [SyncNext]_syncVars
    PROVE  /\ \A e \in Event : RowGrows(e)
           /\ \A e \in Event : rows[e] # "none" => rows'[e] # "none" /\ seqOf'[e] = seqOf[e]
<1> SUFFICES ASSUME NEW f \in Event
             PROVE  /\ RowGrows(f)
                    /\ rows[f] # "none" => rows'[f] # "none" /\ seqOf'[f] = seqOf[f]
  OBVIOUS
<1> USE DEF RowGrows, SyncTypeOK, RowsOK
<1>1. CASE UNCHANGED serverVars
  BY <1>1 DEF serverVars
<1>2. ASSUME NEW e \in Event, Draw(e)
      PROVE  rows' = rows /\ (rows[f] # "none" => seqOf'[f] = seqOf[f])
  BY <1>2 DEF Draw
<1>3. ASSUME NEW e \in Event, NEW status \in {"APPLIED", "NEEDS_REVIEW"}, CommitRow(e, status),
             e \in open /\ rows[e] = "none" /\ e \notin Invalid,
             e \in Local => outbox[e] # "none"
      PROVE  /\ RowGrows(f)
             /\ rows[f] # "none" => rows'[f] # "none" /\ seqOf'[f] = seqOf[f]
  BY <1>3 DEF CommitRow
<1>4. ASSUME NEW r \in wire, open' = open \ {Head(r.events)},
             UNCHANGED <<rows, seqOf, nextSeq, late>>
      PROVE  /\ RowGrows(f)
             /\ rows[f] # "none" => rows'[f] # "none" /\ seqOf'[f] = seqOf[f]
  BY <1>4
<1>5. ASSUME NEW e \in Event, rows[e] = "APPLIED", rows' = [rows EXCEPT ![e] = "REVISED"],
             UNCHANGED <<seqOf, open, nextSeq, late>>
      PROVE  /\ RowGrows(f)
             /\ rows[f] # "none" => rows'[f] # "none" /\ seqOf'[f] = seqOf[f]
  BY <1>5
<1> HIDE DEF RowGrows, SyncTypeOK, RowsOK
<1>q. QED
  <2>1. CASE \E e \in Event : Draw(e)
    BY <2>1, <1>2 DEF RowGrows
  <2>2. CASE \E e \in Event, status \in {"APPLIED", "NEEDS_REVIEW"} :
               /\ (e \in Remote /\ e \in open) \/ \E r \in wire : r.busy /\ e = Head(r.events)
               /\ CommitRow(e, status)
    BY <2>2, <1>3, CommitFacts
  <2>3. CASE \E r \in wire : /\ r.busy /\ open' = open \ {Head(r.events)}
                           /\ UNCHANGED <<rows, seqOf, nextSeq, late>>
    BY <2>3, <1>4
  <2>4. CASE \E e \in Event : /\ rows[e] = "APPLIED" /\ rows' = [rows EXCEPT ![e] = "REVISED"]
                            /\ UNCHANGED <<seqOf, open, nextSeq, late>>
    BY <2>4, <1>5
  <2>q. QED
    BY <1>1, <2>1, <2>2, <2>3, <2>4, ServerMoves DEF SyncTypeOK

LEMMA SeqStep ==
    ASSUME SyncTypeOK, SeqOK, WireTruth, [SyncNext]_syncVars
    PROVE  SeqOK'
<1> DEFINE numbered == {e \in Event : seqOf[e] > 0}
<1>1. CASE UNCHANGED serverVars
  BY <1>1 DEF serverVars, SeqOK
<1>2. ASSUME NEW e \in Event, Draw(e) PROVE SeqOK'
  <2>1. numbered' \subseteq numbered \cup {e}
    BY <1>2 DEF Draw, SyncTypeOK, RowsOK
  <2>2. IsFiniteSet(numbered \cup {e})
    BY FS_AddElement DEF SeqOK
  <2>3. IsFiniteSet(numbered')
    BY <2>1, <2>2, FS_Subset
  <2>4. /\ seqOf' = [seqOf EXCEPT ![e] = nextSeq] /\ rows' = rows /\ open' = open \cup {e}
        /\ rows[e] = "none"
    BY <1>2 DEF Draw
  <2>5. \A f, g \in Event : seqOf'[f] = seqOf'[g] /\ seqOf'[f] > 0 => f = g
    BY <2>4 DEF SeqOK, SyncTypeOK, RowsOK
  <2>6. \A f \in Event : rows'[f] # "none" \/ f \in open' => seqOf'[f] > 0
    BY <2>4 DEF SeqOK, SyncTypeOK, RowsOK
  <2>7. \A f \in open' : rows'[f] = "none"
    BY <2>4 DEF SeqOK
  <2>q. QED
    BY <2>3, <2>5, <2>6, <2>7 DEF SeqOK
<1>3. ASSUME NEW e \in Event, NEW status \in {"APPLIED", "NEEDS_REVIEW"}, CommitRow(e, status),
             e \in open
      PROVE  SeqOK'
  <2>1. /\ open' = open \ {e} /\ rows' = [rows EXCEPT ![e] = status] /\ seqOf' = seqOf
    BY <1>3 DEF CommitRow
  <2>2. IsFiniteSet(numbered)
    BY DEF SeqOK
  <2>3. numbered' = numbered
    BY <2>1
  <2>4. \A f \in Event : rows'[f] # "none" \/ f \in open' => seqOf'[f] > 0
    BY <2>1, <1>3 DEF SeqOK, SyncTypeOK, RowsOK
  <2>5. \A f \in open' : rows'[f] = "none"
    BY <2>1 DEF SeqOK, SyncTypeOK, RowsOK
  <2>q. QED
    BY <2>1, <2>2, <2>3, <2>4, <2>5 DEF SeqOK
<1>4. ASSUME NEW r \in wire, open' = open \ {Head(r.events)},
             UNCHANGED <<rows, seqOf, nextSeq, late>>
      PROVE  SeqOK'
  BY <1>4 DEF SeqOK
<1>5. ASSUME NEW e \in Event, rows[e] = "APPLIED", rows' = [rows EXCEPT ![e] = "REVISED"],
             UNCHANGED <<seqOf, open, nextSeq, late>>
      PROVE  SeqOK'
  <2>1. \A f \in Event : rows'[f] = "none" <=> rows[f] = "none"
    BY <1>5 DEF SyncTypeOK, RowsOK
  <2>2. IsFiniteSet(numbered) /\ numbered' = numbered /\ open \subseteq Event
    BY <1>5 DEF SeqOK, SyncTypeOK, RowsOK
  <2>q. QED
    BY <1>5, <2>1, <2>2 DEF SeqOK
<1> HIDE DEF numbered
<1>q. QED
  <2>1. CASE \E e \in Event : Draw(e)
    BY <2>1, <1>2
  <2>2. CASE \E e \in Event, status \in {"APPLIED", "NEEDS_REVIEW"} :
               /\ (e \in Remote /\ e \in open) \/ \E r \in wire : r.busy /\ e = Head(r.events)
               /\ CommitRow(e, status)
    BY <2>2, <1>3, CommitFacts
  <2>3. CASE \E r \in wire : /\ r.busy /\ open' = open \ {Head(r.events)}
                           /\ UNCHANGED <<rows, seqOf, nextSeq, late>>
    BY <2>3, <1>4
  <2>4. CASE \E e \in Event : /\ rows[e] = "APPLIED" /\ rows' = [rows EXCEPT ![e] = "REVISED"]
                            /\ UNCHANGED <<seqOf, open, nextSeq, late>>
    BY <2>4, <1>5
  <2>q. QED
    BY <1>1, <2>1, <2>2, <2>3, <2>4, ServerMoves DEF SyncTypeOK

--------------------------------------------------------------------------------
(* What the requests and the pass hold. *)

LEMMA TellsKept ==
    ASSUME NEW e, NEW a, Tells(rows, e, a), RowGrows(e)
    PROVE  Tells(rows', e, a)
BY DEF Tells, RowGrows

\* A captured event stays captured, and one in flight gets there from the
\* pending ones.
LEMMA CapturedStays ==
    ASSUME SyncTypeOK, [SyncNext]_syncVars, NEW e \in Local, outbox[e] # "none"
    PROVE  outbox'[e] # "none"
<1> USE DEF SyncTypeOK, DeviceOK
<1>1. ASSUME NEW f \in Local, Capture(f) PROVE outbox'[e] # "none"
  BY <1>1 DEF Capture
<1>2. CASE StartSync
  BY <1>2 DEF StartSync, SetOutbox
<1>3. CASE RecordResult
  <2>1. CASE pass.results = <<>>
    BY <1>3, <2>1 DEF RecordResult
  <2>2. CASE pass.results # <<>>
    <3>1. outbox' = [outbox EXCEPT ![Head(pass.results)[1]] = Head(pass.results)[2]]
      BY <1>3, <2>2 DEF RecordResult
    <3>2. Head(pass.results)[1] \in Local /\ Head(pass.results)[2] \in Answers
      BY <2>2, ResultType DEF PassOK
    <3>q. QED
      BY <3>1, <3>2 DEF Answers
  <2>q. QED
    BY <2>1, <2>2
<1>4. ASSUME NEW r \in wire, ReceiveError(r) \/ LoseConnection(r) PROVE outbox'[e] # "none"
  BY <1>4 DEF ReceiveError, LoseConnection, RevertGroup, SetOutbox
<1>5. CASE SendGroup \/ StartPull \/ PullPage \/ EndPass \/ PullFails \/ ApplyPage \/ SaveCursor
           \/ Kill \/ (\E r \in wire : ReceiveResults(r))
  BY <1>5 DEF SendGroup, StartPull, PullPage, EndPass, PullFails, ReceiveResults, ApplyPage,
              SaveCursor, Kill
<1>6. CASE (\E f \in Remote : RemoteInsert(f) \/ RemoteCommit(f)) \/ (\E f \in Event : Revise(f))
           \/ (\E r \in wire : Serve(r) \/ ServiceFails(r)) \/ UNCHANGED syncVars
  BY <1>6 DEF RemoteInsert, RemoteCommit, Revise, Serve, HandleInvalid, HandleReplay, HandleInsert,
              HandleThrows, HandleCommit, Forget, ServiceFails, deviceVars, syncVars
<1>q. QED
  BY <1>1, <1>2, <1>3, <1>4, <1>5, <1>6 DEF SyncNext, Proceed

LEMMA RequestKept ==
    ASSUME SyncTypeOK, SeqOK, WireTruth, [SyncNext]_syncVars, NEW r \in wire
    PROVE  /\ \A p \in ToSet(r.results) : Tells(rows', p[1], p[2])
           /\ \A e \in ToSet(r.events) : outbox'[e] # "none"
<1>1. r.events \in Seq(Local) /\ r.results \in Seq(Local \X Answers)
  BY RequestParts DEF SyncTypeOK, WireOK
<1>2. ToSet(r.events) \subseteq Local /\ ToSet(r.results) \subseteq Local \X Answers
  BY <1>1, ToSetType
<1>3. ASSUME NEW p \in ToSet(r.results) PROVE Tells(rows', p[1], p[2])
  <2>1. p[1] \in Event /\ Tells(rows, p[1], p[2])
    BY <1>2, EventFacts DEF WireTruth
  <2>2. RowGrows(p[1])
    BY <2>1, RowsGrow
  <2>q. QED
    BY <2>1, <2>2, TellsKept
<1>4. ASSUME NEW e \in ToSet(r.events) PROVE outbox'[e] # "none"
  BY <1>2, CapturedStays DEF WireTruth
<1>q. QED
  BY <1>3, <1>4

\* One request is replaced by another.
LEMMA RequestReplaced ==
    ASSUME SyncTypeOK, SeqOK, WireTruth, [SyncNext]_syncVars, NEW r \in wire, NEW q,
           wire' \subseteq (wire \ {r}) \cup {q},
           \A p \in ToSet(q.results) : Tells(rows', p[1], p[2]),
           \A e \in ToSet(q.events) : outbox'[e] # "none",
           q.busy => Head(q.events) \in open' \ Invalid,
           \A x \in wire \ {r} : x.busy =>
               /\ Head(x.events) \in open'
               /\ q.busy => Head(x.events) # Head(q.events)
    PROVE  WireTruth'
<1>1. \A x \in wire' : x \in wire \ {r} \/ x = q
  OBVIOUS
<1>2. \A x \in wire' : \A p \in ToSet(x.results) : Tells(rows', p[1], p[2])
  BY <1>1, RequestKept
<1>3. \A x \in wire' : \A e \in ToSet(x.events) : outbox'[e] # "none"
  BY <1>1, RequestKept
<1>4. \A x \in wire' : x.busy => Head(x.events) \in open' \ Invalid
  BY <1>1 DEF WireTruth
<1>5. \A x, y \in wire' : x.busy /\ y.busy /\ Head(x.events) = Head(y.events) => x = y
  BY <1>1 DEF WireTruth
<1>q. QED
  BY <1>2, <1>3, <1>4, <1>5 DEF WireTruth

\* A request goes, and with it the transaction it may have had open.
LEMMA RequestGone ==
    ASSUME SyncTypeOK, SeqOK, WireTruth, [SyncNext]_syncVars, NEW r \in wire,
           wire' \subseteq wire \ {r},
           open \subseteq open' \/ (r.busy /\ open' = open \ {Head(r.events)})
    PROVE  WireTruth'
<1>1. \A x \in wire \ {r} : x.busy => Head(x.events) \in open'
  BY DEF WireTruth
<1>2. \A x \in wire' : x \in wire \ {r}
  OBVIOUS
<1>3. \A x \in wire' : \A p \in ToSet(x.results) : Tells(rows', p[1], p[2])
  BY <1>2, RequestKept
<1>4. \A x \in wire' : \A e \in ToSet(x.events) : outbox'[e] # "none"
  BY <1>2, RequestKept
<1>5. \A x \in wire' : x.busy => Head(x.events) \in open' \ Invalid
  BY <1>1, <1>2 DEF WireTruth
<1>6. \A x, y \in wire' : x.busy /\ y.busy /\ Head(x.events) = Head(y.events) => x = y
  BY <1>2 DEF WireTruth
<1>q. QED
  BY <1>3, <1>4, <1>5, <1>6 DEF WireTruth

\* No request changes, nor does an open transaction of one.
LEMMA RequestsStay ==
    ASSUME SyncTypeOK, SeqOK, WireTruth, [SyncNext]_syncVars, wire' = wire,
           \A r \in wire : r.busy => Head(r.events) \in open'
    PROVE  WireTruth'
BY RequestKept DEF WireTruth

LEMMA AnsweredTruth ==
    ASSUME SyncTypeOK, SeqOK, WireTruth, [SyncNext]_syncVars, NEW r \in wire, r.events # <<>>,
           NEW a \in Answers, Answered(r, a), Tells(rows', Head(r.events), a),
           \A x \in wire \ {r} : x.busy => Head(x.events) \in open'
    PROVE  WireTruth'
<1>1. PICK q : /\ q = Request(Tail(r.events), Append(r.results, <<Head(r.events), a>>),
                              FALSE, r.waiting, FALSE)
               /\ wire' = (wire \ {r}) \cup {q}
  BY DEF Answered, Replace, Next1
<1>2. /\ ~q.busy
      /\ ToSet(r.events) = {Head(r.events)} \cup ToSet(q.events)
      /\ ToSet(q.results) = ToSet(r.results) \cup {<<Head(r.events), a>>}
  <2>1. /\ r \in Requests
        /\ q = Request(Tail(r.events), Append(r.results, <<Head(r.events), a>>),
                       FALSE, r.waiting, FALSE)
    BY <1>1 DEF SyncTypeOK, WireOK
  <2>2. /\ q \in Requests /\ q.events = Tail(r.events) /\ ~q.busy /\ ~q.failed
        /\ q.results = Append(r.results, <<Head(r.events), a>>) /\ q.waiting = r.waiting
        /\ OneLess(q, r, a)
    BY <2>1, AnsweredType
  <2>q. QED
    BY <2>2 DEF OneLess
<1>3. \A p \in ToSet(q.results) : Tells(rows', p[1], p[2])
  BY <1>2, RequestKept
<1>4. \A e \in ToSet(q.events) : outbox'[e] # "none"
  BY <1>2, RequestKept
<1>5. wire' \subseteq (wire \ {r}) \cup {q}
  BY <1>1
<1>6. q.busy => Head(q.events) \in open' \ Invalid
  BY <1>2
<1>7. \A x \in wire \ {r} : x.busy =>
         /\ Head(x.events) \in open'
         /\ q.busy => Head(x.events) # Head(q.events)
  BY <1>2
<1>q. QED
  BY <1>3, <1>4, <1>5, <1>6, <1>7, RequestReplaced

LEMMA AbandonedTruth ==
    ASSUME SyncTypeOK, SeqOK, WireTruth, [SyncNext]_syncVars, NEW r \in wire, Abandon(r), open' = open
    PROVE  WireTruth'
<1>1. CASE wire' = wire \ {r}
  BY <1>1, RequestGone
<1>2. CASE wire' = (wire \ {r}) \cup {Abandoned(r)}
  <2>1. PICK q : q = Abandoned(r)
    OBVIOUS
  <2>2. q.events = r.events /\ q.results = r.results /\ q.busy = r.busy
    BY <2>1 DEF Abandoned, Request
  <2>3. wire' \subseteq (wire \ {r}) \cup {q}
    BY <1>2, <2>1
  <2>4. \A p \in ToSet(q.results) : Tells(rows', p[1], p[2])
    BY <2>2, RequestKept
  <2>5. \A e \in ToSet(q.events) : outbox'[e] # "none"
    BY <2>2, RequestKept
  <2>6. q.busy => Head(q.events) \in open' \ Invalid
    BY <2>2 DEF WireTruth
  <2>7. \A x \in wire \ {r} : x.busy =>
         /\ Head(x.events) \in open'
         /\ q.busy => Head(x.events) # Head(q.events)
    BY <2>2 DEF WireTruth
  <2>q. QED
    BY <2>3, <2>4, <2>5, <2>6, <2>7, RequestReplaced
<1>q. QED
  BY <1>1, <1>2 DEF Abandon

LEMMA ErrorTruth ==
    ASSUME SyncTypeOK, SeqOK, WireTruth, [SyncNext]_syncVars, NEW r \in wire, EndInError(r)
    PROVE  WireTruth'
<1>1. CASE ~r.waiting
  <2>1. wire' \subseteq wire \ {r}
    BY <1>1 DEF EndInError
  <2>2. open \subseteq open' \/ (r.busy /\ open' = open \ {Head(r.events)})
    BY DEF EndInError, Next1
  <2>q. QED
    BY <2>1, <2>2, RequestGone
<1>2. CASE r.waiting
  <2>1. PICK q : q = Request(r.events, <<>>, FALSE, TRUE, TRUE)
    OBVIOUS
  <2>2. q.events = r.events /\ q.results = <<>> /\ ~q.busy
    BY <2>1 DEF Request
  <2>3. wire' \subseteq (wire \ {r}) \cup {q}
    BY <1>2, <2>1 DEF EndInError
  <2>4. \A p \in ToSet(q.results) : Tells(rows', p[1], p[2])
    BY <2>2 DEF ToSet
  <2>5. \A e \in ToSet(q.events) : outbox'[e] # "none"
    BY <2>2, RequestKept
  <2>6. q.busy => Head(q.events) \in open' \ Invalid
    BY <2>2
  <2>7. \A x \in wire \ {r} : x.busy =>
         /\ Head(x.events) \in open'
         /\ q.busy => Head(x.events) # Head(q.events)
    BY <2>2 DEF WireTruth, EndInError, Next1
  <2>q. QED
    BY <2>3, <2>4, <2>5, <2>6, <2>7, RequestReplaced
<1>q. QED
  BY <1>1, <1>2

LEMMA WireTruthStep ==
    ASSUME SyncTypeOK, SeqOK, WireTruth, PassTruth, [SyncNext]_syncVars
    PROVE  WireTruth'
<1>0. \A r \in wire : r.busy => Head(r.events) \in open /\ Head(r.events) \in Local
  BY RequestParts, HeadInLocal DEF WireTruth, SyncTypeOK, WireOK
<1>1. CASE SendGroup
  <2> DEFINE t == TableOf[Head(pass.batch)]
             group == Keep(pass.batch, {e \in Local : TableOf[e] = t})
             q == Request(group, <<>>, FALSE, TRUE, FALSE)
  <2>1. ToSet(group) \subseteq ToSet(pass.batch)
    BY ToSetKeep DEF SyncTypeOK, PassOK
  <2>2. wire' = wire \cup {q} /\ outbox' = outbox /\ rows' = rows /\ open' = open
    BY <1>1 DEF SendGroup, serverVars
  <2>3. q.events = group /\ q.results = <<>> /\ ~q.busy
    BY DEF Request
  <2> HIDE DEF group, q
  <2>4. \A e \in ToSet(q.events) : outbox'[e] # "none"
    BY <2>1, <2>2, <2>3 DEF PassTruth
  <2>5. ToSet(q.results) = {}
    BY <2>3 DEF ToSet
  <2>q. QED
    BY <2>2, <2>3, <2>4, <2>5 DEF WireTruth
<1>2. ASSUME NEW r \in wire, ReceiveResults(r) \/ ReceiveError(r) \/ Forget(r) PROVE WireTruth'
  <2>1. wire' \subseteq wire \ {r} /\ open' = open
    BY <1>2 DEF ReceiveResults, ReceiveError, Forget, serverVars
  <2>q. QED
    BY <2>1, RequestGone
<1>3. ASSUME NEW r \in wire, LoseConnection(r) PROVE WireTruth'
  BY <1>3, AbandonedTruth DEF LoseConnection, serverVars
<1>4. CASE Kill
  <2>1. open' = open
    BY <1>4 DEF Kill, serverVars
  <2>2. CASE wire' = wire
    BY <1>0, <2>1, <2>2, RequestsStay
  <2>3. CASE \E r \in wire : r.waiting /\ Abandon(r)
    BY <2>1, <2>3, AbandonedTruth
  <2>q. QED
    BY <1>4, <2>2, <2>3 DEF Kill
<1>5. ASSUME NEW r \in wire, HandleInvalid(r) PROVE WireTruth'
  <2>1. /\ r.events # <<>> /\ Answered(r, "REJECTED") /\ Head(r.events) \in Invalid /\ open' = open
    BY <1>5 DEF HandleInvalid, CanHandle, Next1, serverVars
  <2>2. Tells(rows', Head(r.events), "REJECTED")
    BY <2>1 DEF Tells
  <2>3. "REJECTED" \in Answers
    BY DEF Answers
  <2>q. QED
    BY <1>0, <2>1, <2>2, <2>3, AnsweredTruth
<1>6. ASSUME NEW r \in wire, HandleReplay(r) PROVE WireTruth'
  <2> DEFINE e == Head(r.events)
             a == AnswerOf(rows[e])
  <2>1. r.events # <<>> /\ Answered(r, a) /\ rows[e] # "none" /\ open' = open /\ rows' = rows
    BY <1>6 DEF HandleReplay, CanHandle, Next1, serverVars
  <2>2. e \in Event
    BY <2>1, RequestParts, HeadInLocal, EventFacts DEF SyncTypeOK, WireOK
  <2>3. rows[e] \in {"APPLIED", "REVISED", "NEEDS_REVIEW"}
    BY <2>1, <2>2 DEF SyncTypeOK, RowsOK
  <2>4. a \in Answers /\ Tells(rows', e, a)
    BY <2>1, <2>3 DEF AnswerOf, Answers, Tells
  <2> HIDE DEF a
  <2>q. QED
    BY <1>0, <2>1, <2>4, AnsweredTruth
<1>7. ASSUME NEW r \in wire, NEW status \in {"APPLIED", "NEEDS_REVIEW"}, HandleCommit(r, status)
      PROVE  WireTruth'
  <2> DEFINE e == Head(r.events)
             a == AnswerOf(status)
  <2>1. /\ r.events # <<>> /\ r.busy /\ Answered(r, a) /\ open' = open \ {e}
        /\ rows' = [rows EXCEPT ![e] = status]
    BY <1>7 DEF HandleCommit, SyncTypeOK, WireOK, CommitRow, Next1
  <2>2. e \in Event
    BY <1>0, <2>1, EventFacts
  <2>3. rows'[e] = status
    BY <2>1, <2>2 DEF SyncTypeOK, RowsOK
  <2>4. a \in Answers /\ Tells(rows', e, a)
    BY <2>3 DEF AnswerOf, Answers, Tells
  <2>5. \A x \in wire \ {r} : x.busy => Head(x.events) \in open'
    BY <1>0, <2>1 DEF WireTruth
  <2> HIDE DEF a
  <2>q. QED
    BY <2>1, <2>4, <2>5, AnsweredTruth
<1>8. ASSUME NEW r \in wire, HandleInsert(r) PROVE WireTruth'
  <2>1. PICK q : q = Request(r.events, r.results, TRUE, r.waiting, FALSE)
    OBVIOUS
  <2>2. q.events = r.events /\ q.results = r.results
    BY <2>1 DEF Request
  <2>3. /\ wire' \subseteq (wire \ {r}) \cup {q} /\ Head(r.events) \notin Invalid
        /\ Head(r.events) \notin open /\ open' = open \cup {Head(r.events)}
    BY <1>8, <2>1 DEF HandleInsert, Replace, Draw, Next1
  <2>4. \A p \in ToSet(q.results) : Tells(rows', p[1], p[2])
    BY <2>2, RequestKept
  <2>5. \A e \in ToSet(q.events) : outbox'[e] # "none"
    BY <2>2, RequestKept
  <2>6. q.busy => Head(q.events) \in open' \ Invalid
    BY <2>2, <2>3
  <2>7. \A x \in wire \ {r} : x.busy =>
         /\ Head(x.events) \in open'
         /\ q.busy => Head(x.events) # Head(q.events)
    BY <1>0, <2>2, <2>3
  <2>q. QED
    BY <2>3, <2>4, <2>5, <2>6, <2>7, RequestReplaced
<1>9. ASSUME NEW r \in wire, HandleThrows(r) \/ ServiceFails(r) PROVE WireTruth'
  BY <1>9, ErrorTruth DEF HandleThrows, ServiceFails
<1>10. ASSUME NEW e \in Remote, RemoteInsert(e) \/ RemoteCommit(e) PROVE WireTruth'
  <2>1. wire' = wire /\ open \ {e} \subseteq open'
    BY <1>10 DEF RemoteInsert, RemoteCommit, Draw, CommitRow
  <2>2. \A r \in wire : r.busy => Head(r.events) # e
    BY <1>0, SyncAssumption
  <2>3. \A r \in wire : r.busy => Head(r.events) \in open'
    BY <1>0, <2>1, <2>2
  <2>q. QED
    BY <2>1, <2>3, RequestsStay
<1>11. CASE (\E e \in Event : Revise(e)) \/ UNCHANGED syncVars \/ (\E e \in Local : Capture(e))
           \/ StartSync \/ RecordResult \/ StartPull \/ PullPage \/ ApplyPage \/ SaveCursor
           \/ EndPass \/ PullFails
  <2>1. wire' = wire /\ open' = open
    BY <1>11 DEF Revise, syncVars, Capture, StartSync, RecordResult, serverVars,
         StartPull, PullPage, ApplyPage, SaveCursor, EndPass, PullFails
  <2>q. QED
    BY <1>0, <2>1, RequestsStay
<1>q. QED
  BY <1>1, <1>2, <1>3, <1>4, <1>5, <1>6, <1>7, <1>8, <1>9, <1>10, <1>11 DEF SyncNext, Proceed, Serve

\* Where the contents of a pass come from.
LEMMA PassContents ==
    ASSUME SyncTypeOK, [SyncNext]_syncVars
    PROVE  /\ \/ ToSet(pass'.results) \subseteq ToSet(pass.results)
              \/ \E r \in wire : pass'.results = r.results
           /\ \/ ToSet(pass'.batch) \subseteq ToSet(pass.batch)
              \/ \A e \in ToSet(pass'.batch) : outbox[e] = "PENDING"
<1> USE DEF SyncTypeOK
<1>0. ToSet(<<>>) = {}
  BY DEF ToSet
<1>1. CASE StartSync
  <2> DEFINE pending == Keep(captured, {e \in Local : outbox[e] = "PENDING"})
             taken == SubSeq(pending, 1, Min({BatchSize, Len(pending)}))
  <2>1. pending \in Seq(Local) /\ ToSet(pending) \subseteq {e \in Local : outbox[e] = "PENDING"}
    BY ToSetKeep DEF DeviceOK
  <2>2. pass' = Pass("send", taken, <<>>, <<>>, 1, EmptyPage)
    BY <1>1 DEF StartSync
  <2> HIDE DEF pending
  <2>3. ToSet(taken) \subseteq ToSet(pending)
    BY <2>1, TakenType
  <2> HIDE DEF taken
  <2>4. pass'.batch = taken /\ pass'.results = <<>>
    BY <2>2, PassFields
  <2>q. QED
    BY <2>1, <2>3, <2>4, <1>0
<1>2. CASE SendGroup
  <2> DEFINE t == TableOf[Head(pass.batch)]
             group == Keep(pass.batch, {e \in Local : TableOf[e] = t})
             rest == Keep(pass.batch, {e \in Local : TableOf[e] # t})
  <2>1. ToSet(rest) \subseteq ToSet(pass.batch)
    BY ToSetKeep DEF PassOK
  <2>2. pass' = Pass("await", rest, group, <<>>, 1, EmptyPage)
    BY <1>2 DEF SendGroup
  <2> HIDE DEF group, rest
  <2>3. pass'.batch = rest /\ pass'.results = <<>>
    BY <2>2, PassFields
  <2>q. QED
    BY <2>1, <2>3, <1>0
<1>3. CASE RecordResult
  <2>1. pass'.batch = pass.batch
    BY <1>3, PassFields DEF RecordResult
  <2>2. CASE pass.results = <<>>
    BY <1>3, <1>0, <2>1, <2>2, PassFields DEF RecordResult
  <2>3. CASE pass.results # <<>>
    <3>1. pass'.results = Tail(pass.results)
      BY <1>3, <2>3, PassFields DEF RecordResult
    <3>2. ToSet(pass.results) = {Head(pass.results)} \cup ToSet(Tail(pass.results))
      BY <2>3, ToSetTail DEF PassOK
    <3>q. QED
      BY <2>1, <3>1, <3>2
  <2>q. QED
    BY <2>2, <2>3
<1>4. CASE StartPull \/ PullPage \/ ApplyPage \/ SaveCursor \/ EndPass \/ PullFails \/ Kill
  <2>1. pass'.batch = <<>> /\ pass'.results = <<>>
    BY <1>4, PassFields DEF StartPull, PullPage, ApplyPage, SaveCursor, EndPass, PullFails, Kill,
       NoPass
  <2>q. QED
    BY <2>1, <1>0
<1>5. ASSUME NEW r \in wire, ReceiveResults(r)
      PROVE  pass'.batch = pass.batch /\ pass'.results = r.results
  BY <1>5, PassFields DEF ReceiveResults
<1>6. ASSUME NEW r \in wire, ReceiveError(r) \/ LoseConnection(r)
      PROVE  pass'.batch = pass.batch /\ pass'.results = <<>>
  BY <1>6, PassFields DEF ReceiveError, LoseConnection, RevertGroup
<1>7. CASE (\E e \in Remote : RemoteInsert(e) \/ RemoteCommit(e)) \/ (\E e \in Event : Revise(e))
           \/ (\E r \in wire : Serve(r) \/ ServiceFails(r)) \/ UNCHANGED syncVars
           \/ \E e \in Local : Capture(e)
  <2>1. pass' = pass
    BY <1>7 DEF RemoteInsert, RemoteCommit, Revise, Serve, HandleInvalid, HandleReplay, HandleInsert,
              HandleThrows, HandleCommit, Forget, ServiceFails, deviceVars, syncVars, Capture
  <2>q. QED
    BY <2>1
<1>q. QED
  BY <1>0, <1>1, <1>2, <1>3, <1>4, <1>5, <1>6, <1>7 DEF SyncNext, Proceed

LEMMA PassTruthStep ==
    ASSUME SyncTypeOK, SeqOK, WireTruth, PassTruth, [SyncNext]_syncVars
    PROVE  PassTruth'
<1>0. ToSet(pass.results) \subseteq Local \X Answers /\ ToSet(pass.batch) \subseteq Local
      /\ ToSet(pass'.batch) \subseteq Local
  BY ToSetType, PassStep DEF SyncTypeOK, PassOK
<1>1. ASSUME NEW p \in ToSet(pass.results) PROVE Tells(rows', p[1], p[2])
  <2>1. p[1] \in Event /\ Tells(rows, p[1], p[2])
    BY <1>0, EventFacts DEF PassTruth
  <2>2. RowGrows(p[1])
    BY <2>1, RowsGrow
  <2>q. QED
    BY <2>1, <2>2, TellsKept
<1>2. \A p \in ToSet(pass'.results) : Tells(rows', p[1], p[2])
  BY <1>1, RequestKept, PassContents
<1>3. ASSUME NEW e \in ToSet(pass'.batch) PROVE outbox'[e] # "none"
  <2>1. outbox[e] # "none"
    BY PassContents DEF PassTruth
  <2>q. QED
    BY <1>0, <2>1, CapturedStays
<1>q. QED
  BY <1>2, <1>3 DEF PassTruth

--------------------------------------------------------------------------------
(* The request the device waits for. *)

\* A request is replaced by one the device waits for no more and no less.
LEMMA WaitReplaced ==
    ASSUME WaitOK, NEW r \in wire, NEW q, wire' \subseteq (wire \ {r}) \cup {q},
           pass' = pass, q.waiting => r.waiting,
           q.waiting => q.failed \/ ToSet(pass.group) \subseteq
                                       ToSet(q.events) \cup {p[1] : p \in ToSet(q.results)}
    PROVE  WaitOK'
<1>1. \A x \in wire' : x \in wire \ {r} \/ x = q
  OBVIOUS
<1>2. \A x, y \in wire' : x.waiting /\ y.waiting => x = y
  BY <1>1 DEF WaitOK
<1>3. \A x \in wire' : x.waiting =>
          /\ pass'.at = "await"
          /\ x.failed \/ ToSet(pass'.group) \subseteq
                             ToSet(x.events) \cup {p[1] : p \in ToSet(x.results)}
  BY <1>1 DEF WaitOK
<1>q. QED
  BY <1>2, <1>3 DEF WaitOK

\* The device waits for none.
LEMMA NoneAwaited ==
    ASSUME \A r \in wire' : ~r.waiting
    PROVE  WaitOK'
BY DEF WaitOK

LEMMA AnsweredWait ==
    ASSUME SyncTypeOK, WaitOK, NEW r \in wire, ~r.failed, r.events # <<>>,
           NEW a \in Answers, Answered(r, a), pass' = pass
    PROVE  WaitOK'
<1>1. PICK q : /\ q = Request(Tail(r.events), Append(r.results, <<Head(r.events), a>>),
                              FALSE, r.waiting, FALSE)
               /\ wire' = (wire \ {r}) \cup {q}
  BY DEF Answered, Replace, Next1
<1>2. /\ ~q.busy
      /\ ToSet(r.events) = {Head(r.events)} \cup ToSet(q.events)
      /\ ToSet(q.results) = ToSet(r.results) \cup {<<Head(r.events), a>>}
  <2>1. /\ r \in Requests
        /\ q = Request(Tail(r.events), Append(r.results, <<Head(r.events), a>>),
                       FALSE, r.waiting, FALSE)
    BY <1>1 DEF SyncTypeOK, WireOK
  <2>2. /\ q \in Requests /\ q.events = Tail(r.events) /\ ~q.busy /\ ~q.failed
        /\ q.results = Append(r.results, <<Head(r.events), a>>) /\ q.waiting = r.waiting
        /\ OneLess(q, r, a)
    BY <2>1, AnsweredType
  <2>q. QED
    BY <2>2 DEF OneLess
<1>w. q.waiting = r.waiting
  BY <1>1 DEF Request
<1>3. ToSet(r.events) \cup {p[1] : p \in ToSet(r.results)}
        \subseteq ToSet(q.events) \cup {p[1] : p \in ToSet(q.results)}
  <2>1. <<Head(r.events), a>>[1] = Head(r.events)
    OBVIOUS
  <2>2. Head(r.events) \in {p[1] : p \in ToSet(q.results)}
    BY <1>2, <2>1
  <2>q. QED
    BY <1>2, <2>2
<1>4. q.waiting => q.failed \/ ToSet(pass.group) \subseteq
                                  ToSet(q.events) \cup {p[1] : p \in ToSet(q.results)}
  BY <1>w, <1>3 DEF WaitOK
<1>5. wire' \subseteq (wire \ {r}) \cup {q} /\ (q.waiting => r.waiting)
  BY <1>1, <1>w
<1>q. QED
  BY <1>4, <1>5, WaitReplaced

LEMMA ErrorWait ==
    ASSUME WaitOK, NEW r \in wire, EndInError(r), pass' = pass
    PROVE  WaitOK'
<1>3. CASE r.waiting
  <2>1. PICK x : x = Request(r.events, <<>>, FALSE, TRUE, TRUE)
    OBVIOUS
  <2>2. x.failed /\ wire' \subseteq (wire \ {r}) \cup {x}
    BY <1>3, <2>1 DEF EndInError, Request
  <2>q. QED
    BY <1>3, <2>2, WaitReplaced
<1>4. CASE ~r.waiting
  <2>1. wire' \subseteq (wire \ {r}) \cup {r}
    BY <1>4 DEF EndInError
  <2>q. QED
    BY <1>4, <2>1, WaitReplaced
<1>q. QED
  BY <1>3, <1>4

LEMMA WaitStep ==
    ASSUME SyncTypeOK, WaitOK, [SyncNext]_syncVars
    PROVE  WaitOK'
<1>a. ASSUME NEW r \in wire, r.waiting, Abandon(r) PROVE \A x \in wire' : ~x.waiting
  <2>1. ~Abandoned(r).waiting
    BY DEF Abandoned, Request
  <2>2. \A x \in wire' : x \in wire \ {r} \/ x = Abandoned(r)
    BY <1>a DEF Abandon
  <2>q. QED
    BY <1>a, <2>1, <2>2 DEF WaitOK
<1>1. CASE SendGroup
  <2> DEFINE t == TableOf[Head(pass.batch)]
             group == Keep(pass.batch, {e \in Local : TableOf[e] = t})
             rest == Keep(pass.batch, {e \in Local : TableOf[e] # t})
             q == Request(group, <<>>, FALSE, TRUE, FALSE)
  <2>1. /\ wire' = wire \cup {q} /\ pass' = Pass("await", rest, group, <<>>, 1, EmptyPage)
        /\ pass.at = "send"
    BY <1>1 DEF SendGroup
  <2>2. q.events = group
    BY DEF Request
  <2> HIDE DEF group, rest, q
  <2>3. pass'.at = "await" /\ pass'.group = group
    BY <2>1, PassFields
  <2>4. \A x \in wire : ~x.waiting
    BY <2>1 DEF WaitOK
  <2>5. \A x \in wire' : x.waiting => x = q
    BY <2>1, <2>4
  <2>6. \A x \in wire' : x.waiting =>
          ToSet(pass'.group) \subseteq ToSet(x.events) \cup {p[1] : p \in ToSet(x.results)}
    BY <2>2, <2>3, <2>5
  <2>q. QED
    BY <2>3, <2>5, <2>6 DEF WaitOK
<1>2. ASSUME NEW r \in wire, ReceiveResults(r) \/ ReceiveError(r) PROVE WaitOK'
  <2>1. r.waiting /\ wire' = wire \ {r}
    BY <1>2 DEF ReceiveResults, ReceiveError
  <2>2. \A x \in wire' : ~x.waiting
    BY <2>1 DEF WaitOK
  <2>q. QED
    BY <2>2, NoneAwaited
<1>3. ASSUME NEW r \in wire, LoseConnection(r) PROVE WaitOK'
  BY <1>3, <1>a, NoneAwaited DEF LoseConnection
<1>4. CASE Kill
  <2>1. \A x \in wire' : ~x.waiting
    BY <1>4, <1>a DEF Kill
  <2>q. QED
    BY <2>1, NoneAwaited
<1>5. ASSUME NEW r \in wire, HandleInvalid(r) PROVE WaitOK'
  BY <1>5, AnsweredWait DEF HandleInvalid, CanHandle, deviceVars, Answers
<1>6. ASSUME NEW r \in wire, HandleReplay(r) PROVE WaitOK'
  <2>1. ~r.failed /\ r.events # <<>> /\ Answered(r, AnswerOf(rows[Head(r.events)])) /\ pass' = pass
    BY <1>6 DEF HandleReplay, CanHandle, Next1, deviceVars
  <2>2. Head(r.events) \in Event
    BY <2>1, RequestParts, HeadInLocal, EventFacts DEF SyncTypeOK, WireOK
  <2>3. AnswerOf(rows[Head(r.events)]) \in Answers
    BY <2>2, AnswerType DEF SyncTypeOK, RowsOK
  <2>q. QED
    BY <2>1, <2>3, AnsweredWait
<1>7. ASSUME NEW r \in wire, NEW status \in {"APPLIED", "NEEDS_REVIEW"}, HandleCommit(r, status)
      PROVE  WaitOK'
  <2>1. r.events # <<>> /\ Answered(r, AnswerOf(status)) /\ pass' = pass
    BY <1>7 DEF HandleCommit, SyncTypeOK, WireOK, deviceVars
  <2>2. AnswerOf(status) \in Answers
    BY AnswerType
  <2>3. ~r.failed
    BY <1>7 DEF HandleCommit, SyncTypeOK, WireOK
  <2>q. QED
    BY <2>1, <2>2, <2>3, AnsweredWait
<1>8. ASSUME NEW r \in wire, HandleInsert(r) PROVE WaitOK'
  <2>1. PICK q : q = Request(r.events, r.results, TRUE, r.waiting, FALSE)
    OBVIOUS
  <2>2. q.events = r.events /\ q.results = r.results /\ q.waiting = r.waiting
    BY <2>1 DEF Request
  <2>3. wire' \subseteq (wire \ {r}) \cup {q} /\ pass' = pass /\ ~r.failed
    BY <1>8, <2>1 DEF HandleInsert, Replace, CanHandle, deviceVars
  <2>4. q.waiting => q.failed \/ ToSet(pass.group) \subseteq
                                    ToSet(q.events) \cup {p[1] : p \in ToSet(q.results)}
    BY <2>2, <2>3 DEF WaitOK
  <2>q. QED
    BY <2>2, <2>3, <2>4, WaitReplaced
<1>9. ASSUME NEW r \in wire, HandleThrows(r) \/ ServiceFails(r) PROVE WaitOK'
  BY <1>9, ErrorWait DEF HandleThrows, ServiceFails, deviceVars
<1>10. ASSUME NEW r \in wire, Forget(r) PROVE WaitOK'
  <2>1. wire' \subseteq wire /\ pass' = pass
    BY <1>10 DEF Forget, deviceVars
  <2>q. QED
    BY <2>1 DEF WaitOK
<1>11. CASE (\E e \in Remote : RemoteInsert(e) \/ RemoteCommit(e)) \/ (\E e \in Event : Revise(e))
            \/ UNCHANGED syncVars \/ (\E e \in Local : Capture(e))
  <2>1. wire' = wire /\ pass' = pass
    BY <1>11 DEF RemoteInsert, RemoteCommit, Revise, syncVars, Capture, deviceVars
  <2>q. QED
    BY <2>1 DEF WaitOK
<1>12. CASE StartSync \/ RecordResult \/ StartPull \/ PullPage \/ ApplyPage \/ SaveCursor
            \/ EndPass \/ PullFails
  <2>1. wire' = wire /\ pass.at # "await"
    BY <1>12 DEF StartSync, RecordResult, StartPull, PullPage, ApplyPage, SaveCursor, EndPass,
       PullFails
  <2>2. \A x \in wire' : ~x.waiting
    BY <2>1 DEF WaitOK
  <2>q. QED
    BY <2>2, NoneAwaited
<1>q. QED
  BY <1>1, <1>2, <1>3, <1>4, <1>5, <1>6, <1>7, <1>8, <1>9, <1>10, <1>11, <1>12
     DEF SyncNext, Proceed, Serve

--------------------------------------------------------------------------------
(* The outbox. *)

\* An outbox row changes to pending, to in flight, or to a result received.
LEMMA OutboxMoves ==
    ASSUME SyncTypeOK, [SyncNext]_syncVars, NEW e \in Local
    PROVE  \/ outbox'[e] = outbox[e] \/ outbox'[e] \in {"PENDING", "IN_FLIGHT"}
           \/ \E p \in ToSet(pass.results) : p[1] = e /\ outbox'[e] = p[2]
<1> USE DEF SyncTypeOK, DeviceOK
<1>1. ASSUME NEW f \in Local, Capture(f) PROVE outbox'[e] \in {outbox[e], "PENDING"}
  BY <1>1 DEF Capture
<1>2. CASE StartSync
  BY <1>2 DEF StartSync, SetOutbox
<1>3. CASE RecordResult
  <2>1. CASE pass.results = <<>>
    BY <1>3, <2>1 DEF RecordResult
  <2>2. CASE pass.results # <<>>
    <3>1. outbox' = [outbox EXCEPT ![Head(pass.results)[1]] = Head(pass.results)[2]]
      BY <1>3, <2>2 DEF RecordResult
    <3>2. ToSet(pass.results) = {Head(pass.results)} \cup ToSet(Tail(pass.results))
      BY <2>2, ToSetTail DEF PassOK
    <3>3. CASE Head(pass.results)[1] = e
      BY <3>1, <3>2, <3>3
    <3>4. CASE Head(pass.results)[1] # e
      BY <3>1, <3>4
    <3>q. QED
      BY <3>3, <3>4
  <2>q. QED
    BY <2>1, <2>2
<1>4. ASSUME NEW r \in wire, ReceiveError(r) \/ LoseConnection(r)
      PROVE outbox'[e] \in {outbox[e], "PENDING"}
  BY <1>4 DEF ReceiveError, LoseConnection, RevertGroup, SetOutbox
<1>5. CASE SendGroup \/ StartPull \/ PullPage \/ EndPass \/ PullFails \/ ApplyPage \/ SaveCursor
           \/ Kill \/ (\E r \in wire : ReceiveResults(r))
  BY <1>5 DEF SendGroup, StartPull, PullPage, EndPass, PullFails, ReceiveResults, ApplyPage,
              SaveCursor, Kill
<1>6. CASE (\E f \in Remote : RemoteInsert(f) \/ RemoteCommit(f)) \/ (\E f \in Event : Revise(f))
           \/ (\E r \in wire : Serve(r) \/ ServiceFails(r)) \/ UNCHANGED syncVars
  BY <1>6 DEF RemoteInsert, RemoteCommit, Revise, Serve, HandleInvalid, HandleReplay, HandleInsert,
              HandleThrows, HandleCommit, Forget, ServiceFails, deviceVars, syncVars
<1>q. QED
  BY <1>1, <1>2, <1>3, <1>4, <1>5, <1>6 DEF SyncNext, Proceed

\* An event leaves the pass that holds it only with an outbox row of its own.
LEMMA InFlightStep ==
    ASSUME SyncTypeOK, WaitOK, [SyncNext]_syncVars, NEW e \in Local,
           outbox[e] = "IN_FLIGHT" => e \in stranded \/ HeldByPass(e),
           outbox'[e] = "IN_FLIGHT"
    PROVE  e \in stranded' \/ HeldByPass(e)'
<1> USE DEF SyncTypeOK
<1>0. ToSet(<<>>) = {}
  BY DEF ToSet
<1>1. ASSUME NEW f \in Local, Capture(f) PROVE outbox[e] = "IN_FLIGHT" /\ stranded' = stranded /\ pass' = pass
  BY <1>1 DEF Capture, DeviceOK
<1>2. CASE StartSync
  <2> DEFINE pending == Keep(captured, {f \in Local : outbox[f] = "PENDING"})
             taken == SubSeq(pending, 1, Min({BatchSize, Len(pending)}))
  <2>1. /\ pass.at = "idle" /\ pass' = Pass("send", taken, <<>>, <<>>, 1, EmptyPage)
        /\ outbox' = SetOutbox(ToSet(taken), "IN_FLIGHT") /\ stranded' = stranded
    BY <1>2 DEF StartSync
  <2> HIDE DEF taken
  <2>2. pass'.at = "send" /\ pass'.batch = taken
    BY <2>1, PassFields
  <2>3. CASE e \in ToSet(taken)
    BY <2>2, <2>3 DEF HeldByPass
  <2>4. CASE e \notin ToSet(taken)
    BY <2>1, <2>4 DEF SetOutbox, HeldByPass
  <2>q. QED
    BY <2>3, <2>4
<1>3. CASE SendGroup
  <2> DEFINE t == TableOf[Head(pass.batch)]
             group == Keep(pass.batch, {f \in Local : TableOf[f] = t})
             rest == Keep(pass.batch, {f \in Local : TableOf[f] # t})
  <2>1. /\ pass.at = "send" /\ pass' = Pass("await", rest, group, <<>>, 1, EmptyPage)
        /\ outbox' = outbox /\ stranded' = stranded
    BY <1>3 DEF SendGroup
  <2>2. /\ ToSet(group) = ToSet(pass.batch) \cap {f \in Local : TableOf[f] = t}
        /\ ToSet(rest) = ToSet(pass.batch) \cap {f \in Local : TableOf[f] # t}
    BY ToSetKeep DEF PassOK
  <2> HIDE DEF group, rest
  <2>3. pass'.at = "await" /\ pass'.batch = rest /\ pass'.group = group
    BY <2>1, PassFields
  <2>4. e \in ToSet(pass.batch) => e \in ToSet(rest) \/ e \in ToSet(group)
    BY <2>2
  <2>q. QED
    BY <2>1, <2>3, <2>4 DEF HeldByPass
<1>4. CASE RecordResult
  <2>1. pass.at = "apply" /\ stranded' = stranded
    BY <1>4 DEF RecordResult
  <2>2. CASE pass.results = <<>>
    <3>1. pass'.at = "send" /\ pass'.batch = pass.batch /\ outbox' = outbox
      BY <1>4, <2>2, PassFields DEF RecordResult
    <3>q. QED
      BY <1>0, <2>1, <2>2, <3>1 DEF HeldByPass
  <2>3. CASE pass.results # <<>>
    <3>1. outbox' = [outbox EXCEPT ![Head(pass.results)[1]] = Head(pass.results)[2]]
      BY <1>4, <2>3 DEF RecordResult
    <3>2. Head(pass.results)[1] \in Local /\ Head(pass.results)[2] \in Answers
      BY <2>3, ResultType DEF PassOK
    <3>3. Head(pass.results)[1] # e /\ outbox[e] = "IN_FLIGHT"
      BY <3>1, <3>2 DEF Answers, DeviceOK
    <3>4. pass'.at = "apply" /\ pass'.batch = pass.batch /\ pass'.results = Tail(pass.results)
      BY <1>4, <2>3, PassFields DEF RecordResult
    <3>5. ToSet(pass.results) = {Head(pass.results)} \cup ToSet(Tail(pass.results))
      BY <2>3, ToSetTail DEF PassOK
    <3>q. QED
      BY <2>1, <3>3, <3>4, <3>5 DEF HeldByPass
  <2>q. QED
    BY <2>2, <2>3
<1>5. CASE StartPull
  <2>1. pass.at = "send" /\ pass.batch = <<>> /\ outbox' = outbox /\ stranded' = stranded
    BY <1>5 DEF StartPull
  <2>q. QED
    BY <1>0, <2>1 DEF HeldByPass
<1>6. CASE PullPage \/ ApplyPage \/ SaveCursor \/ EndPass \/ PullFails
  <2>1. pass.at \in {"pull", "page", "cursor"} /\ outbox' = outbox /\ stranded' = stranded
    BY <1>6 DEF PullPage, ApplyPage, SaveCursor, EndPass, PullFails
  <2>q. QED
    BY <2>1 DEF HeldByPass
<1>7. ASSUME NEW r \in wire, ReceiveResults(r) PROVE e \in stranded' \/ HeldByPass(e)'
  <2>1. /\ pass.at = "await" /\ r.waiting /\ ~r.failed /\ r.events = <<>>
        /\ outbox' = outbox /\ stranded' = stranded
    BY <1>7 DEF ReceiveResults
  <2>2. ToSet(pass.group) \subseteq {p[1] : p \in ToSet(r.results)}
    BY <1>0, <2>1 DEF WaitOK
  <2>3. pass'.at = "apply" /\ pass'.batch = pass.batch /\ pass'.results = r.results
    BY <1>7, PassFields DEF ReceiveResults
  <2>q. QED
    BY <2>1, <2>2, <2>3 DEF HeldByPass
<1>8. ASSUME NEW r \in wire, ReceiveError(r) \/ LoseConnection(r)
      PROVE  e \in stranded' \/ HeldByPass(e)'
  <2>1. /\ pass.at = "await" /\ outbox' = SetOutbox(ToSet(pass.group), "PENDING")
        /\ stranded' = stranded
    BY <1>8 DEF ReceiveError, LoseConnection, RevertGroup
  <2>2. outbox[e] = "IN_FLIGHT" /\ e \notin ToSet(pass.group)
    BY <2>1 DEF SetOutbox
  <2>3. pass'.at = "send" /\ pass'.batch = pass.batch
    BY <1>8, PassFields DEF ReceiveError, LoseConnection, RevertGroup
  <2>q. QED
    BY <2>1, <2>2, <2>3 DEF HeldByPass
<1>9. CASE Kill
  BY <1>9 DEF Kill
<1>10. CASE (\E f \in Remote : RemoteInsert(f) \/ RemoteCommit(f)) \/ (\E f \in Event : Revise(f))
            \/ (\E r \in wire : Serve(r) \/ ServiceFails(r)) \/ UNCHANGED syncVars
  <2>1. outbox' = outbox /\ stranded' = stranded /\ pass' = pass
    BY <1>10 DEF RemoteInsert, RemoteCommit, Revise, Serve, HandleInvalid, HandleReplay, HandleInsert,
              HandleThrows, HandleCommit, Forget, ServiceFails, deviceVars, syncVars
  <2>q. QED
    BY <2>1 DEF HeldByPass
<1>11. ASSUME outbox[e] = "IN_FLIGHT", stranded' = stranded, pass' = pass
       PROVE  e \in stranded' \/ HeldByPass(e)'
  BY <1>11 DEF HeldByPass
<1>q. QED
  BY <1>1, <1>2, <1>3, <1>4, <1>5, <1>6, <1>7, <1>8, <1>9, <1>10, <1>11 DEF SyncNext, Proceed

LEMMA OutboxStep ==
    ASSUME SyncTypeOK, SeqOK, WireTruth, PassTruth, WaitOK, OutboxTellsTruth, [SyncNext]_syncVars
    PROVE  OutboxTellsTruth'
<1>1. SUFFICES ASSUME NEW e \in Local
      PROVE  /\ Tells(rows', e, outbox'[e])
             /\ outbox'[e] = "none" \/ e \in Invalid => rows'[e] = "none"
             /\ outbox'[e] = "IN_FLIGHT" => e \in stranded' \/ HeldByPass(e)'
  <2>1. OutboxTellsTruth' = \A e \in Local :
             /\ outbox'[e] = "ACKED" => rows'[e] \in {"APPLIED", "REVISED"}
             /\ outbox'[e] = "NEEDS_REVIEW" => rows'[e] = "NEEDS_REVIEW"
             /\ outbox'[e] = "REJECTED" => e \in Invalid
             /\ outbox'[e] = "none" \/ e \in Invalid => rows'[e] = "none"
             /\ outbox'[e] = "IN_FLIGHT" => e \in stranded' \/ HeldByPass(e)'
    BY DEF OutboxTellsTruth
  <2>q. QED
    BY <2>1 DEF Tells
<1>2. e \in Event /\ RowGrows(e)
  BY EventFacts, RowsGrow
<1>3. Tells(rows, e, outbox[e])
  BY DEF OutboxTellsTruth, Tells
<1>4. Tells(rows', e, outbox'[e])
  <2>1. CASE outbox'[e] = outbox[e]
    BY <1>2, <1>3, <2>1, TellsKept
  <2>2. CASE outbox'[e] \in {"PENDING", "IN_FLIGHT"}
    BY <2>2 DEF Tells
  <2>3. CASE \E p \in ToSet(pass.results) : p[1] = e /\ outbox'[e] = p[2]
    BY <1>2, <2>3, TellsKept DEF PassTruth
  <2>q. QED
    BY <2>1, <2>2, <2>3, OutboxMoves
<1>5. outbox'[e] = "none" \/ e \in Invalid => rows'[e] = "none"
  <2>1. outbox[e] = "none" \/ e \in Invalid => rows[e] = "none"
    BY DEF OutboxTellsTruth
  <2>2. outbox'[e] = "none" => outbox[e] = "none"
    BY CapturedStays
  <2>q. QED
    BY <1>2, <2>1, <2>2 DEF RowGrows
<1>6. outbox'[e] = "IN_FLIGHT" => e \in stranded' \/ HeldByPass(e)'
  BY InFlightStep DEF OutboxTellsTruth
<1>q. QED
  BY <1>4, <1>5, <1>6

--------------------------------------------------------------------------------
(* The pages and the cursor. *)

\* A row that commits without being late has a higher number than every row
\* of its table committed before.
LEMMA CommitsInTime ==
    ASSUME SyncTypeOK, SeqOK, WireTruth, [SyncNext]_syncVars,
           NEW e \in Event, rows'[e] # "none", e \notin late'
    PROVE  /\ e \notin late
           /\ rows[e] = "none" =>
                 /\ seqOf' = seqOf /\ seqOf[e] > 0
                 /\ \A f \in Event : rows[f] # "none" /\ TableOf[f] = TableOf[e]
                                        => seqOf[f] < seqOf[e]
<1> USE DEF SyncTypeOK, RowsOK
<1>1. CASE UNCHANGED serverVars
  BY <1>1 DEF serverVars
<1>2. ASSUME NEW f \in Event, Draw(f) PROVE rows' = rows /\ late' = late
  BY <1>2 DEF Draw
<1>3. ASSUME NEW c \in Event, NEW status \in {"APPLIED", "NEEDS_REVIEW"}, CommitRow(c, status),
             c \in open
      PROVE  /\ e \notin late
             /\ rows[e] = "none" =>
                 /\ seqOf' = seqOf /\ seqOf[e] > 0
                 /\ \A f \in Event : rows[f] # "none" /\ TableOf[f] = TableOf[e]
                                        => seqOf[f] < seqOf[e]
  <2>1. e \notin late
    BY <1>3 DEF CommitRow
  <2>2. ASSUME rows[e] = "none"
        PROVE  /\ seqOf' = seqOf /\ seqOf[e] > 0
               /\ \A f \in Event : rows[f] # "none" /\ TableOf[f] = TableOf[e]
                                      => seqOf[f] < seqOf[e]
    <3>1. e = c /\ seqOf' = seqOf
      BY <1>3, <2>2 DEF CommitRow
    <3>2. seqOf[e] > 0
      BY <1>3, <3>1 DEF SeqOK
    <3>3. ~\E f \in Event : /\ rows[f] # "none" /\ TableOf[f] = TableOf[c]
                             /\ seqOf[f] > seqOf[c]
      BY <1>3, <3>1 DEF CommitRow
    <3>4. ASSUME NEW f \in Event, rows[f] # "none", TableOf[f] = TableOf[e]
          PROVE  seqOf[f] < seqOf[e]
      <4>1. seqOf[f] # seqOf[e]
        BY <2>2, <3>2, <3>4 DEF SeqOK
      <4>2. ~(seqOf[f] > seqOf[e])
        BY <3>1, <3>3, <3>4
      <4>3. seqOf[f] \in Nat /\ seqOf[e] \in Nat
        OBVIOUS
      <4>q. QED
        BY <4>1, <4>2, <4>3
    <3>q. QED
      BY <3>1, <3>2, <3>4
  <2>q. QED
    BY <2>1, <2>2
<1>4. ASSUME NEW f \in Event, rows[f] = "APPLIED", rows' = [rows EXCEPT ![f] = "REVISED"],
             UNCHANGED <<seqOf, open, nextSeq, late>>
      PROVE  e \notin late /\ rows[e] # "none"
  BY <1>4
<1> HIDE DEF SyncTypeOK, RowsOK
<1>q. QED
  <2>1. CASE \E f \in Event : Draw(f)
    BY <2>1, <1>2
  <2>2. CASE \E f \in Event, status \in {"APPLIED", "NEEDS_REVIEW"} :
               /\ (f \in Remote /\ f \in open) \/ \E r \in wire : r.busy /\ f = Head(r.events)
               /\ CommitRow(f, status)
    BY <2>2, <1>3, CommitFacts
  <2>3. CASE \E r \in wire : /\ r.busy /\ open' = open \ {Head(r.events)}
                           /\ UNCHANGED <<rows, seqOf, nextSeq, late>>
    BY <2>3
  <2>4. CASE \E f \in Event : /\ rows[f] = "APPLIED" /\ rows' = [rows EXCEPT ![f] = "REVISED"]
                            /\ UNCHANGED <<seqOf, open, nextSeq, late>>
    BY <2>4, <1>4
  <2>q. QED
    BY <1>1, <2>1, <2>2, <2>3, <2>4, ServerMoves DEF SyncTypeOK

\* A page leaves out no row between the cursor and one of its own.
LEMMA PageIsDense ==
    ASSUME SyncTypeOK, SeqOK, NEW t, NEW since \in Nat, NEW m \in PageAfter(t, since),
           NEW e \in Event, TableOf[e] = t, rows[e] # "none", since < seqOf[e], seqOf[e] <= seqOf[m]
    PROVE  e \in PageAfter(t, since)
<1> USE DEF SyncTypeOK, RowsOK
<1> DEFINE newer == {f \in Event : TableOf[f] = t /\ rows[f] # "none" /\ seqOf[f] > since}
           Before(x) == {f \in newer : seqOf[f] < seqOf[x]}
<1>1. m \in newer /\ Cardinality(Before(m)) < PageSize
  BY DEF PageAfter
<1>2. e \in newer
  OBVIOUS
<1>3. newer \subseteq {f \in Event : seqOf[f] > 0}
  OBVIOUS
<1>4. IsFiniteSet(newer)
  BY <1>3, FS_Subset DEF SeqOK
<1>5. Before(m) \subseteq newer /\ Before(e) \subseteq Before(m)
  BY <1>1, <1>2
<1>6. IsFiniteSet(Before(m))
  BY <1>4, <1>5, FS_Subset
<1>7. /\ Cardinality(Before(e)) <= Cardinality(Before(m))
      /\ Cardinality(Before(e)) \in Nat /\ Cardinality(Before(m)) \in Nat
  BY <1>5, <1>6, FS_Subset, FS_CardinalityType
<1>8. PageSize \in Nat
  BY SyncAssumption
<1>9. Cardinality(Before(e)) < PageSize
  <2> HIDE DEF Before
  <2>q. QED
    BY <1>1, <1>7, <1>8
<1>q. QED
  BY <1>2, <1>9 DEF PageAfter

\* The steps that concern the pages, the cache and the cursors.
LEMMA PullMoves ==
    ASSUME SyncTypeOK, [SyncNext]_syncVars
    PROVE  \/ /\ cache' = cache /\ cursor' = cursor
              /\ pass' = pass \/ pass'.at \notin {"page", "cursor"}
           \/ \E e \in Local : Capture(e)
           \/ PullPage \/ ApplyPage \/ SaveCursor
<1>1. ASSUME StartSync \/ SendGroup \/ RecordResult \/ StartPull \/ EndPass \/ PullFails \/ Kill
      PROVE  cache' = cache /\ cursor' = cursor /\ pass'.at \notin {"page", "cursor"}
  <2>1. cache' = cache /\ cursor' = cursor
    BY <1>1 DEF StartSync, SendGroup, RecordResult, StartPull, EndPass, PullFails, Kill
  <2>2. ASSUME StartSync \/ SendGroup \/ StartPull \/ EndPass \/ PullFails \/ Kill
        PROVE  pass'.at \in {"send", "await", "pull", "idle"}
    <3>1. CASE StartSync
      BY <3>1, PassFields DEF StartSync
    <3>2. CASE SendGroup
      BY <3>2, PassFields DEF SendGroup
    <3>3. CASE StartPull
      BY <3>3, PassFields DEF StartPull
    <3>4. CASE EndPass \/ PullFails \/ Kill
      BY <3>4, PassFields DEF EndPass, PullFails, Kill, NoPass
    <3>q. QED
      BY <2>2, <3>1, <3>2, <3>3, <3>4
  <2>3. CASE RecordResult
    <3>1. pass'.at \in {"send", "apply"}
      BY <2>3, PassFields DEF RecordResult
    <3>q. QED
      BY <2>1, <3>1
  <2>4. StartSync \/ SendGroup \/ StartPull \/ EndPass \/ PullFails \/ Kill
          => pass'.at \notin {"page", "cursor"}
    BY <2>2
  <2>q. QED
    BY <1>1, <2>1, <2>3, <2>4
<1>2. ASSUME NEW r \in wire, ReceiveResults(r) \/ ReceiveError(r) \/ LoseConnection(r)
      PROVE  cache' = cache /\ cursor' = cursor /\ pass'.at \notin {"page", "cursor"}
  BY <1>2, PassFields DEF ReceiveResults, ReceiveError, LoseConnection, RevertGroup
<1>3. CASE (\E e \in Remote : RemoteInsert(e) \/ RemoteCommit(e)) \/ (\E e \in Event : Revise(e))
           \/ (\E r \in wire : Serve(r) \/ ServiceFails(r)) \/ UNCHANGED syncVars
  BY <1>3 DEF RemoteInsert, RemoteCommit, Revise, Serve, HandleInvalid, HandleReplay, HandleInsert,
              HandleThrows, HandleCommit, Forget, ServiceFails, deviceVars, syncVars
<1>q. QED
  BY <1>1, <1>2, <1>3 DEF SyncNext, Proceed

LEMMA CopyKept ==
    ASSUME SyncTypeOK, NEW e \in Event, RowGrows(e), NEW a, a # "none", CopyOf(a, rows[e])
    PROVE  CopyOf(a, rows'[e])
BY DEF RowGrows, CopyOf

\* The rows of a fetched page are committed and stay so.
LEMMA PageRows ==
    ASSUME SyncTypeOK, SeqOK, WireTruth, PageOK, [SyncNext]_syncVars,
           pass.at \in {"page", "cursor"}, NEW m \in DOMAIN pass.page
    PROVE  /\ m \in Event /\ rows[m] # "none" /\ pass.page[m] \notin {"none", "local"}
           /\ CopyOf(pass.page[m], rows'[m]) /\ seqOf'[m] = seqOf[m]
<1>1. m \in Event /\ pass.page[m] \in {"APPLIED", "REVISED", "NEEDS_REVIEW"}
  BY DEF SyncTypeOK, PassOK
<1>2. CopyOf(pass.page[m], rows[m]) /\ rows[m] # "none"
  BY <1>1 DEF PageOK, CopyOf
<1>3. RowGrows(m) /\ seqOf'[m] = seqOf[m]
  BY <1>1, <1>2, RowsGrow
<1>q. QED
  BY <1>1, <1>2, <1>3, CopyKept

\* What a fetched page covers, it covers still.
LEMMA PageCovers ==
    ASSUME SyncTypeOK, SeqOK, WireTruth, PageOK, [SyncNext]_syncVars,
           pass.at \in {"page", "cursor"}, NEW m \in DOMAIN pass.page,
           NEW e \in Event, rows'[e] # "none", TableOf[e] = TableOf[m], e \notin late',
           seqOf'[e] <= seqOf'[m]
    PROVE  e \in DOMAIN pass.page \/ seqOf'[e] <= cursor[TableOf[e]]
<1>1. m \in Event /\ rows[m] # "none" /\ seqOf'[m] = seqOf[m]
  BY PageRows
<1>2. CASE rows[e] = "none"
  <2>1. seqOf' = seqOf /\ seqOf[m] < seqOf[e]
    BY <1>1, <1>2, CommitsInTime
  <2>q. QED
    BY <1>1, <2>1 DEF SyncTypeOK, RowsOK
<1>3. CASE rows[e] # "none"
  <2>1. seqOf'[e] = seqOf[e] /\ e \notin late
    BY <1>3, RowsGrow, CommitsInTime
  <2>q. QED
    BY <1>1, <1>3, <2>1 DEF PageOK
<1>q. QED
  BY <1>2, <1>3

LEMMA CursorStep ==
    ASSUME SyncTypeOK, SeqOK, WireTruth, PageOK, CursorOK, [SyncNext]_syncVars
    PROVE  CursorOK'
<1>1. CASE cursor' = cursor
  <2>1. \A e \in Event : rows[e] # "none" => rows'[e] # "none" /\ seqOf'[e] = seqOf[e]
    BY RowsGrow
  <2>q. QED
    BY <1>1, <2>1 DEF CursorOK
<1>2. CASE SaveCursor
  <2>1. /\ pass.at = "cursor" /\ rows' = rows /\ seqOf' = seqOf
        /\ cursor' = [cursor EXCEPT ![Tables[pass.table]] = Max({seqOf[e] : e \in DOMAIN pass.page})]
    BY <1>2 DEF SaveCursor, serverVars
  <2>2. DOMAIN pass.page \in SUBSET Event /\ DOMAIN pass.page # {}
    BY <2>1 DEF SyncTypeOK, PassOK
  <2>3. PICK m \in DOMAIN pass.page : Max({seqOf[e] : e \in DOMAIN pass.page}) = seqOf[m]
    BY <2>2, LastOfPage DEF SyncTypeOK
  <2>4. m \in Event /\ rows[m] # "none" /\ TableOf[m] = Tables[pass.table]
    BY <2>1, PageRows DEF PageOK
  <2>q. QED
    BY <2>1, <2>3, <2>4 DEF CursorOK, SyncTypeOK, DeviceOK
<1>3. CASE (\E e \in Local : Capture(e)) \/ PullPage \/ ApplyPage
  BY <1>1, <1>3 DEF Capture, PullPage, ApplyPage
<1>q. QED
  BY <1>1, <1>2, <1>3, PullMoves

LEMMA PageStep ==
    ASSUME SyncTypeOK, SeqOK, WireTruth, OutboxTellsTruth, PageOK, [SyncNext]_syncVars
    PROVE  PageOK'
<1>1. SUFFICES ASSUME pass'.at \in {"page", "cursor"}, NEW m \in DOMAIN pass'.page
      PROVE  /\ TableOf[m] = Tables[pass'.table] /\ CopyOf(pass'.page[m], rows'[m])
             /\ pass'.at = "cursor" => cache'[m] \notin {"none", "local"}
             /\ \A e \in Event :
                   /\ rows'[e] # "none" /\ TableOf[e] = TableOf[m] /\ e \notin late'
                   /\ seqOf'[e] <= seqOf'[m]
                   => e \in DOMAIN pass'.page \/ seqOf'[e] <= cursor'[TableOf[e]]
  BY DEF PageOK
<1>2. CASE cache' = cache /\ cursor' = cursor /\ pass' = pass
  <2>1. /\ CopyOf(pass.page[m], rows'[m]) /\ TableOf[m] = Tables[pass'.table]
        /\ pass'.at = "cursor" => cache'[m] \notin {"none", "local"}
    BY <1>1, <1>2, PageRows DEF PageOK
  <2>q. QED
    BY <1>1, <1>2, <2>1, PageCovers
<1>3. ASSUME NEW c \in Local, Capture(c)
      PROVE  /\ TableOf[m] = Tables[pass'.table] /\ CopyOf(pass'.page[m], rows'[m])
             /\ pass'.at = "cursor" => cache'[m] \notin {"none", "local"}
             /\ \A e \in Event :
                   /\ rows'[e] # "none" /\ TableOf[e] = TableOf[m] /\ e \notin late'
                   /\ seqOf'[e] <= seqOf'[m]
                   => e \in DOMAIN pass'.page \/ seqOf'[e] <= cursor'[TableOf[e]]
  <2>1. /\ outbox[c] = "none" /\ pass' = pass /\ cursor' = cursor
        /\ cache' = [cache EXCEPT ![c] = "local"]
    BY <1>3 DEF Capture
  <2>2. rows[m] # "none" /\ m \in Event /\ CopyOf(pass.page[m], rows'[m])
    BY <1>1, <2>1, PageRows
  <2>3. m # c
    BY <2>1, <2>2 DEF OutboxTellsTruth
  <2>4. cache'[m] = cache[m]
    BY <2>1, <2>2, <2>3 DEF SyncTypeOK, DeviceOK
  <2>5. TableOf[m] = Tables[pass'.table] /\ (pass'.at = "cursor" => cache'[m] \notin {"none", "local"})
    BY <1>1, <2>1, <2>4 DEF PageOK
  <2>q. QED
    BY <1>1, <2>1, <2>2, <2>5, PageCovers
<1>4. CASE PullPage
  <2> DEFINE t == Tables[pass.table]
             page == PageAfter(t, cursor[t])
  <2>1. /\ pass.at = "pull" /\ pass.table <= Len(Tables) /\ rows' = rows /\ seqOf' = seqOf
        /\ cursor' = cursor
        /\ pass' = IF page = {}
                   THEN Pass("pull", <<>>, <<>>, <<>>, pass.table + 1, EmptyPage)
                   ELSE Pass("page", <<>>, <<>>, <<>>, pass.table, [e \in page |-> rows[e]])
    BY <1>4 DEF PullPage, serverVars
  <2>2. t \in Table
    <3>1. pass.table \in 1 .. Len(Tables)
      BY <2>1, SyncAssumption, LenProperties DEF SyncTypeOK, PassOK
    <3>q. QED
      BY <3>1, TableType
  <2>3. cursor[t] \in Nat
    BY <2>2 DEF SyncTypeOK, DeviceOK
  <2>4. page \subseteq {e \in Event : TableOf[e] = t /\ rows[e] # "none" /\ seqOf[e] > cursor[t]}
    BY PageType DEF SyncTypeOK
  <2>5. ASSUME NEW x \in page, NEW e \in Event, rows[e] # "none", TableOf[e] = t,
               seqOf[e] <= seqOf[x]
        PROVE  e \in page \/ seqOf[e] <= cursor[t]
    <3>1. cursor[t] < seqOf[e] \/ seqOf[e] <= cursor[t]
      BY <2>3 DEF SyncTypeOK, RowsOK
    <3>q. QED
      BY <2>3, <2>5, <3>1, PageIsDense
  <2> HIDE DEF page
  <2>6. CASE page = {}
    BY <1>1, <2>1, <2>6, PassFields
  <2>7. CASE page # {}
    <3>1. pass'.at = "page" /\ pass'.table = pass.table /\ pass'.page = [e \in page |-> rows[e]]
      BY <2>1, <2>7, PassFields
    <3>2. m \in page /\ pass'.page[m] = rows'[m] /\ TableOf[m] = t
      BY <1>1, <2>1, <2>4, <3>1
    <3>3. DOMAIN pass'.page = page
      BY <3>1
    <3>q. QED
      BY <2>1, <2>5, <3>1, <3>2, <3>3 DEF CopyOf
  <2>q. QED
    BY <2>6, <2>7
<1>5. CASE ApplyPage
  <2>1. /\ pass.at = "page" /\ pass' = Pass("cursor", <<>>, <<>>, <<>>, pass.table, pass.page)
        /\ cache' = [e \in Event |-> IF e \in DOMAIN pass.page THEN pass.page[e] ELSE cache[e]]
        /\ cursor' = cursor
    BY <1>5 DEF ApplyPage
  <2>2. pass'.table = pass.table /\ pass'.page = pass.page
    BY <2>1, PassFields
  <2>3. /\ m \in Event /\ pass.page[m] \notin {"none", "local"} /\ CopyOf(pass.page[m], rows'[m])
    BY <1>1, <2>1, <2>2, PageRows
  <2>4. cache'[m] = pass.page[m] /\ TableOf[m] = Tables[pass.table]
    BY <1>1, <2>1, <2>2, <2>3 DEF PageOK
  <2>q. QED
    BY <1>1, <2>1, <2>2, <2>3, <2>4, PageCovers
<1>6. CASE SaveCursor
  BY <1>1, <1>6, PassFields DEF SaveCursor
<1>q. QED
  BY <1>1, <1>2, <1>3, <1>4, <1>5, <1>6, PullMoves

LEMMA SkipStep ==
    ASSUME SyncTypeOK, SeqOK, WireTruth, OutboxTellsTruth, CursorOK, PageOK, CursorSkipsOnlyLate,
           [SyncNext]_syncVars
    PROVE  CursorSkipsOnlyLate'
<1>1. SUFFICES ASSUME NEW e \in Event
      PROVE  /\ rows'[e] # "none" /\ seqOf'[e] <= cursor'[TableOf[e]] /\ e \notin late'
                  => cache'[e] \notin {"none", "local"}
             /\ cache'[e] \notin {"none", "local"} => CopyOf(cache'[e], rows'[e])
  BY DEF CursorSkipsOnlyLate, CopyOf
<1> DEFINE Skipped == rows'[e] # "none" /\ seqOf'[e] <= cursor[TableOf[e]] /\ e \notin late'
<1>2. RowGrows(e) /\ TableOf[e] \in Table /\ cursor[TableOf[e]] \in Nat
  BY RowsGrow, EventFacts DEF SyncTypeOK, DeviceOK
<1>3. ASSUME Skipped PROVE rows[e] # "none" /\ cache[e] \notin {"none", "local"}
  <2>1. CASE rows[e] = "none"
    <3>1. /\ seqOf' = seqOf /\ seqOf[e] > 0
          /\ \A f \in Event : rows[f] # "none" /\ TableOf[f] = TableOf[e] => seqOf[f] < seqOf[e]
      BY <1>3, <2>1, CommitsInTime
    <3>2. seqOf[e] \in Nat
      BY DEF SyncTypeOK, RowsOK
    <3>3. cursor[TableOf[e]] # 0
      BY <1>2, <1>3, <3>1, <3>2
    <3>4. PICK f \in Event : rows[f] # "none" /\ TableOf[f] = TableOf[e]
                             /\ cursor[TableOf[e]] = seqOf[f]
      BY <1>2, <3>3 DEF CursorOK
    <3>5. seqOf[f] < seqOf[e] /\ seqOf[e] <= seqOf[f] /\ seqOf[f] \in Nat
      BY <1>3, <3>1, <3>4 DEF SyncTypeOK, RowsOK
    <3>q. QED
      BY <3>2, <3>5
  <2>2. CASE rows[e] # "none"
    <3>1. seqOf'[e] = seqOf[e] /\ e \notin late
      BY <1>3, <2>2, RowsGrow, CommitsInTime
    <3>q. QED
      BY <1>3, <2>2, <3>1 DEF CursorSkipsOnlyLate
  <2>q. QED
    BY <2>1, <2>2
<1>4. cache[e] \notin {"none", "local"} => CopyOf(cache[e], rows'[e])
  <2>1. cache[e] \notin {"none", "local"} => CopyOf(cache[e], rows[e])
    BY DEF CursorSkipsOnlyLate, CopyOf
  <2>q. QED
    BY <1>2, <2>1, CopyKept
<1>5. CASE cache' = cache /\ cursor' = cursor
  BY <1>3, <1>4, <1>5
<1>6. ASSUME NEW c \in Local, Capture(c)
      PROVE  /\ rows'[e] # "none" /\ seqOf'[e] <= cursor'[TableOf[e]] /\ e \notin late'
                  => cache'[e] \notin {"none", "local"}
             /\ cache'[e] \notin {"none", "local"} => CopyOf(cache'[e], rows'[e])
  <2>1. outbox[c] = "none" /\ cursor' = cursor /\ cache' = [cache EXCEPT ![c] = "local"]
    BY <1>6 DEF Capture
  <2>2. CASE e = c
    <3>1. cache'[e] = "local" /\ rows[e] = "none"
      BY <2>1, <2>2 DEF OutboxTellsTruth, SyncTypeOK, DeviceOK
    <3>q. QED
      BY <1>3, <2>1, <3>1
  <2>3. CASE e # c
    <3>1. cache'[e] = cache[e]
      BY <2>1, <2>3 DEF SyncTypeOK, DeviceOK
    <3>q. QED
      BY <1>3, <1>4, <2>1, <3>1
  <2>q. QED
    BY <2>2, <2>3
<1>7. CASE PullPage
  BY <1>5, <1>7 DEF PullPage
<1>8. CASE ApplyPage
  <2>1. /\ pass.at = "page" /\ cursor' = cursor
        /\ cache' = [f \in Event |-> IF f \in DOMAIN pass.page THEN pass.page[f] ELSE cache[f]]
    BY <1>8 DEF ApplyPage
  <2>2. CASE e \in DOMAIN pass.page
    BY <2>1, <2>2, PageRows
  <2>3. CASE e \notin DOMAIN pass.page
    <3>1. cache'[e] = cache[e]
      BY <2>1, <2>3
    <3>q. QED
      BY <1>3, <1>4, <2>1, <3>1
  <2>q. QED
    BY <2>2, <2>3
<1>9. CASE SaveCursor
  <2>1. /\ pass.at = "cursor" /\ rows' = rows /\ seqOf' = seqOf /\ late' = late /\ cache' = cache
        /\ cursor' = [cursor EXCEPT ![Tables[pass.table]] = Max({seqOf[f] : f \in DOMAIN pass.page})]
    BY <1>9 DEF SaveCursor, serverVars
  <2>2. DOMAIN pass.page \in SUBSET Event /\ DOMAIN pass.page # {}
    BY <2>1 DEF SyncTypeOK, PassOK
  <2>3. PICK m \in DOMAIN pass.page : Max({seqOf[f] : f \in DOMAIN pass.page}) = seqOf[m]
    BY <2>2, LastOfPage DEF SyncTypeOK
  <2>4. TableOf[m] = Tables[pass.table]
    BY <2>1 DEF PageOK
  <2>5. CASE TableOf[e] = TableOf[m]
    <3>1. cursor'[TableOf[e]] = seqOf[m]
      BY <1>2, <2>1, <2>3, <2>4, <2>5 DEF SyncTypeOK, DeviceOK
    <3>2. ASSUME rows'[e] # "none", seqOf'[e] <= cursor'[TableOf[e]], e \notin late'
          PROVE  cache'[e] \notin {"none", "local"}
      <4>1. e \in DOMAIN pass.page \/ seqOf[e] <= cursor[TableOf[e]]
        BY <2>1, <2>5, <3>1, <3>2 DEF PageOK
      <4>2. CASE e \in DOMAIN pass.page
        BY <2>1, <4>2 DEF PageOK
      <4>3. CASE seqOf[e] <= cursor[TableOf[e]]
        BY <1>3, <2>1, <3>2, <4>3
      <4>q. QED
        BY <4>1, <4>2, <4>3
    <3>q. QED
      BY <1>4, <2>1, <3>2
  <2>6. CASE TableOf[e] # TableOf[m]
    <3>1. cursor'[TableOf[e]] = cursor[TableOf[e]]
      BY <1>2, <2>1, <2>4, <2>6 DEF SyncTypeOK, DeviceOK
    <3>q. QED
      BY <1>3, <1>4, <2>1, <3>1
  <2>q. QED
    BY <2>5, <2>6
<1>q. QED
  BY <1>5, <1>6, <1>7, <1>8, <1>9, PullMoves

--------------------------------------------------------------------------------
(* The theorems. *)

LEMMA SyncInvInit == SyncInit => SyncInv
<1> SUFFICES ASSUME SyncInit PROVE SyncInv
  OBVIOUS
<1>1. SyncTypeOK
  BY SyncTypeInit
<1>2. /\ pass.at = "idle" /\ pass.batch = <<>> /\ pass.results = <<>>
  BY PassFields DEF SyncInit, NoPass
<1>3. ToSet(<<>>) = {}
  BY DEF ToSet
<1>4. SeqOK
  <2>1. {e \in Event : seqOf[e] > 0} = {}
    BY DEF SyncInit
  <2>2. IsFiniteSet({e \in Event : seqOf[e] > 0})
    BY <2>1, FS_EmptySet
  <2>3. /\ \A e \in Event : seqOf[e] = 0 /\ rows[e] = "none"
        /\ open = {}
    BY DEF SyncInit
  <2>q. QED
    BY <2>2, <2>3 DEF SeqOK
<1>5. WireTruth /\ WaitOK
  BY DEF SyncInit, WireTruth, WaitOK
<1>6. PassTruth /\ PageOK
  BY <1>2, <1>3 DEF PassTruth, PageOK
<1>7. OutboxTellsTruth /\ CursorOK /\ CursorSkipsOnlyLate
  BY EventFacts DEF SyncInit, OutboxTellsTruth, CursorOK, CursorSkipsOnlyLate
<1>q. QED
  BY <1>1, <1>4, <1>5, <1>6, <1>7 DEF SyncInv

LEMMA SyncInvStep == SyncInv /\ [SyncNext]_syncVars => SyncInv'
<1> SUFFICES ASSUME SyncInv, [SyncNext]_syncVars PROVE SyncInv'
  OBVIOUS
<1>1. /\ SyncTypeOK /\ SeqOK /\ WireTruth /\ PassTruth /\ WaitOK
      /\ OutboxTellsTruth /\ CursorOK /\ PageOK /\ CursorSkipsOnlyLate
  BY DEF SyncInv
<1>2. SyncTypeOK' /\ SeqOK' /\ WireTruth' /\ PassTruth' /\ WaitOK'
  BY <1>1, SyncTypeStep, SeqStep, WireTruthStep, PassTruthStep, WaitStep
<1>3. OutboxTellsTruth' /\ CursorOK' /\ PageOK' /\ CursorSkipsOnlyLate'
  BY <1>1, OutboxStep, CursorStep, PageStep, SkipStep
<1>q. QED
  BY <1>2, <1>3 DEF SyncInv

\* What the outbox says of an event is what became of it, through lost
\* answers, kills, replays and requests that outlive their connection.
THEOREM OutboxIsTruthful == SyncSpec => []OutboxTellsTruth
<1>1. SyncInv => OutboxTellsTruth
  BY DEF SyncInv
<1>q. QED
  BY <1>1, SyncInvInit, SyncInvStep, PTL DEF SyncSpec

\* The cursor of a service's table skips no row except one that committed
\* after a row with a higher sync_seq, and the cache holds nothing the
\* service does not have or never had.
THEOREM CursorIsSafe == SyncSpec => []CursorSkipsOnlyLate
<1>1. SyncInv => CursorSkipsOnlyLate
  BY DEF SyncInv
<1>q. QED
  BY <1>1, SyncInvInit, SyncInvStep, PTL DEF SyncSpec
================================================================================
