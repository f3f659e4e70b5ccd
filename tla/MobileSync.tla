------------------------------ MODULE MobileSync ------------------------------
(***************************************************************************)
(* The offline-first client and its Sync Gateways: one device captures     *)
(* events into its outbox, a sync pass pushes them to the services that    *)
(* own them and then pulls each service's table into the local cache.      *)
(*                                                                         *)
(* The device may be killed at any point, a request may be lost, fail or   *)
(* outlive the connection that sent it, and other devices write to the     *)
(* same tables.  A service is named by its table.  sync_seq is a bigserial *)
(* column: the number is drawn when the row is inserted, the row is seen   *)
(* when its transaction commits, and no UPDATE draws a new one.            *)
(***************************************************************************)
EXTENDS Integers, Sequences, FiniteSetsExt, SequencesExt, Collections

CONSTANTS Local,        \* client event ids captured on this device
          Remote,       \* rows other devices write
          Tables,       \* the sequence of tables a pass pulls, one per service
          TableOf,      \* the table, so the service, an event belongs to
          Invalid,      \* events the gateway rejects (payload or entity type)
          Poison,       \* events whose handler throws whenever it runs
          BatchSize,    \* events per push (50)
          PageSize,     \* rows per pulled page (200)
          MaxFaults     \* bound: failures of the network, a service or the app

Event == Local \cup Remote
Table == ToSet(Tables)

ASSUME SyncAssumption ==
    /\ Local \cap Remote = {} /\ Tables \in Seq(Table)
    /\ TableOf \in [Event -> Table]
    /\ Invalid \cup Poison \subseteq Local
    /\ BatchSize \in Nat \ {0} /\ PageSize \in Nat \ {0}
    /\ MaxFaults \in Nat

VARIABLES
    outbox,     \* sync_status of an event's outbox row, "none" before capture
    captured,   \* the outbox rows by created_at
    pass,       \* the sync pass in progress: see Passes
    wire,       \* push requests the services have not finished
    rows,       \* an event's row on its service, "none" when not committed
    seqOf,      \* sync_seq drawn for an event's row
    open,       \* events whose INSERT is in an open transaction
    nextSeq,    \* next value of the sequence
    cache,      \* the local cache's copy of an event's row
    cursor,     \* SyncCursors: last_synced_cursor per table
    stranded,   \* history: events in flight when the app was killed
    late,       \* history: rows committed after a row with a higher sync_seq
    faults      \* faults so far, bounded by MaxFaults

deviceVars == <<outbox, captured, pass, cache, cursor, stranded>>
serverVars == <<rows, seqOf, open, nextSeq, late>>
syncVars == <<outbox, captured, pass, cache, cursor, stranded, wire,
              rows, seqOf, open, nextSeq, late, faults>>

Answers == {"ACKED", "REJECTED", "NEEDS_REVIEW"}

\* A pass: batch holds the events still to be sent, group those of the
\* request it waits for, results those it has not recorded yet; table is the
\* table it pulls, page the rows it fetched.
Pass(step, b, g, res, t, p) ==
    [at |-> step, batch |-> b, group |-> g, results |-> res, table |-> t, page |-> p]
EmptyPage == [e \in {} |-> "none"]
NoPass == Pass("idle", <<>>, <<>>, <<>>, 1, EmptyPage)

\* A request: the events its handler has not answered yet, the answers so
\* far, whether a transaction is open for the first of the events, whether
\* the device still waits, and whether it ended in an error.
Request(ev, res, b, w, f) ==
    [events |-> ev, results |-> res, busy |-> b, waiting |-> w, failed |-> f]

Requests == [events : Seq(Local), results : Seq(Local \X Answers),
             busy : BOOLEAN, waiting : BOOLEAN, failed : BOOLEAN]

DeviceOK ==
    /\ outbox \in [Local -> {"none", "PENDING", "IN_FLIGHT"} \cup Answers]
    /\ captured \in Seq(Local) /\ stranded \subseteq Local
    /\ cache \in [Event -> {"none", "local", "APPLIED", "REVISED", "NEEDS_REVIEW"}]
    /\ cursor \in [Table -> Nat]
PassOK ==
    /\ pass.at \in {"idle", "send", "await", "apply", "pull", "page", "cursor"}
    /\ pass.batch \in Seq(Local) /\ pass.group \in Seq(Local)
    /\ pass.results \in Seq(Local \X Answers)
    /\ pass.table \in 1 .. Len(Tables) + 1 /\ DOMAIN pass.page \subseteq Event
    /\ \A e \in DOMAIN pass.page : pass.page[e] \in {"APPLIED", "REVISED", "NEEDS_REVIEW"}
    /\ pass.at \in {"page", "cursor"} => pass.table <= Len(Tables) /\ DOMAIN pass.page # {}
WireOK == wire \subseteq Requests /\ \A r \in wire : r.busy => r.events # <<>> /\ ~r.failed
RowsOK ==
    /\ rows \in [Event -> {"none", "APPLIED", "REVISED", "NEEDS_REVIEW"}]
    /\ seqOf \in [Event -> Nat] /\ nextSeq \in Nat \ {0}
    /\ \A e \in Event : seqOf[e] < nextSeq
    /\ open \subseteq Event /\ late \subseteq Event

SyncTypeOK == DeviceOK /\ PassOK /\ WireOK /\ RowsOK /\ faults \in Nat

SyncInit ==
    /\ outbox = [e \in Local |-> "none"] /\ captured = <<>>
    /\ pass = NoPass /\ wire = {}
    /\ rows = [e \in Event |-> "none"]
    /\ seqOf = [e \in Event |-> 0] /\ open = {} /\ nextSeq = 1
    /\ cache = [e \in Event |-> "none"]
    /\ cursor = [t \in Table |-> 0]
    /\ stranded = {} /\ late = {}
    /\ faults = 0

Fault == faults < MaxFaults /\ faults' = faults + 1

SetOutbox(S, s) == [e \in Local |-> IF e \in S THEN s ELSE outbox[e]]

(***************************************************************************)
(* The device: capture and the push half of a pass.                        *)
(***************************************************************************)

\* captureGoodsReceipt and its siblings: the local row and the outbox row in
\* one local transaction.
Capture(e) ==
    /\ outbox[e] = "none"
    /\ outbox' = [outbox EXCEPT ![e] = "PENDING"]
    /\ captured' = Append(captured, e)
    /\ cache' = [cache EXCEPT ![e] = "local"]
    /\ UNCHANGED <<pass, cursor, stranded, wire, serverVars, faults>>

\* syncNow while no pass runs: the oldest PENDING rows become IN_FLIGHT.
StartSync ==
    LET pending == Keep(captured, {e \in Local : outbox[e] = "PENDING"})
        taken == SubSeq(pending, 1, Min({BatchSize, Len(pending)}))
    IN  /\ pass.at = "idle"
        /\ outbox' = SetOutbox(ToSet(taken), "IN_FLIGHT")
        /\ pass' = Pass("send", taken, <<>>, <<>>, 1, EmptyPage)
        /\ UNCHANGED <<captured, cache, cursor, stranded, wire, serverVars, faults>>

\* One request per service, in the order of each service's first event.
SendGroup ==
    LET t == TableOf[Head(pass.batch)]
        group == Keep(pass.batch, {e \in Local : TableOf[e] = t})
        rest == Keep(pass.batch, {e \in Local : TableOf[e] # t})
    IN  /\ pass.at = "send" /\ pass.batch # <<>>
        /\ wire' = wire \cup {Request(group, <<>>, FALSE, TRUE, FALSE)}
        /\ pass' = Pass("await", rest, group, <<>>, 1, EmptyPage)
        /\ UNCHANGED <<outbox, captured, cache, cursor, stranded, serverVars, faults>>

\* The results arrive, to be recorded one row at a time.
ReceiveResults(r) ==
    /\ pass.at = "await" /\ r.waiting /\ ~r.failed /\ r.events = <<>>
    /\ wire' = wire \ {r}
    /\ pass' = Pass("apply", pass.batch, pass.group, r.results, 1, EmptyPage)
    /\ UNCHANGED <<outbox, captured, cache, cursor, stranded, serverVars, faults>>

RecordResult ==
    /\ pass.at = "apply"
    /\ IF pass.results = <<>>
       THEN /\ pass' = Pass("send", pass.batch, <<>>, <<>>, 1, EmptyPage)
            /\ UNCHANGED outbox
       ELSE /\ outbox' = [outbox EXCEPT ![Head(pass.results)[1]] = Head(pass.results)[2]]
            /\ pass' = Pass("apply", pass.batch, pass.group, Tail(pass.results), 1, EmptyPage)
    /\ UNCHANGED <<captured, cache, cursor, stranded, wire, serverVars, faults>>

\* Mutant of RevertGroup: the failed group is left in flight.
RevertNothing ==
    /\ pass' = Pass("send", pass.batch, <<>>, <<>>, 1, EmptyPage)
    /\ UNCHANGED outbox

\* syncPush throws: the whole group is PENDING again, the next group goes on.
RevertGroup ==
    /\ outbox' = SetOutbox(ToSet(pass.group), "PENDING")
    /\ pass' = Pass("send", pass.batch, <<>>, <<>>, 1, EmptyPage)

ReceiveError(r) ==
    /\ pass.at = "await" /\ r.waiting /\ r.failed
    /\ wire' = wire \ {r}
    /\ RevertGroup
    /\ UNCHANGED <<captured, cache, cursor, stranded, serverVars, faults>>

Abandoned(r) == Request(r.events, r.results, r.busy, FALSE, FALSE)
\* The service goes on with a request nobody waits for, unless it had failed
\* or was never received (then it is as if it never ran).
Abandon(r) ==
    \/ wire' = wire \ {r} /\ ~r.busy
    \/ wire' = (wire \ {r}) \cup {Abandoned(r)} /\ ~r.failed /\ \A q \in wire : q.waiting

\* The connection breaks while the device waits for the answer.
LoseConnection(r) ==
    /\ Fault
    /\ pass.at = "await" /\ r.waiting
    /\ Abandon(r)
    /\ RevertGroup
    /\ UNCHANGED <<captured, cache, cursor, stranded, serverVars>>

\* The operating system kills the app.
Kill ==
    /\ Fault
    /\ stranded' = stranded \cup {e \in Local : outbox[e] = "IN_FLIGHT"}
    /\ pass' = NoPass
    /\ IF \E r \in wire : r.waiting
       THEN \E r \in wire : r.waiting /\ Abandon(r)
       ELSE UNCHANGED wire
    /\ UNCHANGED <<outbox, captured, cache, cursor, serverVars>>

(***************************************************************************)
(* The services: SyncService.push, one event after the other.              *)
(***************************************************************************)
Next1(r) == Head(r.events)
\* Mutants of AnswerOf: a replay answered with the row's own status, or as if
\* every row had been applied.
AnswerRaw(row) == row
AnswerAcked(row) == "ACKED"
AnswerOf(row) == IF row = "NEEDS_REVIEW" THEN "NEEDS_REVIEW" ELSE "ACKED"
Replace(r, q) == wire' = (wire \ {r}) \cup {q}

Answered(r, a) ==
    Replace(r, Request(Tail(r.events), Append(r.results, <<Next1(r), a>>),
                       FALSE, r.waiting, FALSE))

CanHandle(r) == ~r.failed /\ r.events # <<>> /\ ~r.busy

\* INVALID_PAYLOAD, UNSUPPORTED_ENTITY_TYPE.
HandleInvalid(r) ==
    /\ CanHandle(r) /\ Next1(r) \in Invalid
    /\ Answered(r, "REJECTED")
    /\ UNCHANGED <<deviceVars, serverVars, faults>>

\* The clientEventId is known.
HandleReplay(r) ==
    /\ CanHandle(r) /\ Next1(r) \notin Invalid /\ rows[Next1(r)] # "none"
    /\ Answered(r, AnswerOf(rows[Next1(r)]))
    /\ UNCHANGED <<deviceVars, serverVars, faults>>

\* A row is inserted: its sync_seq is drawn; nobody sees it yet.
Draw(e) ==
    /\ rows[e] = "none" /\ e \notin open
    /\ open' = open \cup {e}
    /\ seqOf' = [seqOf EXCEPT ![e] = nextSeq]
    /\ nextSeq' = nextSeq + 1
    /\ UNCHANGED <<rows, late>>

\* Its transaction commits.
CommitRow(e, status) ==
    /\ open' = open \ {e}
    /\ rows' = [rows EXCEPT ![e] = status]
    /\ late' = IF \E f \in Event : /\ rows[f] # "none" /\ TableOf[f] = TableOf[e]
                                   /\ seqOf[f] > seqOf[e]
               THEN late \cup {e} ELSE late
    /\ UNCHANGED <<seqOf, nextSeq>>

HandleInsert(r) ==
    /\ CanHandle(r) /\ Next1(r) \notin Invalid \cup Poison
    /\ Draw(Next1(r))
    /\ Replace(r, Request(r.events, r.results, TRUE, r.waiting, FALSE))
    /\ UNCHANGED <<deviceVars, faults>>

HandleCommit(r, status) ==
    /\ r.busy
    /\ CommitRow(Next1(r), status)
    /\ Answered(r, AnswerOf(status))
    /\ UNCHANGED <<deviceVars, faults>>

\* An exception ends the whole request; what it committed stays.
EndInError(r) ==
    /\ wire' = (wire \ {r}) \cup
               IF r.waiting THEN {Request(r.events, <<>>, FALSE, TRUE, TRUE)} ELSE {}
    /\ open' = IF r.busy THEN open \ {Next1(r)} ELSE open
    /\ UNCHANGED <<rows, seqOf, nextSeq, late>>

\* The handler throws for a poisoned event, or because the transaction of an
\* earlier request for the same event was still open when it looked and has
\* inserted the clientEventId first.
HandleThrows(r) ==
    /\ CanHandle(r) /\ Next1(r) \notin Invalid
    /\ (Next1(r) \in Poison) \/ (Next1(r) \in open)
    /\ EndInError(r)
    /\ UNCHANGED <<deviceVars, faults>>

\* The service or its database fails.
ServiceFails(r) ==
    /\ Fault
    /\ ~r.failed /\ r.events # <<>>
    /\ EndInError(r)
    /\ UNCHANGED <<deviceVars>>

\* Nobody waits for the answer of an abandoned request.
Forget(r) ==
    /\ ~r.waiting /\ r.events = <<>>
    /\ wire' = wire \ {r}
    /\ UNCHANGED <<deviceVars, serverVars, faults>>

Serve(r) ==
    \/ HandleInvalid(r) \/ HandleReplay(r) \/ HandleInsert(r) \/ HandleThrows(r)
    \/ \E status \in {"APPLIED", "NEEDS_REVIEW"} : HandleCommit(r, status)
    \/ Forget(r)

\* Other devices' rows.
RemoteInsert(e) ==
    /\ Draw(e)
    /\ UNCHANGED <<deviceVars, wire, faults>>
RemoteCommit(e) ==
    /\ e \in open
    /\ CommitRow(e, "APPLIED")
    /\ UNCHANGED <<deviceVars, wire, faults>>

\* A committed row is updated later: posting_status, verified_flag,
\* batch_status.
Revise(e) ==
    /\ rows[e] = "APPLIED"
    /\ rows' = [rows EXCEPT ![e] = "REVISED"]
    /\ UNCHANGED <<deviceVars, wire, seqOf, open, nextSeq, late, faults>>

(***************************************************************************)
(* The pull half of a pass.                                                *)
(***************************************************************************)
StartPull ==
    /\ pass.at = "send" /\ pass.batch = <<>>
    /\ pass' = Pass("pull", <<>>, <<>>, <<>>, 1, EmptyPage)
    /\ UNCHANGED <<outbox, captured, cache, cursor, stranded, wire, serverVars, faults>>

\* Mutant of PageAfter: ORDER BY sync_seq DESC.
PageFromTheEnd(t, since) ==
    LET newer == {e \in Event : TableOf[e] = t /\ rows[e] # "none" /\ seqOf[e] > since}
    IN  {e \in newer : Cardinality({f \in newer : seqOf[f] > seqOf[e]}) < PageSize}

\* SELECT ... WHERE sync_seq > since ORDER BY sync_seq LIMIT n
PageAfter(t, since) ==
    LET newer == {e \in Event : TableOf[e] = t /\ rows[e] # "none" /\ seqOf[e] > since}
    IN  {e \in newer : Cardinality({f \in newer : seqOf[f] < seqOf[e]}) < PageSize}

PullPage ==
    LET t == Tables[pass.table]
        page == PageAfter(t, cursor[t])
    IN  /\ pass.at = "pull" /\ pass.table <= Len(Tables)
        /\ pass' = IF page = {}
                   THEN Pass("pull", <<>>, <<>>, <<>>, pass.table + 1, EmptyPage)
                   ELSE Pass("page", <<>>, <<>>, <<>>, pass.table, [e \in page |-> rows[e]])
        /\ UNCHANGED <<outbox, captured, cache, cursor, stranded, wire, serverVars, faults>>

\* _apply...Page: insertOrReplace, the server's copy wins.
ApplyPage ==
    /\ pass.at = "page"
    /\ cache' = [e \in Event |-> IF e \in DOMAIN pass.page THEN pass.page[e] ELSE cache[e]]
    /\ pass' = Pass("cursor", <<>>, <<>>, <<>>, pass.table, pass.page)
    /\ UNCHANGED <<outbox, captured, cursor, stranded, wire, serverVars, faults>>

\* nextCursor is the highest sync_seq of the page; a short page is the last.
SaveCursor ==
    LET page == DOMAIN pass.page
        isLast == Cardinality(page) < PageSize
    IN  /\ pass.at = "cursor"
        /\ cursor' = [cursor EXCEPT ![Tables[pass.table]] = Max({seqOf[e] : e \in page})]
        /\ pass' = Pass("pull", <<>>, <<>>, <<>>,
                        IF isLast THEN pass.table + 1 ELSE pass.table, EmptyPage)
        /\ UNCHANGED <<outbox, captured, cache, stranded, wire, serverVars, faults>>

EndPass ==
    /\ pass.at = "pull" /\ pass.table > Len(Tables)
    /\ pass' = NoPass
    /\ UNCHANGED <<outbox, captured, cache, cursor, stranded, wire, serverVars, faults>>

\* syncPull throws: syncNow swallows the exception and the pass is over.
PullFails ==
    /\ Fault
    /\ pass.at = "pull"
    /\ pass' = NoPass
    /\ UNCHANGED <<outbox, captured, cache, cursor, stranded, wire, serverVars>>

Proceed ==
    \/ SendGroup \/ RecordResult \/ StartPull \/ PullPage \/ ApplyPage \/ SaveCursor
    \/ EndPass
    \/ \E r \in wire : ReceiveResults(r) \/ ReceiveError(r)

SyncNext ==
    \/ \E e \in Local : Capture(e)
    \/ StartSync \/ Proceed
    \/ \E r \in wire : Serve(r) \/ ServiceFails(r) \/ LoseConnection(r)
    \/ Kill \/ PullFails
    \/ \E e \in Remote : RemoteInsert(e) \/ RemoteCommit(e)
    \/ \E e \in Event : Revise(e)

SyncSpec == SyncInit /\ [][SyncNext]_syncVars

\* A trigger for a pass always comes again (connectivity regained, the sync
\* button, the pass after each capture), a pass that started goes on, and a
\* service goes on with the request a device waits for and with the abandoned
\* one, which are requests of their own to it.
FairSync ==
    /\ SyncSpec
    /\ WF_syncVars(StartSync) /\ WF_syncVars(Proceed)
    /\ WF_syncVars(\E r \in wire : r.waiting /\ Serve(r))
    /\ WF_syncVars(\E r \in wire : ~r.waiting /\ Serve(r))

--------------------------------------------------------------------------------
(***************************************************************************)
(* Properties.                                                             *)
(***************************************************************************)

HeldByPass(e) ==
    /\ pass.at \in {"send", "await", "apply"}
    /\ \/ e \in ToSet(pass.batch)
       \/ pass.at = "await" /\ e \in ToSet(pass.group)
       \/ pass.at = "apply" /\ \E p \in ToSet(pass.results) : p[1] = e

\* What the outbox says of an event is what became of it: acknowledged or
\* under review exactly as its row is, rejected only without a row, in flight
\* only while a pass holds it or the app was killed while one did; through
\* lost answers, replays and requests that outlive their connection.
OutboxTellsTruth ==
    \A e \in Local :
        /\ outbox[e] = "ACKED" => rows[e] \in {"APPLIED", "REVISED"}
        /\ outbox[e] = "NEEDS_REVIEW" => rows[e] = "NEEDS_REVIEW"
        /\ outbox[e] = "REJECTED" => e \in Invalid
        /\ outbox[e] = "none" \/ e \in Invalid => rows[e] = "none"
        /\ outbox[e] = "IN_FLIGHT" => e \in stranded \/ HeldByPass(e)

\* The cursor skips no row except one that committed after a row with a
\* higher sync_seq, and the cache holds no row and no status the service
\* does not have or never had.
CursorSkipsOnlyLate ==
    \A e \in Event :
        /\ rows[e] # "none" /\ seqOf[e] <= cursor[TableOf[e]] /\ e \notin late
             => cache[e] \notin {"none", "local"}
        /\ cache[e] \notin {"none", "local"}
             => cache[e] = rows[e] \/ (cache[e] = "APPLIED" /\ rows[e] = "REVISED")

\* A captured event is answered, unless the app was killed while it was in
\* flight or its service has an event captured that makes its handler throw.
CapturedIsAnswered ==
    \A e \in Local : outbox[e] = "PENDING" ~>
        \/ outbox[e] \in Answers
        \/ e \in stranded
        \/ \E f \in Poison : TableOf[f] = TableOf[e] /\ outbox[f] # "none"

\* What the protocol promises (SDD.md 204-207): a retried push is a no-op
\* and a device replays its full outbox on reconnect.
OutboxIsReplayed ==
    \A e \in Local \ Poison : outbox[e] = "PENDING" ~> outbox[e] \in Answers
================================================================================
