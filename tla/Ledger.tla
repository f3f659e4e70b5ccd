-------------------------------- MODULE Ledger --------------------------------
(***************************************************************************)
(* ledger-service: the consumer group of the topic erp.events and the      *)
(* posting engine that turns an event into one balanced journal entry, or  *)
(* records it for review.                                                  *)
(*                                                                         *)
(* The topic has one partition.  The partition moves while instances are   *)
(* handling messages: one that lost it goes on with its message and sends  *)
(* the commit under whatever generation of the group it is in by then.     *)
(* Instances crash and start again from the committed offset; producers    *)
(* may send an event twice.  The entry, its two lines and its              *)
(* integration_queue row are one transaction, so only its start (which     *)
(* takes the unique key) and its end are steps.                            *)
(***************************************************************************)
EXTENDS Integers, Sequences

CONSTANTS Event,        \* event ids
          Class,        \* what the engine makes of an event: see Classes
          Instance,     \* instances of ledger-service
          NoOne,        \* not an instance
          Connected,    \* finance_connector_type # 'NONE'
          MaxMessages,  \* bound: messages ever published
          MaxFaults     \* bound: crashes, rebalances and failed calls over a behaviour

\* "posted" has an active rule and a positive amount.  "unposted" has no
\* rule, or no positive amount.  "refused" has both, but a line the database
\* rejects: an amount that numeric(14,2) rounds to zero or cannot hold, a
\* plant that is no uuid.  "malformed" is no JSON object.
Classes == {"posted", "unposted", "refused", "malformed"}

ASSUME LedgerAssumption ==
    /\ Class \in [Event -> Classes]
    /\ NoOne \notin Instance
    /\ Connected \in BOOLEAN
    /\ MaxMessages \in Nat /\ MaxFaults \in Nat

VARIABLES
    topic,      \* the partition's messages
    committed,  \* the group's committed offset: messages 1 .. committed
    owner,      \* the instance the partition is assigned to
    position,   \* the message the owner's reader delivers next
    instance,   \* what an instance does, with the message at pos in hand
    entries,    \* journal_entries with source_event_id = the event
    lines,      \* journal_lines of the event's entries
    open,       \* the instance whose uncommitted entry holds the event's key
    refusals,   \* integration_queue rows the engine wrote as FAILED, per event
    queued,     \* events whose entry has a PENDING integration_queue row
    reviews,    \* failed_posting_review rows, per event
    errored,    \* history: offsets whose handling ended in a logged error
    faults      \* faults so far, bounded by MaxFaults

bookVars == <<entries, lines, open, refusals, queued, reviews>>
groupVars == <<topic, committed, owner, position>>
ledgerVars == <<topic, committed, owner, position, instance, entries, lines, open,
                refusals, queued, reviews, errored, faults>>

Doing(a, p) == [at |-> a, pos |-> p]
Waiting == Doing("fetch", 0)

Steps == {"fetch", "handle", "entry", "review", "commit"}

\* An instance has a message in hand unless it waits for one.
InstancesOK ==
    /\ instance \in [Instance -> [at : Steps, pos : Nat]]
    /\ \A w \in Instance :
         IF instance[w].at = "fetch" THEN instance[w].pos = 0
         ELSE instance[w].pos \in 1 .. Len(topic)

BooksOK ==
    /\ entries \in [Event -> Nat] /\ lines \in [Event -> Seq({"debit", "credit"})]
    /\ open \in [Event -> Instance \cup {NoOne}]
    /\ refusals \in [Event -> Nat] /\ reviews \in [Event -> Nat]
    /\ queued \subseteq Event

LedgerTypeOK ==
    /\ topic \in Seq(Event) /\ committed \in 0 .. Len(topic)
    /\ owner \in Instance \cup {NoOne} /\ position \in 1 .. Len(topic) + 1
    /\ errored \subseteq 1 .. Len(topic) /\ faults \in Nat
    /\ InstancesOK /\ BooksOK

LedgerInit ==
    /\ topic = <<>> /\ committed = 0 /\ owner = NoOne /\ position = 1
    /\ instance = [w \in Instance |-> Waiting]
    /\ entries = [e \in Event |-> 0] /\ lines = [e \in Event |-> <<>>]
    /\ open = [e \in Event |-> NoOne]
    /\ queued = {}
    /\ refusals = [e \in Event |-> 0] /\ reviews = [e \in Event |-> 0]
    /\ errored = {} /\ faults = 0

Fault == faults < MaxFaults /\ faults' = faults + 1
Message(w) == topic[instance[w].pos]
Become(w, a) == instance' = [instance EXCEPT ![w] = Doing(a, instance[w].pos)]

(***************************************************************************)
(* The topic and the consumer group.                                       *)
(***************************************************************************)

\* A producer announces an event, for the first time or again.
Publish(e) ==
    /\ Len(topic) < MaxMessages
    /\ topic' = Append(topic, e)
    /\ UNCHANGED <<committed, owner, position, instance, bookVars, errored, faults>>

\* Mutant of Take: without a committed offset a reader starts at the end.
TakeLatest(w) ==
    /\ owner' = w
    /\ position' = IF committed = 0 THEN Len(topic) + 1 ELSE committed + 1
    /\ UNCHANGED <<topic, committed, instance, bookVars, errored>>

\* An instance gets the partition, whatever it has in hand, and its reader
\* starts at the committed offset.
Take(w) ==
    /\ owner' = w
    /\ position' = committed + 1
    /\ UNCHANGED <<topic, committed, instance, bookVars, errored>>

Assign(w) == owner = NoOne /\ Take(w) /\ UNCHANGED faults
\* A new generation of the group, after late heartbeats or a new member.
Rebalance(w) == Fault /\ owner # NoOne /\ Take(w)

\* Mutant of FetchMessage: ReadMessage, which commits as it fetches.
ReadMessage(w) ==
    /\ owner = w /\ instance[w].at = "fetch"
    /\ position <= Len(topic)
    /\ instance' = [instance EXCEPT ![w] = Doing("handle", position)]
    /\ position' = position + 1 /\ committed' = position
    /\ UNCHANGED <<topic, owner, bookVars, errored, faults>>

FetchMessage(w) ==
    /\ owner = w /\ instance[w].at = "fetch"
    /\ position <= Len(topic)
    /\ instance' = [instance EXCEPT ![w] = Doing("handle", position)]
    /\ position' = position + 1
    /\ UNCHANGED <<topic, committed, owner, bookVars, errored, faults>>

\* Mutant of CommitMessages: the offset after the message's.
CommitNext(w) ==
    /\ instance[w].at = "commit"
    /\ instance' = [instance EXCEPT ![w] = Waiting]
    /\ committed' = instance[w].pos + 1
    /\ UNCHANGED <<topic, owner, position, bookVars, errored, faults>>

\* The reader sends the offset under the generation its instance is in by
\* now, and the broker does not ask whose the partition is: the commit of an
\* instance that lost the partition assigns the offset too, also backwards.
\* It is refused if it was sent before the instance joined again.
CommitMessages(w) ==
    /\ instance[w].at = "commit"
    /\ instance' = [instance EXCEPT ![w] = Waiting]
    /\ \/ committed' = instance[w].pos
       \/ owner # w /\ UNCHANGED committed
    /\ UNCHANGED <<topic, owner, position, bookVars, errored, faults>>

\* A commit that fails is logged; the next one covers it.
CommitFails(w) ==
    /\ Fault
    /\ instance[w].at = "commit"
    /\ instance' = [instance EXCEPT ![w] = Waiting]
    /\ UNCHANGED <<groupVars, bookVars, errored>>

RollBack(w) == open' = [e \in Event |-> IF open[e] = w THEN NoOne ELSE open[e]]

Crash(w) ==
    /\ Fault
    /\ instance[w].at # "fetch"
    /\ instance' = [instance EXCEPT ![w] = Waiting]
    /\ owner' = IF owner = w THEN NoOne ELSE owner
    /\ RollBack(w)
    /\ UNCHANGED <<topic, committed, position, entries, lines, refusals, queued, reviews, errored>>

(***************************************************************************)
(* PostingEngine.Handle.                                                   *)
(***************************************************************************)
Handling(w, class) == instance[w].at = "handle" /\ Class[Message(w)] = class

\* Handle returned an error: it is logged and the offset is committed.
LogAndContinue(w) ==
    /\ Become(w, "commit")
    /\ errored' = errored \cup {instance[w].pos}
    /\ UNCHANGED groupVars

HandleMalformed(w) ==
    /\ Handling(w, "malformed")
    /\ LogAndContinue(w)
    /\ UNCHANGED <<bookVars, faults>>

\* recordFailure: two statements, each on its own.
RecordRefusal(w) ==
    /\ Handling(w, "unposted")
    /\ refusals' = [refusals EXCEPT ![Message(w)] = @ + 1]
    /\ Become(w, "review")
    /\ UNCHANGED <<groupVars, entries, lines, open, queued, reviews, errored, faults>>

RecordReview(w) ==
    /\ instance[w].at = "review"
    /\ reviews' = [reviews EXCEPT ![Message(w)] = @ + 1]
    /\ Become(w, "commit")
    /\ UNCHANGED <<groupVars, entries, lines, open, refusals, queued, errored, faults>>

\* ON CONFLICT DO NOTHING finds the event's entry.
SkipPosted(w) ==
    /\ instance[w].at = "handle" /\ Class[Message(w)] \in {"posted", "refused"}
    /\ entries[Message(w)] > 0
    /\ Become(w, "commit")
    /\ UNCHANGED <<groupVars, bookVars, errored, faults>>

\* Mutant of InsertEntry: no UNIQUE (tenant_id, source_event_id), so nothing
\* conflicts and no insert waits for another.
InsertUnchecked(w) ==
    /\ instance[w].at = "handle" /\ Class[Message(w)] \in {"posted", "refused"}
    /\ open' = [open EXCEPT ![Message(w)] = w]
    /\ Become(w, "entry")
    /\ UNCHANGED <<groupVars, entries, lines, refusals, queued, reviews, errored, faults>>

\* The insert takes the event's key; one that meets an uncommitted insert of
\* the same key waits until that transaction ends.
InsertEntry(w) ==
    /\ instance[w].at = "handle" /\ Class[Message(w)] \in {"posted", "refused"}
    /\ entries[Message(w)] = 0 /\ open[Message(w)] = NoOne
    /\ open' = [open EXCEPT ![Message(w)] = w]
    /\ Become(w, "entry")
    /\ UNCHANGED <<groupVars, entries, lines, refusals, queued, reviews, errored, faults>>

\* Both lines are inserted, enqueueForFinanceConnector queues the entry, and
\* the transaction commits.
CommitEntry(w) ==
    LET e == Message(w)
    IN  /\ instance[w].at = "entry" /\ Class[e] = "posted"
        /\ entries' = [entries EXCEPT ![e] = @ + 1]
        /\ lines' = [lines EXCEPT ![e] = @ \o <<"debit", "credit">>]
        /\ queued' = IF Connected THEN queued \cup {e} ELSE queued
        /\ open' = [open EXCEPT ![e] = NoOne]
        /\ Become(w, "commit")
        /\ UNCHANGED <<groupVars, refusals, reviews, errored, faults>>

RefuseLine(w) ==
    /\ instance[w].at = "entry" /\ Class[Message(w)] = "refused"
    /\ RollBack(w)
    /\ LogAndContinue(w)
    /\ UNCHANGED <<entries, lines, refusals, queued, reviews, faults>>

\* A statement of Handle fails.
StatementFails(w) ==
    /\ Fault
    /\ instance[w].at \in {"handle", "entry", "review"} /\ Class[Message(w)] # "malformed"
    /\ RollBack(w)
    /\ LogAndContinue(w)
    /\ UNCHANGED <<entries, lines, refusals, queued, reviews>>

Consume(w) ==
    \/ FetchMessage(w) \/ CommitMessages(w)
    \/ HandleMalformed(w) \/ RecordRefusal(w) \/ RecordReview(w)
    \/ SkipPosted(w) \/ InsertEntry(w) \/ CommitEntry(w) \/ RefuseLine(w)

LedgerNext ==
    \/ \E e \in Event : Publish(e)
    \/ \E w \in Instance :
         Assign(w) \/ Rebalance(w) \/ Consume(w) \/ CommitFails(w) \/ Crash(w) \/ StatementFails(w)

LedgerSpec == LedgerInit /\ [][LedgerNext]_ledgerVars

\* The partition is assigned again when its owner is gone, and an instance
\* goes on with what it has.
FairLedger ==
    /\ LedgerSpec
    /\ WF_ledgerVars(\E w \in Instance : Assign(w))
    /\ \A w \in Instance : WF_ledgerVars(Consume(w))

--------------------------------------------------------------------------------
(***************************************************************************)
(* Properties.                                                             *)
(***************************************************************************)

\* However often an event is published, redelivered or handled by two
\* instances at once, it has at most one journal entry, with one debit line
\* and one credit line, and a row to synchronise exactly if it has an entry.
PostedOnce ==
    \A e \in Event :
        \/ entries[e] = 0 /\ lines[e] = <<>> /\ e \notin queued
        \/ entries[e] = 1 /\ lines[e] = <<"debit", "credit">> /\ (e \in queued <=> Connected)

Answered(i) == entries[topic[i]] > 0 \/ reviews[topic[i]] > 0

\* Every committed message was handled to the end, by whichever instance:
\* posted, in front of a reviewer, or given up with a logged error.
CommittedIsHandled == \A i \in 1 .. committed : Answered(i) \/ i \in errored

\* Instances, keys and redeliveries hidden, the ledger is EventPosting: an event
\* is posted once and in balance or reviewed, never both, and wherever a commit
\* puts the offset, also that of an instance that lost the partition, every
\* message before it was handled to an end.
Posting == INSTANCE EventPosting WITH reviewed <- {e \in Event : reviews[e] > 0}
ImplementsPosting == Posting!PostingSpec

\* Every published message is handled to the end.
EventuallyHandled ==
    \A n \in 1 .. MaxMessages :
        Len(topic) >= n ~> Len(topic) >= n /\ (Answered(n) \/ n \in errored)

\* What consumer.go (22-25, 61-63) says: no event is dropped, one that cannot
\* be posted is in failed_posting_review before its offset is committed.
NoEventDropped == \A i \in 1 .. committed : Answered(i)
================================================================================
