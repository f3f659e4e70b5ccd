---------------------------- MODULE Ledger_proofs ----------------------------
(***************************************************************************)
(* Proofs about Ledger, for every set of events, classes and instances,    *)
(* every number of messages and of faults, connected or not.               *)
(***************************************************************************)
EXTENDS Ledger, SequenceTheorems, TLAPS

--------------------------------------------------------------------------------
(* Type correctness. *)

\* An instance that is past its fetch handles a published event.
LEMMA MessageIsEvent ==
    ASSUME LedgerTypeOK, NEW w \in Instance, instance[w].at # "fetch"
    PROVE  Message(w) \in Event /\ instance[w].pos \in 1 .. Len(topic)
<1>1. instance[w].pos \in 1 .. Len(topic)
  BY DEF LedgerTypeOK, InstancesOK
<1>q. QED
  BY <1>1, ElementOfSeq DEF LedgerTypeOK, Message

\* An instance that goes on with its message stays in its type.
LEMMA GoesOn ==
    ASSUME LedgerTypeOK, NEW w \in Instance, instance[w].pos \in 1 .. Len(topic),
           NEW a \in Steps \ {"fetch"}, Become(w, a), topic' = topic
    PROVE  InstancesOK'
BY DEF LedgerTypeOK, InstancesOK, Steps, Become, Doing

\* And so does one that is handed another message.
LEMMA StartsOn ==
    ASSUME LedgerTypeOK, NEW w \in Instance, NEW p \in 1 .. Len(topic),
           instance' = [instance EXCEPT ![w] = Doing("handle", p)], topic' = topic
    PROVE  InstancesOK'
BY DEF LedgerTypeOK, InstancesOK, Steps, Doing

\* And one that is through with its message.
LEMMA WaitsAgain ==
    ASSUME LedgerTypeOK, NEW w \in Instance,
           instance' = [instance EXCEPT ![w] = Waiting], topic' = topic
    PROVE  InstancesOK'
BY DEF LedgerTypeOK, InstancesOK, Steps, Doing, Waiting

\* Every step keeps every variable in its type, the committed offset and
\* every offset an instance handles inside the topic.
THEOREM LedgerTypeCorrect == LedgerSpec => []LedgerTypeOK
<1> USE LedgerAssumption
<1>1. LedgerInit => LedgerTypeOK
  BY DEF LedgerInit, LedgerTypeOK, InstancesOK, Steps, BooksOK, Doing, Waiting
<1>2. LedgerTypeOK /\ [LedgerNext]_ledgerVars => LedgerTypeOK'
  <2> SUFFICES ASSUME LedgerTypeOK, [LedgerNext]_ledgerVars
               PROVE  LedgerTypeOK'
    OBVIOUS
  <2>0. /\ Len(topic) \in Nat /\ committed \in Nat /\ committed <= Len(topic)
        /\ position \in 1 .. Len(topic) + 1
    BY LenProperties DEF LedgerTypeOK
  <2> USE DEF Fault, bookVars, groupVars
  <2>1. ASSUME NEW e \in Event, Publish(e)
        PROVE  LedgerTypeOK'
    <3>1. topic' \in Seq(Event) /\ Len(topic') = Len(topic) + 1
      BY <2>1, AppendProperties DEF Publish, LedgerTypeOK
    <3>2. InstancesOK'
      BY <2>0, <2>1, <3>1 DEF Publish, LedgerTypeOK, InstancesOK
    <3>3. /\ committed' \in 0 .. Len(topic') /\ position' \in 1 .. Len(topic') + 1
      BY <2>0, <2>1, <3>1 DEF Publish
    <3>4. BooksOK'
      BY <2>1 DEF Publish, LedgerTypeOK, BooksOK
    <3>q. QED
      BY <2>1, <3>1, <3>2, <3>3, <3>4 DEF Publish, LedgerTypeOK
  <2>2. ASSUME NEW w \in Instance, Take(w), faults' \in Nat
        PROVE  LedgerTypeOK'
    <3>1. committed + 1 \in 1 .. Len(topic) + 1
      BY <2>0
    <3>q. QED
      BY <2>2, <3>1 DEF Take, LedgerTypeOK, InstancesOK, BooksOK
  <2>3. ASSUME NEW w \in Instance, FetchMessage(w)
        PROVE  LedgerTypeOK'
    <3>1. position \in 1 .. Len(topic) /\ position + 1 \in 1 .. Len(topic) + 1
      BY <2>0, <2>3 DEF FetchMessage
    <3>2. InstancesOK'
      BY <2>3, <3>1, StartsOn DEF FetchMessage
    <3>q. QED
      BY <2>3, <3>1, <3>2 DEF FetchMessage, LedgerTypeOK, BooksOK
  <2>4. ASSUME NEW w \in Instance, CommitMessages(w) \/ CommitFails(w)
        PROVE  LedgerTypeOK'
    <3>1. instance[w].pos \in 1 .. Len(topic)
      BY <2>4, MessageIsEvent DEF CommitMessages, CommitFails
    <3>2. InstancesOK'
      BY <2>4, WaitsAgain DEF CommitMessages, CommitFails
    <3>3. committed' \in 0 .. Len(topic)
      BY <2>0, <2>4, <3>1 DEF CommitMessages, CommitFails
    <3>4. UNCHANGED <<topic, owner, position, errored>> /\ faults' \in Nat
      BY <2>4 DEF CommitMessages, CommitFails, LedgerTypeOK
    <3>5. BooksOK'
      BY <2>4 DEF CommitMessages, CommitFails, LedgerTypeOK, BooksOK
    <3>q. QED
      BY <3>2, <3>3, <3>4, <3>5 DEF LedgerTypeOK
  <2>5. ASSUME NEW w \in Instance, HandleMalformed(w) \/ RefuseLine(w) \/ StatementFails(w)
        PROVE  LedgerTypeOK'
    <3> USE DEF HandleMalformed, Handling, RefuseLine, StatementFails
    <3>1. instance[w].pos \in 1 .. Len(topic)
      BY <2>5, MessageIsEvent
    <3>2. LogAndContinue(w)
      BY <2>5
    <3>3. InstancesOK'
      BY <2>0, <3>1, <3>2, GoesOn DEF Steps, LogAndContinue
    <3>4. errored' \subseteq 1 .. Len(topic)
      BY <3>1, <3>2 DEF LogAndContinue, LedgerTypeOK
    <3>5. BooksOK'
      BY <2>5 DEF RollBack, LedgerTypeOK, BooksOK
    <3>6. faults' \in Nat
      BY <2>5 DEF LedgerTypeOK
    <3>q. QED
      BY <3>2, <3>3, <3>4, <3>5, <3>6 DEF LogAndContinue, LedgerTypeOK
  <2>6. ASSUME NEW w \in Instance, RecordRefusal(w)
        PROVE  LedgerTypeOK'
    <3>1. Message(w) \in Event /\ instance[w].pos \in 1 .. Len(topic)
      BY <2>6, MessageIsEvent DEF RecordRefusal, Handling
    <3>2. InstancesOK'
      BY <2>0, <2>6, <3>1, GoesOn DEF Steps, RecordRefusal
    <3>r. refusals' \in [Event -> Nat]
      <4>1. refusals' = [refusals EXCEPT ![Message(w)] = @ + 1]
        BY <2>6 DEF RecordRefusal
      <4>2. refusals \in [Event -> Nat]
        BY DEF LedgerTypeOK, BooksOK
      <4>q. QED
        BY <3>1, <4>1, <4>2
    <3>3. BooksOK'
      BY <2>6, <3>r DEF RecordRefusal, LedgerTypeOK, BooksOK
    <3>4. errored' \subseteq 1 .. Len(topic) /\ UNCHANGED <<topic, owner, position, faults>>
      BY <2>6, <3>1 DEF RecordRefusal, LedgerTypeOK
    <3>5. committed' \in 0 .. Len(topic)
      BY <2>6 DEF RecordRefusal, LedgerTypeOK
    <3>q. QED
      BY <3>2, <3>3, <3>4, <3>5 DEF LedgerTypeOK
  <2>7. ASSUME NEW w \in Instance, RecordReview(w)
        PROVE  LedgerTypeOK'
    <3>1. Message(w) \in Event /\ instance[w].pos \in 1 .. Len(topic)
      BY <2>7, MessageIsEvent DEF RecordReview
    <3>2. InstancesOK'
      BY <2>0, <2>7, <3>1, GoesOn DEF Steps, RecordReview
    <3>3. reviews' \in [Event -> Nat]
      <4>1. reviews \in [Event -> Nat]
        BY DEF LedgerTypeOK, BooksOK
      <4>2. reviews' = [reviews EXCEPT ![Message(w)] = @ + 1]
        BY <2>7 DEF RecordReview
      <4>q. QED
        BY <3>1, <4>1, <4>2
    <3>4. BooksOK'
      BY <2>7, <3>3 DEF RecordReview, LedgerTypeOK, BooksOK
    <3>q. QED
      BY <2>7, <3>2, <3>4 DEF RecordReview, LedgerTypeOK
  <2>8. ASSUME NEW w \in Instance, SkipPosted(w)
        PROVE  LedgerTypeOK'
    <3>1. InstancesOK'
      BY <2>0, <2>8, MessageIsEvent, GoesOn DEF Steps, SkipPosted
    <3>q. QED
      BY <2>8, <3>1 DEF SkipPosted, LedgerTypeOK, BooksOK
  <2>9. ASSUME NEW w \in Instance, InsertEntry(w)
        PROVE  LedgerTypeOK'
    <3>1. Message(w) \in Event /\ instance[w].pos \in 1 .. Len(topic)
      BY <2>9, MessageIsEvent DEF InsertEntry
    <3>2. InstancesOK'
      BY <2>0, <2>9, <3>1, GoesOn DEF Steps, InsertEntry
    <3>q. QED
      BY <2>9, <3>1, <3>2 DEF InsertEntry, LedgerTypeOK, BooksOK
  <2>10. ASSUME NEW w \in Instance, CommitEntry(w)
         PROVE  LedgerTypeOK'
    <3>1. Message(w) \in Event /\ instance[w].pos \in 1 .. Len(topic)
      BY <2>10, MessageIsEvent DEF CommitEntry
    <3>2. InstancesOK'
      BY <2>0, <2>10, <3>1, GoesOn DEF Steps, CommitEntry
    <3>3. lines[Message(w)] \o <<"debit", "credit">> \in Seq({"debit", "credit"})
      BY <3>1, ConcatProperties DEF LedgerTypeOK, BooksOK
    <3>4. lines' \in [Event -> Seq({"debit", "credit"})]
      BY <2>10, <3>1, <3>3 DEF CommitEntry, LedgerTypeOK, BooksOK
    <3>5. entries' \in [Event -> Nat]
      <4>1. entries \in [Event -> Nat]
        BY DEF LedgerTypeOK, BooksOK
      <4>2. entries' = [entries EXCEPT ![Message(w)] = @ + 1]
        BY <2>10 DEF CommitEntry
      <4>q. QED
        BY <3>1, <4>1, <4>2
    <3>6. open' \in [Event -> Instance \cup {NoOne}] /\ queued' \subseteq Event
      BY <2>10, <3>1 DEF CommitEntry, LedgerTypeOK, BooksOK
    <3>7. BooksOK'
      BY <2>10, <3>4, <3>5, <3>6 DEF CommitEntry, LedgerTypeOK, BooksOK
    <3>q. QED
      BY <2>10, <3>2, <3>7 DEF CommitEntry, LedgerTypeOK
  <2>11. ASSUME NEW w \in Instance, Crash(w)
         PROVE  LedgerTypeOK'
    <3>1. InstancesOK'
      BY <2>11, WaitsAgain DEF Crash
    <3>2. BooksOK'
      BY <2>11 DEF Crash, RollBack, LedgerTypeOK, BooksOK
    <3>q. QED
      BY <2>11, <3>1, <3>2 DEF Crash, LedgerTypeOK
  <2>12. CASE UNCHANGED ledgerVars
    BY <2>12 DEF ledgerVars, LedgerTypeOK, InstancesOK, BooksOK
  <2>13. ASSUME NEW w \in Instance, Assign(w) \/ Rebalance(w)
         PROVE  LedgerTypeOK'
    BY <2>2, <2>13 DEF Assign, Rebalance, LedgerTypeOK
  <2>q. QED
    BY <2>1, <2>3, <2>4, <2>5, <2>6, <2>7, <2>8, <2>9, <2>10, <2>11, <2>12, <2>13
    DEF LedgerNext, Consume
<1>q. QED
  BY <1>1, <1>2, PTL DEF LedgerSpec

--------------------------------------------------------------------------------
(* Exactly-once posting. *)

\* What makes PostedOnce inductive: the unique key.  An uncommitted entry and
\* the instance that inserts it determine each other, and a key is held only
\* for an event that has no committed entry.
KeyIsHeld ==
    /\ \A w \in Instance : instance[w].at = "entry" => open[Message(w)] = w
    /\ \A e \in Event : open[e] # NoOne =>
          /\ instance[open[e]].at = "entry" /\ Message(open[e]) = e
          /\ entries[e] = 0

\* The step of any instance that neither takes a key nor posts: its own key,
\* if it held one, is free again.
LEMMA KeyIsReleased ==
    ASSUME LedgerTypeOK, KeyIsHeld, NEW w \in Instance, topic' = topic,
           instance' \in [Instance -> [at : Steps, pos : Nat]],
           instance'[w].at # "entry",
           \A v \in Instance \ {w} : instance'[v] = instance[v],
           \A e \in Event : open'[e] = IF open[e] = w THEN NoOne ELSE open[e],
           entries' = entries
    PROVE  KeyIsHeld'
<1>1. open \in [Event -> Instance \cup {NoOne}] /\ NoOne \notin Instance
  BY LedgerAssumption DEF LedgerTypeOK, BooksOK
<1>2. ASSUME NEW v \in Instance, instance'[v].at = "entry"
      PROVE  open'[Message(v)'] = v
  <2>1. v # w /\ instance'[v] = instance[v] /\ Message(v)' = Message(v)
    BY <1>2 DEF Message
  <2>2. Message(v) \in Event /\ open[Message(v)] = v
    BY <1>2, <2>1, MessageIsEvent DEF KeyIsHeld
  <2>q. QED
    BY <2>1, <2>2
<1>3. ASSUME NEW e \in Event, open'[e] # NoOne
      PROVE  instance'[open'[e]].at = "entry" /\ topic'[instance'[open'[e]].pos] = e /\ entries'[e] = 0
  <2>1. open'[e] = open[e] /\ open[e] \in Instance \ {w}
    BY <1>1, <1>3
  <2>2. instance[open[e]].at = "entry" /\ topic[instance[open[e]].pos] = e /\ entries[e] = 0
    BY <1>3, <2>1 DEF KeyIsHeld, Message
  <2>q. QED
    BY <2>1, <2>2
<1>q. QED
  BY <1>2, <1>3 DEF KeyIsHeld, Message

\* An instance that is not inserting holds no key.
LEMMA HoldsNoKey ==
    ASSUME LedgerTypeOK, KeyIsHeld, NEW w \in Instance, instance[w].at # "entry"
    PROVE  \A e \in Event : open[e] # w
BY LedgerAssumption DEF KeyIsHeld

\* The key and the posting keep each other: a COMMIT under the key is the
\* first of its event.
LEMMA KeyIsUnique == LedgerSpec => [](KeyIsHeld /\ PostedOnce)
<1> DEFINE Inv == KeyIsHeld /\ PostedOnce
<1>1. LedgerInit => Inv
  BY DEF LedgerInit, KeyIsHeld, PostedOnce, Doing, Waiting
<1>2. LedgerTypeOK /\ LedgerTypeOK' /\ Inv /\ [LedgerNext]_ledgerVars => Inv'
  <2> SUFFICES ASSUME LedgerTypeOK, LedgerTypeOK', Inv, [LedgerNext]_ledgerVars
               PROVE  Inv'
    OBVIOUS
  <2>t. /\ instance \in [Instance -> [at : Steps, pos : Nat]]
        /\ instance' \in [Instance -> [at : Steps, pos : Nat]]
    BY DEF LedgerTypeOK, InstancesOK
  <2> USE DEF Become, Doing, Waiting, Fault, bookVars, groupVars
  <2>1. ASSUME NEW e \in Event, Publish(e)
        PROVE  Inv'
    <3>1. UNCHANGED <<instance, bookVars>> /\ topic' = Append(topic, e)
      BY <2>1 DEF Publish
    <3>2. \A i \in 1 .. Len(topic) : topic'[i] = topic[i]
      BY <3>1, AppendProperties DEF LedgerTypeOK
    <3>3. \A w \in Instance : instance[w].at # "fetch" => Message(w)' = Message(w)
      BY <3>1, <3>2, MessageIsEvent DEF Message
    <3>4. KeyIsHeld'
      BY <3>1, <3>3 DEF KeyIsHeld, LedgerTypeOK, BooksOK
    <3>q. QED
      BY <3>1, <3>4 DEF PostedOnce
  <2>2. ASSUME NEW w \in Instance, InsertEntry(w)
        PROVE  Inv'
    <3> DEFINE e == Message(w)
    <3>1. /\ e \in Event /\ open[e] = NoOne /\ entries[e] = 0
          /\ instance[w].at # "entry"
      BY <2>2, MessageIsEvent DEF InsertEntry
    <3>2. /\ open' = [open EXCEPT ![e] = w] /\ topic' = topic /\ entries' = entries
          /\ instance' = [instance EXCEPT ![w] = Doing("entry", instance[w].pos)]
      BY <2>2 DEF InsertEntry
    <3>3. open \in [Event -> Instance \cup {NoOne}] /\ NoOne \notin Instance
      BY LedgerAssumption DEF LedgerTypeOK, BooksOK
    <3>4. Message(w)' = e /\ instance'[w].at = "entry" /\ open'[e] = w
      BY <2>t, <3>1, <3>2, <3>3 DEF Message
    <3>5. ASSUME NEW v \in Instance, instance'[v].at = "entry", v # w
          PROVE  open'[Message(v)'] = v
      <4>1. instance'[v] = instance[v] /\ Message(v)' = Message(v)
        BY <2>t, <3>2, <3>5 DEF Message
      <4>2. Message(v) \in Event /\ open[Message(v)] = v
        BY <3>5, <4>1, MessageIsEvent DEF KeyIsHeld
      <4>q. QED
        BY <3>1, <3>2, <3>3, <4>1, <4>2
    <3>6. ASSUME NEW d \in Event, open'[d] # NoOne, d # e
          PROVE  instance'[open'[d]].at = "entry" /\ topic'[instance'[open'[d]].pos] = d /\ entries'[d] = 0
      <4>1. open'[d] = open[d] /\ open[d] \in Instance \ {w}
        BY <3>1, <3>2, <3>3, <3>6, HoldsNoKey
      <4>2. instance[open[d]].at = "entry" /\ topic[instance[open[d]].pos] = d /\ entries[d] = 0
        BY <3>6, <4>1 DEF KeyIsHeld, Message
      <4>3. instance'[open[d]] = instance[open[d]]
        BY <2>t, <3>2, <4>1
      <4>q. QED
        BY <3>2, <4>1, <4>2, <4>3
    <3>7. KeyIsHeld'
      BY <3>1, <3>2, <3>4, <3>5, <3>6 DEF KeyIsHeld, Message
    <3>q. QED
      BY <2>2, <3>7 DEF InsertEntry, PostedOnce
  <2>3. ASSUME NEW w \in Instance, CommitEntry(w)
        PROVE  Inv'
    <3> DEFINE e == Message(w)
    <3>1. /\ e \in Event /\ open[e] = w /\ w # NoOne
          /\ instance[w].at = "entry"
      BY <2>3, MessageIsEvent, LedgerAssumption DEF CommitEntry, KeyIsHeld
    <3>2. entries[e] = 0 /\ lines[e] = <<>> /\ e \notin queued
      BY <3>1 DEF KeyIsHeld, PostedOnce
    <3>3. /\ entries' = [entries EXCEPT ![e] = @ + 1] /\ topic' = topic
          /\ lines' = [lines EXCEPT ![e] = @ \o <<"debit", "credit">>]
          /\ queued' = IF Connected THEN queued \cup {e} ELSE queued
          /\ open' = [open EXCEPT ![e] = NoOne]
          /\ instance' = [instance EXCEPT ![w] = Doing("commit", instance[w].pos)]
      BY <2>3 DEF CommitEntry
    <3>4. /\ entries \in [Event -> Nat] /\ DOMAIN lines = Event
          /\ open \in [Event -> Instance \cup {NoOne}]
      BY DEF LedgerTypeOK, BooksOK
    <3>5. <<>> \o <<"debit", "credit">> = <<"debit", "credit">>
      OBVIOUS
    <3>6. entries'[e] = 1 /\ lines'[e] = <<"debit", "credit">> /\ (e \in queued' <=> Connected)
      BY <3>1, <3>2, <3>3, <3>4, <3>5, LedgerAssumption
    <3>7. \A d \in Event \ {e} : entries'[d] = entries[d] /\ lines'[d] = lines[d]
                                 /\ (d \in queued' <=> d \in queued)
      BY <3>3, <3>4
    <3>8. PostedOnce'
      BY <3>6, <3>7 DEF PostedOnce
    <3>9. ASSUME NEW v \in Instance, instance'[v].at = "entry"
          PROVE  open'[Message(v)'] = v
      <4>1. v # w /\ instance'[v] = instance[v] /\ Message(v)' = Message(v)
        BY <2>t, <3>3, <3>9 DEF Message
      <4>2. Message(v) \in Event /\ open[Message(v)] = v
        BY <3>9, <4>1, MessageIsEvent DEF KeyIsHeld
      <4>q. QED
        BY <3>1, <3>3, <3>4, <4>1, <4>2
    <3>10. ASSUME NEW d \in Event, open'[d] # NoOne
           PROVE  instance'[open'[d]].at = "entry" /\ topic'[instance'[open'[d]].pos] = d /\ entries'[d] = 0
      <4>1. d # e /\ open'[d] = open[d]
        BY <3>1, <3>3, <3>4, <3>10
      <4>2. open[d] \in Instance /\ Message(open[d]) = d /\ instance[open[d]].at = "entry"
        BY <3>4, <3>10, <4>1 DEF KeyIsHeld
      <4>3. open[d] # w
        BY <4>1, <4>2
      <4>q. QED
        BY <2>t, <3>3, <3>4, <3>10, <4>1, <4>2, <4>3 DEF KeyIsHeld, Message
    <3>11. KeyIsHeld'
      BY <3>9, <3>10 DEF KeyIsHeld, Message
    <3>q. QED
      BY <3>8, <3>11
  <2>4. ASSUME NEW w \in Instance,
               RefuseLine(w) \/ StatementFails(w) \/ Crash(w)
        PROVE  Inv'
    <3> USE DEF RefuseLine, StatementFails, Crash, LogAndContinue
    <3>1. RollBack(w) /\ UNCHANGED <<topic, entries, lines, queued>>
      BY <2>4
    <3>2. \E a \in {"commit", "fetch"}, p \in Nat : instance' = [instance EXCEPT ![w] = Doing(a, p)]
      BY <2>4, <2>t
    <3>3. instance'[w].at # "entry" /\ \A v \in Instance \ {w} : instance'[v] = instance[v]
      BY <2>t, <3>2
    <3>4. KeyIsHeld'
      BY <2>t, <3>1, <3>3, KeyIsReleased DEF RollBack
    <3>q. QED
      BY <3>1, <3>4 DEF PostedOnce
  <2>5. ASSUME NEW w \in Instance,
               \/ FetchMessage(w) \/ CommitMessages(w) \/ CommitFails(w) \/ HandleMalformed(w)
               \/ RecordRefusal(w) \/ RecordReview(w) \/ SkipPosted(w)
        PROVE  Inv'
    <3> USE DEF FetchMessage, CommitMessages, CommitFails,
                HandleMalformed, LogAndContinue, RecordRefusal, RecordReview, SkipPosted,
                Handling
    <3>1. UNCHANGED <<topic, entries, lines, queued, open>>
      BY <2>5
    <3>2. instance[w].at # "entry"
      BY <2>5
    <3>3. \E a \in {"fetch", "handle", "commit", "review"}, p \in Nat :
              instance' = [instance EXCEPT ![w] = Doing(a, p)]
      <4>1. position \in Nat /\ instance[w].pos \in Nat /\ 0 \in Nat
        BY <2>t, LenProperties DEF LedgerTypeOK
      <4>q. QED
        BY <2>5, <4>1
    <3>4. instance'[w].at # "entry" /\ \A v \in Instance \ {w} : instance'[v] = instance[v]
      BY <2>t, <3>3
    <3>5. \A e \in Event : open'[e] = IF open[e] = w THEN NoOne ELSE open[e]
      BY <3>1, <3>2, HoldsNoKey
    <3>6. KeyIsHeld'
      BY <2>t, <3>1, <3>4, <3>5, KeyIsReleased
    <3>q. QED
      BY <3>1, <3>6 DEF PostedOnce
  <2>6. ASSUME UNCHANGED <<topic, instance, bookVars>>
        PROVE  Inv'
    BY <2>6 DEF KeyIsHeld, PostedOnce, Message
  <2>7. ASSUME NEW w \in Instance, Assign(w) \/ Rebalance(w)
        PROVE  Inv'
    BY <2>6, <2>7 DEF Assign, Rebalance, Take
  <2>8. CASE UNCHANGED ledgerVars
    BY <2>6, <2>8 DEF ledgerVars
  <2>q. QED
    BY <2>1, <2>2, <2>3, <2>4, <2>5, <2>7, <2>8 DEF LedgerNext, Consume
<1>q. QED
  BY <1>1, <1>2, LedgerTypeCorrect, PTL DEF LedgerSpec

\* However many instances handle an event, however often, and whichever of
\* them crash or fail, it is posted at most once and in balance.
THEOREM PostingIsIdempotent == LedgerSpec => []PostedOnce
BY KeyIsUnique, PTL

--------------------------------------------------------------------------------
(* No message is passed over. *)

\* The offsets whose message was handled to the end.
Done == {i \in 1 .. Len(topic) : Answered(i) \/ i \in errored}

\* What makes CommittedIsHandled inductive: an instance handles or commits an
\* offset only when every earlier one was handled, by whichever instance, and
\* commits it only when it was handled too; and the reader of the partition's
\* owner has passed nothing but what was handled and the message in hand.
HandledInOrder ==
    /\ \A w \in Instance :
         /\ instance[w].at # "fetch" => 1 .. instance[w].pos - 1 \subseteq Done
         /\ instance[w].at = "commit" => instance[w].pos \in Done
    /\ owner \in Instance => 1 .. position - 1 \subseteq Done \cup {instance[owner].pos}

\* What was handled stays handled: the topic only grows, and no entry, review
\* or logged error is taken back.
LEMMA HandledForGood ==
    ASSUME LedgerTypeOK, [LedgerNext]_ledgerVars
    PROVE  Done \subseteq Done'
<1> SUFFICES ASSUME NEW i \in 1 .. Len(topic), Answered(i) \/ i \in errored
             PROVE  i \in Done'
  BY DEF Done
<1>0. topic[i] \in Event
  BY ElementOfSeq DEF LedgerTypeOK
<1>1. topic'[i] = topic[i] /\ i \in 1 .. Len(topic')
  <2>1. ASSUME NEW e \in Event, Publish(e)
        PROVE  topic'[i] = topic[i] /\ i \in 1 .. Len(topic')
    <3>1. Len(topic) \in Nat
      BY LenProperties DEF LedgerTypeOK
    <3>q. QED
      BY <2>1, <3>1, AppendProperties DEF Publish, LedgerTypeOK
  <2>2. (\E e \in Event : Publish(e)) \/ topic' = topic
    BY DEF LedgerNext, Consume, ledgerVars, groupVars, Assign, Rebalance, Take, FetchMessage,
           CommitMessages, CommitFails, Crash, HandleMalformed, LogAndContinue, RecordRefusal,
           RecordReview, SkipPosted, InsertEntry, CommitEntry, RefuseLine, StatementFails
  <2>q. QED
    BY <2>1, <2>2
<1>2. errored \subseteq errored'
  BY DEF LedgerNext, Consume, ledgerVars, groupVars, Publish, Assign, Rebalance, Take,
         FetchMessage, CommitMessages, CommitFails, Crash, HandleMalformed, LogAndContinue,
         RecordRefusal, RecordReview, SkipPosted, InsertEntry, CommitEntry, RefuseLine,
         StatementFails
<1>3. entries[topic[i]] > 0 => entries'[topic[i]] > 0
  <2>1. entries \in [Event -> Nat]
    BY DEF LedgerTypeOK, BooksOK
  <2>2. entries' = entries \/ \E w \in Instance : entries' = [entries EXCEPT ![Message(w)] = @ + 1]
    BY DEF LedgerNext, Consume, ledgerVars, bookVars, Publish, Assign, Rebalance, Take,
           FetchMessage, CommitMessages, CommitFails, Crash, HandleMalformed, RecordRefusal,
           RecordReview, SkipPosted, InsertEntry, CommitEntry, RefuseLine, StatementFails
  <2>q. QED
    BY <1>0, <2>1, <2>2
<1>4. reviews[topic[i]] > 0 => reviews'[topic[i]] > 0
  <2>1. reviews \in [Event -> Nat]
    BY DEF LedgerTypeOK, BooksOK
  <2>2. reviews' = reviews \/ \E w \in Instance : reviews' = [reviews EXCEPT ![Message(w)] = @ + 1]
    BY DEF LedgerNext, Consume, ledgerVars, bookVars, Publish, Assign, Rebalance, Take,
           FetchMessage, CommitMessages, CommitFails, Crash, HandleMalformed, RecordRefusal,
           RecordReview, SkipPosted, InsertEntry, CommitEntry, RefuseLine, StatementFails
  <2>q. QED
    BY <1>0, <2>1, <2>2
<1>q. QED
  BY <1>1, <1>2, <1>3, <1>4 DEF Done, Answered

\* Across rebalances, instances that go on without the partition, crashes,
\* failed commits and failed statements, no instance gets ahead of what was
\* handled, and neither does the committed offset.
LEMMA OrderIsKept == LedgerSpec => [](HandledInOrder /\ 1 .. committed \subseteq Done)
<1> DEFINE Inv == HandledInOrder /\ 1 .. committed \subseteq Done
<1>1. LedgerInit => Inv
  BY LedgerAssumption DEF LedgerInit, HandledInOrder, Doing, Waiting
<1>2. LedgerTypeOK /\ LedgerTypeOK' /\ Inv /\ [LedgerNext]_ledgerVars => Inv'
  <2> SUFFICES ASSUME LedgerTypeOK, LedgerTypeOK', Inv, [LedgerNext]_ledgerVars
               PROVE  Inv'
    OBVIOUS
  <2>t. /\ instance \in [Instance -> [at : Steps, pos : Nat]]
        /\ committed \in Nat /\ position \in Nat \ {0} /\ Len(topic) \in Nat
    BY LenProperties DEF LedgerTypeOK, InstancesOK
  <2>h. Done \subseteq Done'
    BY HandledForGood
  \* It is enough to look at the instance that steps.
  <2>i. ASSUME NEW w \in Instance, \A v \in Instance \ {w} : instance'[v] = instance[v],
               instance'[w].at # "fetch" => 1 .. instance'[w].pos - 1 \subseteq Done',
               instance'[w].at = "commit" => instance'[w].pos \in Done',
               owner' = w => 1 .. position' - 1 \subseteq Done' \cup {instance'[w].pos},
               owner' \in {owner, w, NoOne}, owner' # w => position' = position
        PROVE  HandledInOrder'
    <3>1. ASSUME NEW v \in Instance
          PROVE  /\ instance'[v].at # "fetch" => 1 .. instance'[v].pos - 1 \subseteq Done'
                 /\ instance'[v].at = "commit" => instance'[v].pos \in Done'
      BY <2>h, <2>i DEF HandledInOrder
    <3>2. ASSUME owner' \in Instance, owner' # w
          PROVE  1 .. position' - 1 \subseteq Done' \cup {instance'[owner'].pos}
      <4>1. owner' = owner /\ instance'[owner] = instance[owner] /\ position' = position
        BY <2>i, <3>2, LedgerAssumption
      <4>q. QED
        BY <2>h, <3>2, <4>1 DEF HandledInOrder
    <3>3. owner' \in Instance =>
            1 .. position' - 1 \subseteq Done' \cup {instance'[owner'].pos}
      BY <2>i, <3>2
    <3>q. QED
      BY <3>1, <3>3 DEF HandledInOrder
  \* An instance that stays with its message has nothing new before it.
  <2>s. ASSUME NEW w \in Instance, NEW a \in Steps, instance[w].at # "fetch", Become(w, a),
               a = "commit" => instance[w].pos \in Done', UNCHANGED <<owner, position>>
        PROVE  HandledInOrder'
    <3>1. /\ instance'[w].pos = instance[w].pos /\ instance'[w].at = a
          /\ \A v \in Instance \ {w} : instance'[v] = instance[v]
      BY <2>t, <2>s DEF Become, Doing
    <3>2. 1 .. instance[w].pos - 1 \subseteq Done'
      BY <2>h, <2>s DEF HandledInOrder
    <3>3. owner = w => 1 .. position - 1 \subseteq Done' \cup {instance[w].pos}
      BY <2>h DEF HandledInOrder
    <3>q. QED
      BY <2>i, <2>s, <3>1, <3>2, <3>3
  \* One that is through with a message leaves it handled behind the reader,
  \* or lets go of the partition.
  <2>w. ASSUME NEW w \in Instance, instance' = [instance EXCEPT ![w] = Waiting],
               position' = position,
               \/ owner' = owner /\ instance[w].pos \in Done'
               \/ owner' = (IF owner = w THEN NoOne ELSE owner)
        PROVE  HandledInOrder'
    <3>1. /\ instance'[w].pos = 0 /\ instance'[w].at = "fetch"
          /\ \A v \in Instance \ {w} : instance'[v] = instance[v]
      BY <2>t, <2>w DEF Doing, Waiting
    <3>2. owner' = w => 1 .. position - 1 \subseteq Done'
      BY <2>h, <2>w, LedgerAssumption DEF HandledInOrder
    <3>3. owner' \in {owner, w, NoOne}
      BY <2>w
    <3>q. QED
      BY <2>i, <2>w, <3>1, <3>2, <3>3
  <2>c. ASSUME committed' = committed
        PROVE  1 .. committed' \subseteq Done'
    BY <2>h, <2>c
  <2> USE DEF Fault, bookVars, groupVars
  <2>1. ASSUME NEW e \in Event, Publish(e)
        PROVE  Inv'
    <3>1. UNCHANGED <<instance, owner, position, committed>>
      BY <2>1 DEF Publish
    <3>2. HandledInOrder'
      BY <2>h, <3>1 DEF HandledInOrder
    <3>q. QED
      BY <2>c, <3>1, <3>2
  <2>2. ASSUME NEW w \in Instance, Assign(w) \/ Rebalance(w)
        PROVE  Inv'
    <3>1. owner' = w /\ position' = committed + 1 /\ UNCHANGED <<instance, committed>>
      BY <2>2 DEF Assign, Rebalance, Take
    <3>2. position' - 1 = committed
      BY <2>t, <3>1
    <3>3. 1 .. position' - 1 \subseteq Done'
      BY <2>c, <3>1, <3>2
    <3>4. \A v \in Instance : /\ instance[v].at # "fetch" => 1 .. instance[v].pos - 1 \subseteq Done'
                              /\ instance[v].at = "commit" => instance[v].pos \in Done'
      BY <2>h DEF HandledInOrder
    <3>5. HandledInOrder'
      BY <3>1, <3>3, <3>4 DEF HandledInOrder
    <3>q. QED
      BY <2>c, <3>1, <3>5
  <2>3. ASSUME NEW w \in Instance, CommitMessages(w) \/ CommitFails(w)
        PROVE  Inv'
    <3> DEFINE p == instance[w].pos
    <3>1. /\ instance' = [instance EXCEPT ![w] = Waiting] /\ UNCHANGED <<owner, position>>
          /\ committed' \in {p, committed} /\ instance[w].at = "commit"
      BY <2>3 DEF CommitMessages, CommitFails
    <3>2. p \in Nat
      BY <2>t
    <3>3. 1 .. p - 1 \subseteq Done' /\ p \in Done'
      BY <2>h, <3>1 DEF HandledInOrder
    <3>4. HandledInOrder'
      BY <2>w, <3>1, <3>3
    <3> HIDE DEF p
    <3>5. 1 .. p \subseteq Done'
      BY <3>2, <3>3
    <3>6. 1 .. committed' \subseteq Done'
      BY <2>c, <3>1, <3>5
    <3>q. QED
      BY <3>4, <3>6
  <2>4. ASSUME NEW w \in Instance, HandleMalformed(w) \/ RefuseLine(w) \/ StatementFails(w)
        PROVE  Inv'
    <3>1. LogAndContinue(w) /\ instance[w].pos \in 1 .. Len(topic)
      BY <2>4, MessageIsEvent DEF HandleMalformed, Handling, RefuseLine, StatementFails
    <3>2. Become(w, "commit") /\ instance[w].pos \in errored'
          /\ UNCHANGED <<topic, committed, owner, position>>
      BY <3>1 DEF LogAndContinue
    <3>a. instance[w].at # "fetch"
      BY <2>4 DEF HandleMalformed, Handling, RefuseLine, StatementFails
    <3>3. instance[w].pos \in Done'
      BY <3>1, <3>2 DEF Done
    <3>4. HandledInOrder'
      BY <2>s, <3>2, <3>3, <3>a DEF Steps
    <3>q. QED
      BY <2>c, <3>2, <3>4
  <2>5. ASSUME NEW w \in Instance, RecordRefusal(w) \/ InsertEntry(w)
        PROVE  Inv'
    <3>1. /\ UNCHANGED <<committed, owner, position>> /\ instance[w].at # "fetch"
          /\ \E a \in {"review", "entry"} : Become(w, a)
      BY <2>5 DEF RecordRefusal, InsertEntry, Handling
    <3>2. HandledInOrder'
      BY <2>s, <3>1 DEF Steps
    <3>q. QED
      BY <2>c, <3>1, <3>2
  <2>6. ASSUME NEW w \in Instance, RecordReview(w) \/ SkipPosted(w) \/ CommitEntry(w)
        PROVE  Inv'
    <3> DEFINE p == instance[w].pos
               e == topic[p]
    <3> USE DEF Message
    <3>1. UNCHANGED <<topic, committed, owner, position>> /\ Become(w, "commit")
          /\ instance[w].at # "fetch"
      BY <2>6 DEF RecordReview, SkipPosted, CommitEntry
    <3>2. e \in Event /\ p \in 1 .. Len(topic)
      BY <2>6, MessageIsEvent DEF RecordReview, SkipPosted, CommitEntry
    <3>3. entries \in [Event -> Nat] /\ reviews \in [Event -> Nat]
      BY DEF LedgerTypeOK, BooksOK
    <3>4. entries'[e] > 0 \/ reviews'[e] > 0
      <4>1. CASE RecordReview(w)
        BY <3>2, <3>3, <4>1 DEF RecordReview
      <4>2. CASE SkipPosted(w)
        BY <4>2 DEF SkipPosted
      <4>3. CASE CommitEntry(w)
        <5>1. entries' = [entries EXCEPT ![e] = entries[e] + 1]
          BY <4>3 DEF CommitEntry
        <5>2. entries[e] \in Nat /\ entries'[e] = entries[e] + 1
          BY <3>2, <3>3, <5>1
        <5>q. QED
          BY <5>2
      <4>q. QED
        BY <2>6, <4>1, <4>2, <4>3
    <3>5. p \in Done'
      BY <3>1, <3>2, <3>4 DEF Done, Answered
    <3>6. HandledInOrder'
      BY <2>s, <3>1, <3>5 DEF Steps
    <3>q. QED
      BY <2>c, <3>1, <3>6
  <2>7. ASSUME NEW w \in Instance, Crash(w)
        PROVE  Inv'
    <3>1. /\ instance' = [instance EXCEPT ![w] = Waiting] /\ UNCHANGED <<committed, position>>
          /\ owner' = IF owner = w THEN NoOne ELSE owner
      BY <2>7 DEF Crash
    <3>2. HandledInOrder'
      BY <2>w, <3>1
    <3>q. QED
      BY <2>c, <3>1, <3>2
  <2>8. CASE UNCHANGED ledgerVars
    BY <2>8 DEF ledgerVars, HandledInOrder, Done, Answered
  <2>9. ASSUME NEW w \in Instance, FetchMessage(w)
        PROVE  Inv'
    <3>1. /\ instance' = [instance EXCEPT ![w] = Doing("handle", position)] /\ owner = w
          /\ position' = position + 1 /\ UNCHANGED <<committed, owner>>
          /\ instance[w].at = "fetch"
      BY <2>9 DEF FetchMessage
    <3>2. /\ instance'[w].pos = position /\ instance'[w].at = "handle"
          /\ \A v \in Instance \ {w} : instance'[v] = instance[v]
      BY <2>t, <3>1 DEF Doing
    <3>3. instance[w].pos = 0
      BY <3>1 DEF LedgerTypeOK, InstancesOK
    <3>4. 1 .. position - 1 \subseteq Done'
      BY <2>h, <2>t, <3>1, <3>3 DEF HandledInOrder
    <3>5. 1 .. position' - 1 \subseteq Done' \cup {position}
      BY <2>t, <3>1, <3>4
    <3>6. HandledInOrder'
      BY <2>i, <3>1, <3>2, <3>4, <3>5
    <3>q. QED
      BY <2>c, <3>1, <3>6
  <2>q. QED
    BY <2>1, <2>2, <2>3, <2>4, <2>5, <2>6, <2>7, <2>8, <2>9 DEF LedgerNext, Consume
<1>q. QED
  BY <1>1, <1>2, LedgerTypeCorrect, PTL DEF LedgerSpec

\* Every committed message was handled to the end: across rebalances,
\* instances that go on without the partition, crashes, failed commits and
\* failed statements, the committed offset passes over no message.
THEOREM NothingIsPassedOver == LedgerSpec => []CommittedIsHandled
<1>1. 1 .. committed \subseteq Done => CommittedIsHandled
  BY DEF CommittedIsHandled, Done
<1>q. QED
  BY <1>1, OrderIsKept, PTL

--------------------------------------------------------------------------------
(* The ledger implements EventPosting. *)

\* What an event is decides what becomes of it.
KindsOK ==
    /\ \A e \in Event : /\ entries[e] > 0 => Class[e] = "posted"
                        /\ reviews[e] > 0 => Class[e] = "unposted"
    /\ \A w \in Instance : instance[w].at = "review" => Class[Message(w)] = "unposted"

\* A step that leaves the books alone keeps the kinds if whoever is about to
\* review is so already.
LEMMA KindsStay ==
    ASSUME LedgerTypeOK, LedgerTypeOK', KindsOK, NEW w \in Instance, topic' = topic,
           UNCHANGED <<entries, reviews>>, instance'[w].at # "review",
           \A v \in Instance \ {w} : instance'[v] = instance[v]
    PROVE  KindsOK'
<1>1. ASSUME NEW v \in Instance, instance'[v].at = "review"
      PROVE  Class[Message(v)'] = "unposted"
  <2>1. v # w /\ instance'[v] = instance[v] /\ Message(v)' = Message(v)
    BY <1>1 DEF Message
  <2>q. QED
    BY <1>1, <2>1 DEF KindsOK
<1>q. QED
  BY <1>1 DEF KindsOK

LEMMA KindsAreKept == LedgerSpec => []KindsOK
<1>1. LedgerInit => KindsOK
  BY DEF LedgerInit, KindsOK, Doing, Waiting
<1>2. LedgerTypeOK /\ LedgerTypeOK' /\ KindsOK /\ [LedgerNext]_ledgerVars => KindsOK'
  <2> SUFFICES ASSUME LedgerTypeOK, LedgerTypeOK', KindsOK, [LedgerNext]_ledgerVars
               PROVE  KindsOK'
    OBVIOUS
  <2>t. /\ instance \in [Instance -> [at : Steps, pos : Nat]]
        /\ entries \in [Event -> Nat] /\ reviews \in [Event -> Nat]
    BY DEF LedgerTypeOK, InstancesOK, BooksOK
  <2> USE DEF Fault, bookVars, groupVars
  <2>1. ASSUME NEW e \in Event, Publish(e)
        PROVE  KindsOK'
    <3>1. UNCHANGED <<instance, entries, reviews>> /\ topic' = Append(topic, e)
      BY <2>1 DEF Publish
    <3>2. \A i \in 1 .. Len(topic) : topic'[i] = topic[i]
      BY <3>1, AppendProperties DEF LedgerTypeOK
    <3>3. \A w \in Instance : instance[w].at # "fetch" => Message(w)' = Message(w)
      BY <3>1, <3>2, MessageIsEvent DEF Message
    <3>q. QED
      BY <3>1, <3>3 DEF KindsOK
  <2>2. ASSUME NEW w \in Instance, Assign(w) \/ Rebalance(w)
        PROVE  KindsOK'
    <3>1. UNCHANGED <<topic, instance, entries, reviews>>
      BY <2>2 DEF Assign, Rebalance, Take
    <3>q. QED
      BY <3>1 DEF KindsOK, Message
  \* A step of an instance that touches neither entries nor reviews and
  \* starts no review.
  <2>3. ASSUME NEW w \in Instance,
               \/ FetchMessage(w) \/ CommitMessages(w) \/ CommitFails(w) \/ HandleMalformed(w)
               \/ SkipPosted(w) \/ InsertEntry(w) \/ RefuseLine(w) \/ StatementFails(w)
               \/ Crash(w)
        PROVE  KindsOK'
    <3> USE DEF FetchMessage, CommitMessages, CommitFails, HandleMalformed, SkipPosted,
                InsertEntry, RefuseLine, StatementFails, Crash, LogAndContinue
    <3>1. UNCHANGED <<topic, entries, reviews>>
      BY <2>3
    <3>2. \E a \in {"fetch", "handle", "entry", "commit"}, p \in Nat :
              instance' = [instance EXCEPT ![w] = Doing(a, p)]
      <4>1. position \in Nat /\ instance[w].pos \in Nat /\ 0 \in Nat
        BY <2>t, LenProperties DEF LedgerTypeOK
      <4>q. QED
        BY <2>3, <4>1 DEF Become, Waiting
    <3>3. /\ instance'[w].at # "review"
          /\ \A v \in Instance \ {w} : instance'[v] = instance[v]
      BY <2>t, <3>2 DEF Doing
    <3>q. QED
      BY <3>1, <3>3, KindsStay
  <2>5. ASSUME NEW w \in Instance, RecordRefusal(w)
        PROVE  KindsOK'
    <3>1. /\ UNCHANGED <<topic, entries, reviews>> /\ Become(w, "review")
          /\ Class[Message(w)] = "unposted"
      BY <2>5 DEF RecordRefusal, Handling
    <3>2. /\ instance'[w].pos = instance[w].pos
          /\ \A v \in Instance \ {w} : instance'[v] = instance[v]
      BY <2>t, <3>1 DEF Become, Doing
    <3>3. \A v \in Instance : Message(v)' = Message(v)
      BY <3>1, <3>2 DEF Message
    <3>q. QED
      BY <3>1, <3>2, <3>3 DEF KindsOK
  <2>6. ASSUME NEW w \in Instance, RecordReview(w) \/ CommitEntry(w)
        PROVE  KindsOK'
    <3> DEFINE m == Message(w)
    <3>1. topic' = topic /\ Become(w, "commit")
      BY <2>6 DEF RecordReview, CommitEntry
    <3>2. /\ instance'[w].at = "commit" /\ instance'[w].pos = instance[w].pos
          /\ \A v \in Instance \ {w} : instance'[v] = instance[v]
      BY <2>t, <3>1 DEF Become, Doing
    <3>3. \/ /\ Class[m] = "unposted" /\ entries' = entries
             /\ reviews' = [reviews EXCEPT ![m] = @ + 1]
          \/ /\ Class[m] = "posted" /\ reviews' = reviews
             /\ entries' = [entries EXCEPT ![m] = @ + 1]
      BY <2>6 DEF RecordReview, CommitEntry, KindsOK
    <3>4. \A d \in Event : /\ entries'[d] > 0 => Class[d] = "posted"
                           /\ reviews'[d] > 0 => Class[d] = "unposted"
      BY <2>t, <3>3 DEF KindsOK
    <3>5. \A v \in Instance : instance'[v].at = "review" => Class[Message(v)'] = "unposted"
      BY <3>1, <3>2 DEF KindsOK, Message
    <3>q. QED
      BY <3>4, <3>5 DEF KindsOK
  <2>8. CASE UNCHANGED ledgerVars
    BY <2>8 DEF ledgerVars, KindsOK, Message
  <2>q. QED
    BY <2>1, <2>2, <2>3, <2>5, <2>6, <2>8 DEF LedgerNext, Consume
<1>q. QED
  BY <1>1, <1>2, LedgerTypeCorrect, PTL DEF LedgerSpec

\* A step of the promise by a named action is a step of the promise.
LEMMA PostingStep ==
    /\ \A d \in Event : /\ Posting!Announce(d) => Posting!PostingNext
                        /\ Posting!Post(d) => Posting!PostingNext
                        /\ Posting!Review(d) => Posting!PostingNext
    /\ \A i \in 1 .. Len(topic) : Posting!GiveUp(i) \/ Posting!Commit(i)
                                => Posting!PostingNext
BY DEF Posting!PostingNext

\* An instance that commits an entry posts an event nobody has posted.
LEMMA CommitPosts ==
    ASSUME LedgerTypeOK, KindsOK, KeyIsHeld, PostedOnce, NEW w \in Instance, CommitEntry(w)
    PROVE  Posting!Post(Message(w))
<1> DEFINE m == Message(w)
<1>1. instance[w].at = "entry" /\ Class[m] = "posted"
  BY DEF CommitEntry
<1>2. m \in Event /\ instance[w].pos \in 1 .. Len(topic)
  BY <1>1, MessageIsEvent
<1>3. entries[m] = 0 /\ lines[m] = <<>>
  <2>1. open[m] = w /\ w # NoOne
    BY <1>1, LedgerAssumption DEF KeyIsHeld
  <2>2. entries[m] = 0
    BY <1>2, <2>1 DEF KeyIsHeld
  <2>q. QED
    BY <1>2, <2>2 DEF PostedOnce
<1>4. ~ (reviews[m] > 0)
  BY <1>1, <1>2 DEF KindsOK
<1>5. Posting!Published(m)
  BY <1>2 DEF Posting!Published, Message
<1> HIDE DEF m
<1>6. entries' = [entries EXCEPT ![m] = 1]
  BY <1>3 DEF CommitEntry, m
<1>7. lines' = [lines EXCEPT ![m] = <<"debit", "credit">>]
  <2>1. lines' = [lines EXCEPT ![m] = <<>> \o <<"debit", "credit">>]
    BY <1>3 DEF CommitEntry, m
  <2>2. <<>> \o <<"debit", "credit">> = <<"debit", "credit">>
    OBVIOUS
  <2>q. QED
    BY <2>1, <2>2
<1>8. /\ queued' = IF Connected THEN queued \cup {m} ELSE queued
      /\ UNCHANGED <<topic, reviews, errored, committed>>
  BY DEF CommitEntry, groupVars, m
<1>q. QED
  BY <1>3, <1>4, <1>5, <1>6, <1>7, <1>8 DEF Posting!Post, m

\* An instance that records a review puts an event in front of a reviewer
\* that has no entry, and never will.
LEMMA RecordReviews ==
    ASSUME LedgerTypeOK, KindsOK, NEW w \in Instance, RecordReview(w)
    PROVE  \E d \in Event : Posting!Review(d)
<1> DEFINE m == Message(w)
<1>1. instance[w].at = "review" /\ Class[m] = "unposted"
  BY DEF RecordReview, KindsOK
<1>2. m \in Event /\ instance[w].pos \in 1 .. Len(topic)
  BY <1>1, MessageIsEvent
<1>3. entries \in [Event -> Nat] /\ reviews \in [Event -> Nat]
  BY DEF LedgerTypeOK, BooksOK
<1>4. entries[m] = 0
  BY <1>1, <1>2, <1>3 DEF KindsOK
<1>5. Posting!Published(m)
  BY <1>2 DEF Posting!Published, Message
<1> HIDE DEF m
<1>6. reviews' = [reviews EXCEPT ![m] = reviews[m] + 1]
  BY DEF RecordReview, m
<1>7. {e \in Event : reviews'[e] > 0} = {e \in Event : reviews[e] > 0} \cup {m}
  BY <1>2, <1>3, <1>6
<1>8. UNCHANGED <<topic, entries, lines, queued, errored, committed>>
  BY DEF RecordReview, groupVars
<1>q. QED
  BY <1>2, <1>4, <1>5, <1>7, <1>8 DEF Posting!Review

\* Wherever a commit puts the offset, forward or back, the handling of the
\* messages before it has ended.
LEMMA CommitCovers ==
    ASSUME LedgerTypeOK, HandledInOrder, NEW w \in Instance, CommitMessages(w),
           committed' = instance[w].pos
    PROVE  instance[w].pos \in 1 .. Len(topic) /\ Posting!Commit(instance[w].pos)
<1>1. instance[w].at = "commit"
  BY DEF CommitMessages
<1>2. instance[w].pos \in 1 .. Len(topic)
  BY <1>1, MessageIsEvent
<1>3. 1 .. instance[w].pos \subseteq Done
  BY <1>1, <1>2 DEF HandledInOrder
<1>4. \A i \in 1 .. Len(topic) : topic[i] \in Event
  BY ElementOfSeq DEF LedgerTypeOK
<1>5. \A i \in 1 .. instance[w].pos : Posting!Settled(i)
  BY <1>3, <1>4 DEF Done, Answered, Posting!Settled
<1>6. UNCHANGED <<topic, entries, lines, queued, reviews, errored>>
  BY DEF CommitMessages, bookVars
<1>q. QED
  BY <1>2, <1>5, <1>6 DEF Posting!Commit

\* With the instances, their keys and the redeliveries hidden, the ledger is
\* EventPosting: each step posts an event for the first time, reviews one,
\* gives a message up, commits an offset behind which all is handled, or
\* changes nothing that the promise speaks of.
THEOREM PostingImplemented == LedgerSpec => ImplementsPosting
<1> DEFINE Inv == /\ LedgerTypeOK /\ KeyIsHeld /\ PostedOnce
                  /\ HandledInOrder /\ KindsOK
<1>1. LedgerInit => Posting!PostingInit
  BY DEF LedgerInit, Posting!PostingInit
<1>2. Inv /\ [LedgerNext]_ledgerVars => [Posting!PostingNext]_(Posting!postingVars)
  <2> SUFFICES ASSUME Inv, [LedgerNext]_ledgerVars
               PROVE  [Posting!PostingNext]_(Posting!postingVars)
    OBVIOUS
  <2> USE DEF bookVars, groupVars
  <2>1. ASSUME NEW e \in Event, Publish(e)
        PROVE  Posting!PostingNext
    <3>1. Posting!Announce(e)
      BY <2>1 DEF Publish, Posting!Announce
    <3>q. QED
      BY <3>1, PostingStep
  <2>2. ASSUME NEW w \in Instance, CommitEntry(w)
        PROVE  Posting!PostingNext
    <3>1. Message(w) \in Event
      BY <2>2, MessageIsEvent DEF CommitEntry
    <3>2. Posting!Post(Message(w))
      BY <2>2, CommitPosts
    <3>q. QED
      BY <3>1, <3>2, PostingStep
  <2>3. ASSUME NEW w \in Instance, RecordReview(w)
        PROVE  Posting!PostingNext
    <3>1. PICK d \in Event : Posting!Review(d)
      BY <2>3, RecordReviews
    <3>q. QED
      BY <3>1, PostingStep
  <2>4. ASSUME NEW w \in Instance, CommitMessages(w)
        PROVE  Posting!PostingNext \/ UNCHANGED Posting!postingVars
    <3>1. CASE committed' = instance[w].pos
      BY <2>4, <3>1, CommitCovers, PostingStep
    <3>2. CASE committed' = committed
      BY <2>4, <3>2 DEF CommitMessages, Posting!postingVars
    <3>q. QED
      BY <2>4, <3>1, <3>2 DEF CommitMessages
  <2>5. ASSUME NEW w \in Instance, HandleMalformed(w) \/ RefuseLine(w) \/ StatementFails(w)
        PROVE  Posting!PostingNext
    <3>1. instance[w].at # "fetch"
      BY <2>5 DEF HandleMalformed, Handling, RefuseLine, StatementFails
    <3>2. instance[w].pos \in 1 .. Len(topic)
      BY <3>1, MessageIsEvent
    <3>3. /\ errored' = errored \cup {instance[w].pos}
          /\ UNCHANGED <<topic, entries, lines, queued, reviews, committed>>
      BY <2>5 DEF HandleMalformed, RefuseLine, StatementFails, LogAndContinue
    <3>4. Posting!GiveUp(instance[w].pos)
      BY <3>3 DEF Posting!GiveUp
    <3>q. QED
      BY <3>2, <3>4, PostingStep
  <2>6. ASSUME NEW w \in Instance,
               \/ Assign(w) \/ Rebalance(w) \/ FetchMessage(w) \/ CommitFails(w)
               \/ RecordRefusal(w) \/ SkipPosted(w) \/ InsertEntry(w) \/ Crash(w)
        PROVE  UNCHANGED Posting!postingVars
    <3>1. UNCHANGED <<topic, entries, lines, queued, reviews, errored, committed>>
      BY <2>6 DEF Assign, Rebalance, Take, FetchMessage, CommitFails, RecordRefusal, SkipPosted,
                  InsertEntry, Crash
    <3>q. QED
      BY <3>1 DEF Posting!postingVars
  <2>7. CASE UNCHANGED ledgerVars
    BY <2>7 DEF ledgerVars, Posting!postingVars
  <2>q. QED
    BY <2>1, <2>2, <2>3, <2>4, <2>5, <2>6, <2>7 DEF LedgerNext, Consume
<1>q. QED
  BY <1>1, <1>2, LedgerTypeCorrect, KeyIsUnique, OrderIsKept, KindsAreKept,
     PTL DEF LedgerSpec, ImplementsPosting, Posting!PostingSpec
================================================================================
