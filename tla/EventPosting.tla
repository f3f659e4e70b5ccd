----------------------------- MODULE EventPosting -----------------------------
(***************************************************************************)
(* What the ledger promises about the topic erp.events, however many       *)
(* instances consume it and whatever is delivered twice, lost or crashed:  *)
(* a published event is posted at most once, as one debit and one credit   *)
(* that are queued for the external ledger in the same step; an event is   *)
(* posted or reviewed, never both; and a commit may put the offset forward *)
(* or back, but never past a message whose handling has not ended.         *)
(***************************************************************************)
EXTENDS Integers, Sequences

CONSTANTS Event, Connected

VARIABLES topic,      \* the messages published
          entries,    \* the journal entries of an event
          lines,      \* their lines
          queued,     \* events to be synchronised with the external ledger
          reviewed,   \* events put in front of a reviewer
          errored,    \* offsets whose handling ended in a logged error
          committed   \* messages 1 .. committed are not delivered at the next start

postingVars == <<topic, entries, lines, queued, reviewed, errored, committed>>

PostingInit ==
    /\ topic = <<>> /\ committed = 0 /\ errored = {}
    /\ entries = [e \in Event |-> 0] /\ lines = [e \in Event |-> <<>>]
    /\ queued = {} /\ reviewed = {}

Published(e) == \E i \in 1 .. Len(topic) : topic[i] = e
Settled(i) == entries[topic[i]] > 0 \/ topic[i] \in reviewed \/ i \in errored

Announce(e) ==
    /\ topic' = Append(topic, e)
    /\ UNCHANGED <<entries, lines, queued, reviewed, errored, committed>>

Post(e) ==
    /\ Published(e) /\ entries[e] = 0 /\ e \notin reviewed
    /\ entries' = [entries EXCEPT ![e] = 1]
    /\ lines' = [lines EXCEPT ![e] = <<"debit", "credit">>]
    /\ queued' = IF Connected THEN queued \cup {e} ELSE queued
    /\ UNCHANGED <<topic, reviewed, errored, committed>>

Review(e) ==
    /\ Published(e) /\ entries[e] = 0
    /\ reviewed' = reviewed \cup {e}
    /\ UNCHANGED <<topic, entries, lines, queued, errored, committed>>

GiveUp(i) ==
    /\ errored' = errored \cup {i}
    /\ UNCHANGED <<topic, entries, lines, queued, reviewed, committed>>

Commit(n) ==
    /\ \A i \in 1 .. n : Settled(i)
    /\ committed' = n
    /\ UNCHANGED <<topic, entries, lines, queued, reviewed, errored>>

PostingNext ==
    \/ \E e \in Event : Announce(e) \/ Post(e) \/ Review(e)
    \/ \E i \in 1 .. Len(topic) : GiveUp(i) \/ Commit(i)

PostingSpec == PostingInit /\ [][PostingNext]_postingVars
================================================================================
