------------------------ MODULE TradingCapital_proofs ------------------------
(***************************************************************************)
(* Proofs about TradingCapital, for every set of handlers, agents, orders  *)
(* and NCRs, every value of an order and every number of requests.         *)
(***************************************************************************)
EXTENDS TradingCapital, TLAPS

\* An idle handler's job is well typed.
LEMMA IdleJob == Idle \in Jobs /\ Idle.at = "idle"
BY DocsAssumption DEF Idle, Job, Jobs, Doc

--------------------------------------------------------------------------------
(* Type correctness. *)

\* Every step keeps every variable in its type.
THEOREM TypeCorrect == Spec => []TypeOK
<1> USE DocsAssumption, MoneyAssumption, RequestsAssumption, IdleJob
<1>1. Init => TypeOK
  BY DEF Init, TypeOK, OrderSteps, NcrSteps
<1>2. TypeOK /\ [Next]_vars => TypeOK'
  <2> SUFFICES ASSUME TypeOK, [Next]_vars
               PROVE  TypeOK'
    OBVIOUS
  <2> USE DEF At, Job, db, TypeOK, Jobs, Doc, OrderSteps, NcrSteps
  <2>1. ASSUME NEW h \in Handler, NEW o \in Order, Receive(h, o, "lookup")
        PROVE  TypeOK'
    BY <2>1 DEF Receive
  <2>2. ASSUME NEW h \in Handler, NEW n \in Ncr, Receive(h, n, "findNcr")
        PROVE  TypeOK'
    BY <2>2 DEF Receive
  <2>3. ASSUME NEW h \in Handler, NEW n \in Ncr, Receive(h, n, "authorize")
        PROVE  TypeOK'
    BY <2>3 DEF Receive
  <2>4. ASSUME NEW h \in Handler, ReplayOrder(h)
        PROVE  TypeOK'
    BY <2>4 DEF ReplayOrder, Answer, AnswerFor, Finish
  <2>5. ASSUME NEW h \in Handler, BeginOrder(h)
        PROVE  TypeOK'
    BY <2>5 DEF BeginOrder, Goto
  <2>6. ASSUME NEW h \in Handler, CheckCapital(h)
        PROVE  TypeOK'
    BY <2>6 DEF CheckCapital, Available
  <2>7. ASSUME NEW h \in Handler, UnknownParty(h)
        PROVE  TypeOK'
    BY <2>7 DEF UnknownParty, Finish
  <2>8. ASSUME NEW h \in Handler, ConfirmAgentOrder(h)
        PROVE  TypeOK'
    BY <2>8 DEF ConfirmAgentOrder, CommitOver, ReadsExposureOf, WithinCapital,
       LedgerAccepts
  <2>9. ASSUME NEW h \in Handler, ConfirmDirectOrder(h)
        PROVE  TypeOK'
    BY <2>9 DEF ConfirmDirectOrder, Goto
  <2>10. ASSUME NEW h \in Handler, ParkOrder(h)
        PROVE  TypeOK'
    BY <2>10 DEF ParkOrder, Answer, AnswerFor, Finish
  <2>11. ASSUME NEW h \in Handler, RollBackOrder(h)
        PROVE  TypeOK'
    BY <2>11 DEF RollBackOrder, Finish
  <2>12. ASSUME NEW h \in Handler, PublishOrder(h)
        PROVE  TypeOK'
    BY <2>12 DEF PublishOrder, Announce, Answer, AnswerFor, Finish
  <2>13. ASSUME NEW h \in Handler, ReplayNcr(h)
        PROVE  TypeOK'
    BY <2>13 DEF ReplayNcr, Finish
  <2>14. ASSUME NEW h \in Handler, BeginNcr(h)
        PROVE  TypeOK'
    BY <2>14 DEF BeginNcr, Goto
  <2>15. ASSUME NEW h \in Handler, InsertNcr(h)
        PROVE  TypeOK'
    BY <2>15 DEF InsertNcr, Finish
  <2>16. ASSUME NEW h \in Handler, Authorize(h)
        PROVE  TypeOK'
    BY <2>16 DEF Authorize, Goto
  <2>17. ASSUME NEW h \in Handler, RefuseVerification(h)
        PROVE  TypeOK'
    BY <2>17 DEF RefuseVerification, Finish
  <2>18. ASSUME NEW h \in Handler, ReadNcr(h)
        PROVE  TypeOK'
    BY <2>18 DEF ReadNcr
  <2>19. ASSUME NEW h \in Handler, VerifyNcr(h)
        PROVE  TypeOK'
    BY <2>19 DEF VerifyNcr, CommitOver, ReadsFlagOf
  <2>20. ASSUME NEW h \in Handler, PublishNcr(h)
        PROVE  TypeOK'
    BY <2>20 DEF PublishNcr, Announce, Finish
  <2>21. ASSUME NEW h \in Handler, Fail(h)
        PROVE  TypeOK'
    BY <2>21 DEF Fail, Publishing, Finish
  <2>22. ASSUME NEW h \in Handler, PublishUnacknowledged(h)
        PROVE  TypeOK'
    BY <2>22 DEF PublishUnacknowledged, Publishing, Announce, Finish
  <2>23. CASE UNCHANGED vars
    BY <2>23 DEF vars
  <2>q. QED
    BY <2>1, <2>2, <2>3, <2>4, <2>5, <2>6, <2>7, <2>8, <2>9, <2>10, <2>11, <2>12,
       <2>13, <2>14, <2>15, <2>16, <2>17, <2>18, <2>19, <2>20, <2>21, <2>22, <2>23 DEF
       Next, Step
<1>q. QED
  BY <1>1, <1>2, PTL DEF Spec

--------------------------------------------------------------------------------
(* The ledger and the documents. *)

\* The five commits that change the database.
LEMMA DatabaseFrame ==
    ASSUME [Next]_vars
    PROVE  \/ UNCHANGED db
           \/ \E h \in Handler :
                \/ ConfirmAgentOrder(h) \/ ConfirmDirectOrder(h) \/ ParkOrder(h)
                \/ InsertNcr(h) \/ VerifyNcr(h)
<1>1. ASSUME NEW h \in Handler, NEW d, NEW step, Receive(h, d, step)
      PROVE  UNCHANGED db
  BY <1>1 DEF Receive
<1>2. ASSUME NEW h \in Handler,
             \/ ReplayOrder(h) \/ BeginOrder(h) \/ CheckCapital(h) \/ UnknownParty(h)
             \/ RollBackOrder(h) \/ PublishOrder(h)
      PROVE  UNCHANGED db
  BY <1>2 DEF ReplayOrder, BeginOrder, CheckCapital, UnknownParty, RollBackOrder,
              PublishOrder
<1>3. ASSUME NEW h \in Handler,
             \/ ReplayNcr(h) \/ BeginNcr(h) \/ Authorize(h) \/ RefuseVerification(h)
             \/ ReadNcr(h) \/ PublishNcr(h)
      PROVE  UNCHANGED db
  BY <1>3 DEF ReplayNcr, BeginNcr, Authorize, RefuseVerification, ReadNcr, PublishNcr
<1>4. ASSUME NEW h \in Handler, Fail(h) \/ PublishUnacknowledged(h)
      PROVE  UNCHANGED db
  BY <1>4 DEF Fail, PublishUnacknowledged
<1>5. ASSUME NEW h \in Handler, Step(h)
      PROVE  \/ UNCHANGED db
             \/ ConfirmAgentOrder(h) \/ ConfirmDirectOrder(h) \/ ParkOrder(h)
             \/ InsertNcr(h) \/ VerifyNcr(h)
  BY <1>2, <1>3, <1>5 DEF Step
<1>6. CASE UNCHANGED vars
  BY <1>6 DEF vars, db
<1>q. QED
  BY <1>1, <1>4, <1>5, <1>6 DEF Next

\* One debit per confirmed agent order, none for any other order, capital back
\* only from verified NCRs: in every interleaving of any number of handlers.
THEOREM LedgerIsExact == Spec => []LedgerMatchesDocuments
<1> USE DocsAssumption, MoneyAssumption
<1>1. Init => LedgerMatchesDocuments
  BY DEF Init, LedgerMatchesDocuments
<1>2. TypeOK /\ LedgerMatchesDocuments /\ [Next]_vars => LedgerMatchesDocuments'
  <2> SUFFICES ASSUME TypeOK, LedgerMatchesDocuments, [Next]_vars
               PROVE  LedgerMatchesDocuments'
    OBVIOUS
  <2> USE DEF At, TypeOK, LedgerMatchesDocuments, OrderSteps, NcrSteps
  <2>1. CASE UNCHANGED db
    BY <2>1 DEF db
  <2>2. ASSUME NEW h \in Handler, ConfirmAgentOrder(h)
        PROVE  LedgerMatchesDocuments'
    BY <2>2 DEF ConfirmAgentOrder
  <2>3. ASSUME NEW h \in Handler, ConfirmDirectOrder(h)
        PROVE  LedgerMatchesDocuments'
    BY <2>3 DEF ConfirmDirectOrder
  <2>4. ASSUME NEW h \in Handler, ParkOrder(h)
        PROVE  LedgerMatchesDocuments'
    BY <2>4 DEF ParkOrder
  <2>5. ASSUME NEW h \in Handler, InsertNcr(h)
        PROVE  LedgerMatchesDocuments'
    BY <2>5 DEF InsertNcr
  <2>6. ASSUME NEW h \in Handler, VerifyNcr(h)
        PROVE  LedgerMatchesDocuments'
    BY <2>6 DEF VerifyNcr
  <2>q. QED
    BY <2>1, <2>2, <2>3, <2>4, <2>5, <2>6, DatabaseFrame
<1>q. QED
  BY <1>1, <1>2, TypeCorrect, PTL DEF Spec

--------------------------------------------------------------------------------
(* The capital gate. *)

\* What makes the gate inductive: a read no commit has overtaken is still a
\* lower bound of the capital that is left, and an NCR read as unverified has
\* not been credited.
FreshReads ==
    \A h \in Handler : ~job[h].stale =>
        LET d == job[h].doc
        IN  /\ At(h, "write") => exposure[OwnerOf[d]] + job[h].avail <= Approved[OwnerOf[d]]
            /\ At(h, "verify") => credits[d] = 0

\* An agent exceeds the approved capital, or an NCR is credited twice, only
\* after a commit on an overtaken read.
THEOREM GateIsSound == Spec => []GateHoldsUnlessOvertaken
<1> DEFINE Inv == FreshReads /\ GateHoldsUnlessOvertaken
<1> USE DocsAssumption, MoneyAssumption, IdleJob
<1>1. Init => Inv
  BY DEF Init, FreshReads, GateHoldsUnlessOvertaken, At
<1>2. TypeOK /\ LedgerMatchesDocuments /\ Inv /\ [Next]_vars => Inv'
  <2> SUFFICES ASSUME TypeOK, LedgerMatchesDocuments, Inv, [Next]_vars
               PROVE  Inv'
    OBVIOUS
  <2> USE DEF At, Job, db, TypeOK, Jobs, Doc, OrderSteps, NcrSteps, FreshReads,
              GateHoldsUnlessOvertaken
  <2>1. ASSUME NEW h \in Handler, NEW o \in Order, Receive(h, o, "lookup")
        PROVE  Inv'
    BY <2>1 DEF Receive
  <2>2. ASSUME NEW h \in Handler, NEW n \in Ncr, Receive(h, n, "findNcr")
        PROVE  Inv'
    BY <2>2 DEF Receive
  <2>3. ASSUME NEW h \in Handler, NEW n \in Ncr, Receive(h, n, "authorize")
        PROVE  Inv'
    BY <2>3 DEF Receive
  <2>4. ASSUME NEW h \in Handler, ReplayOrder(h)
        PROVE  Inv'
    BY <2>4 DEF ReplayOrder, Answer, AnswerFor, Finish
  <2>5. ASSUME NEW h \in Handler, BeginOrder(h)
        PROVE  Inv'
    BY <2>5 DEF BeginOrder, Goto
  <2>6. ASSUME NEW h \in Handler, CheckCapital(h)
        PROVE  Inv'
    <3>1. PICK q : q = [at |-> "write", doc |-> job[h].doc,
                        avail |-> Approved[OwnerOf[job[h].doc]] - exposure[OwnerOf[job[h].doc]],
                        stale |-> FALSE]
      OBVIOUS
    <3>2. job' = [job EXCEPT ![h] = q]
      BY <2>6, <3>1 DEF CheckCapital, Available
    <3>3. exposure[OwnerOf[q.doc]] + q.avail <= Approved[OwnerOf[q.doc]] /\ q.at = "write"
      BY <2>6, <3>1 DEF CheckCapital
    <3>4. \A k \in Handler : job'[k] = q \/ job'[k] = job[k]
      BY <3>2
    <3>5. /\ exposure' = exposure /\ credits' = credits /\ overtaken' = overtaken
      BY <2>6 DEF CheckCapital
    <3>6. GateHoldsUnlessOvertaken'
      BY <3>5
    <3>7. FreshReads'
      BY <3>3, <3>4, <3>5
    <3>q. QED
      BY <3>6, <3>7
  <2>7. ASSUME NEW h \in Handler, UnknownParty(h)
        PROVE  Inv'
    BY <2>7 DEF UnknownParty, Finish
  <2>8. ASSUME NEW h \in Handler, ConfirmAgentOrder(h)
        PROVE  Inv'
    <3> DEFINE o == job[h].doc
               a == OwnerOf[o]
    <3>1. /\ o \in Order /\ a \in Agent /\ job[h].avail \in Int
          /\ Value[o] <= job[h].avail
      BY <2>8 DEF ConfirmAgentOrder, WithinCapital
    <3>2. /\ exposure' = [exposure EXCEPT ![a] = @ + Value[o]]
          /\ credits' = credits
          /\ overtaken' = IF job[h].stale THEN overtaken \cup {a} ELSE overtaken
      BY <2>8 DEF ConfirmAgentOrder
    <3>3. /\ job'[h].at = "publish"
          /\ \A g \in Handler \ {h} :
                /\ job'[g].at = job[g].at /\ job'[g].doc = job[g].doc
                /\ job'[g].avail = job[g].avail
                /\ ~job'[g].stale => /\ ~job[g].stale
                                     /\ job[g].at = "write" => OwnerOf[job[g].doc] # a
      BY <2>8 DEF ConfirmAgentOrder, CommitOver, ReadsExposureOf
    <3>4. FreshReads'
      BY <3>1, <3>2, <3>3
    <3>5. GateHoldsUnlessOvertaken'
      BY <2>8, <3>1, <3>2 DEF ConfirmAgentOrder
    <3>q. QED
      BY <3>4, <3>5
  <2>9. ASSUME NEW h \in Handler, ConfirmDirectOrder(h)
        PROVE  Inv'
    BY <2>9 DEF ConfirmDirectOrder, Goto
  <2>10. ASSUME NEW h \in Handler, ParkOrder(h)
        PROVE  Inv'
    BY <2>10 DEF ParkOrder, Answer, AnswerFor, Finish
  <2>11. ASSUME NEW h \in Handler, RollBackOrder(h)
        PROVE  Inv'
    BY <2>11 DEF RollBackOrder, Finish
  <2>12. ASSUME NEW h \in Handler, PublishOrder(h)
        PROVE  Inv'
    BY <2>12 DEF PublishOrder, Announce, Answer, AnswerFor, Finish
  <2>13. ASSUME NEW h \in Handler, ReplayNcr(h)
        PROVE  Inv'
    BY <2>13 DEF ReplayNcr, Finish
  <2>14. ASSUME NEW h \in Handler, BeginNcr(h)
        PROVE  Inv'
    BY <2>14 DEF BeginNcr, Goto
  <2>15. ASSUME NEW h \in Handler, InsertNcr(h)
        PROVE  Inv'
    BY <2>15 DEF InsertNcr, Finish
  <2>16. ASSUME NEW h \in Handler, Authorize(h)
        PROVE  Inv'
    BY <2>16 DEF Authorize, Goto
  <2>17. ASSUME NEW h \in Handler, RefuseVerification(h)
        PROVE  Inv'
    BY <2>17 DEF RefuseVerification, Finish
  <2>18. ASSUME NEW h \in Handler, ReadNcr(h)
        PROVE  Inv'
    BY <2>18 DEF ReadNcr, LedgerMatchesDocuments
  <2>19. ASSUME NEW h \in Handler, VerifyNcr(h)
        PROVE  Inv'
    <3> DEFINE n == job[h].doc
               a == OwnerOf[n]
    <3>1. n \in Ncr /\ a \in Agent /\ Amount[n] \in Nat /\ n \notin Agent
      BY <2>19 DEF VerifyNcr
    <3>2. /\ exposure' = [exposure EXCEPT ![a] = @ - Amount[n]]
          /\ credits' = [credits EXCEPT ![n] = @ + 1]
          /\ overtaken' = IF job[h].stale THEN overtaken \cup {n} ELSE overtaken
      BY <2>19 DEF VerifyNcr
    <3>3. /\ job'[h].at = "publishNcr"
          /\ \A g \in Handler \ {h} :
                /\ job'[g].at = job[g].at /\ job'[g].doc = job[g].doc
                /\ job'[g].avail = job[g].avail
                /\ ~job'[g].stale => /\ ~job[g].stale
                                     /\ job[g].at = "verify" => job[g].doc # n
      BY <2>19 DEF VerifyNcr, CommitOver, ReadsFlagOf
    <3>4. FreshReads'
      BY <3>1, <3>2, <3>3
    <3>5. GateHoldsUnlessOvertaken'
      BY <2>19, <3>1, <3>2 DEF VerifyNcr
    <3>q. QED
      BY <3>4, <3>5
  <2>20. ASSUME NEW h \in Handler, PublishNcr(h)
        PROVE  Inv'
    BY <2>20 DEF PublishNcr, Announce, Finish
  <2>21. ASSUME NEW h \in Handler, Fail(h)
        PROVE  Inv'
    BY <2>21 DEF Fail, Publishing, Finish
  <2>22. ASSUME NEW h \in Handler, PublishUnacknowledged(h)
        PROVE  Inv'
    BY <2>22 DEF PublishUnacknowledged, Publishing, Announce, Finish
  <2>23. CASE UNCHANGED vars
    BY <2>23 DEF vars
  <2>q. QED
    BY <2>1, <2>2, <2>3, <2>4, <2>5, <2>6, <2>7, <2>8, <2>9, <2>10, <2>11, <2>12,
       <2>13, <2>14, <2>15, <2>16, <2>17, <2>18, <2>19, <2>20, <2>21, <2>22, <2>23 DEF
       Next, Step
<1>3. Inv => GateHoldsUnlessOvertaken
  OBVIOUS
<1>q. QED
  BY <1>1, <1>2, <1>3, TypeCorrect, LedgerIsExact, PTL DEF Spec

--------------------------------------------------------------------------------
(* Answers and events. *)

\* Only a handler that confirmed an order publishes it, and nothing is
\* published, dropped or owed for an order that is not confirmed.
OnlyConfirmed ==
    /\ \A h \in Handler : At(h, "publish") => orders[job[h].doc] = "CONFIRMED"
    /\ \A o \in Order : orders[o] # "CONFIRMED" => events[o] = 0 /\ o \notin dropped

LEMMA OnlyConfirmedHolds == Spec => []OnlyConfirmed
<1> USE DocsAssumption, IdleJob
<1>1. Init => OnlyConfirmed
  BY DEF Init, OnlyConfirmed, At, Doc
<1>2. TypeOK /\ OnlyConfirmed /\ [Next]_vars => OnlyConfirmed'
  <2> SUFFICES ASSUME TypeOK, OnlyConfirmed, [Next]_vars
               PROVE  OnlyConfirmed'
    OBVIOUS
  <2> USE DEF At, Job, db, TypeOK, Jobs, Doc, OrderSteps, NcrSteps, OnlyConfirmed
  <2>1. ASSUME NEW h \in Handler, NEW o \in Order, Receive(h, o, "lookup")
        PROVE  OnlyConfirmed'
    BY <2>1 DEF Receive
  <2>2. ASSUME NEW h \in Handler, NEW n \in Ncr, Receive(h, n, "findNcr")
        PROVE  OnlyConfirmed'
    BY <2>2 DEF Receive
  <2>3. ASSUME NEW h \in Handler, NEW n \in Ncr, Receive(h, n, "authorize")
        PROVE  OnlyConfirmed'
    BY <2>3 DEF Receive
  <2>4. ASSUME NEW h \in Handler, ReplayOrder(h)
        PROVE  OnlyConfirmed'
    BY <2>4 DEF ReplayOrder, Answer, AnswerFor, Finish
  <2>5. ASSUME NEW h \in Handler, BeginOrder(h)
        PROVE  OnlyConfirmed'
    BY <2>5 DEF BeginOrder, Goto
  <2>6. ASSUME NEW h \in Handler, CheckCapital(h)
        PROVE  OnlyConfirmed'
    BY <2>6 DEF CheckCapital, Available
  <2>7. ASSUME NEW h \in Handler, UnknownParty(h)
        PROVE  OnlyConfirmed'
    BY <2>7 DEF UnknownParty, Finish
  <2>8. ASSUME NEW h \in Handler, ConfirmAgentOrder(h)
        PROVE  OnlyConfirmed'
    BY <2>8 DEF ConfirmAgentOrder, CommitOver, ReadsExposureOf, WithinCapital,
       LedgerAccepts
  <2>9. ASSUME NEW h \in Handler, ConfirmDirectOrder(h)
        PROVE  OnlyConfirmed'
    BY <2>9 DEF ConfirmDirectOrder, Goto
  <2>10. ASSUME NEW h \in Handler, ParkOrder(h)
        PROVE  OnlyConfirmed'
    BY <2>10 DEF ParkOrder, Answer, AnswerFor, Finish
  <2>11. ASSUME NEW h \in Handler, RollBackOrder(h)
        PROVE  OnlyConfirmed'
    BY <2>11 DEF RollBackOrder, Finish
  <2>12. ASSUME NEW h \in Handler, PublishOrder(h)
        PROVE  OnlyConfirmed'
    BY <2>12 DEF PublishOrder, Announce, Answer, AnswerFor, Finish
  <2>13. ASSUME NEW h \in Handler, ReplayNcr(h)
        PROVE  OnlyConfirmed'
    BY <2>13 DEF ReplayNcr, Finish
  <2>14. ASSUME NEW h \in Handler, BeginNcr(h)
        PROVE  OnlyConfirmed'
    BY <2>14 DEF BeginNcr, Goto
  <2>15. ASSUME NEW h \in Handler, InsertNcr(h)
        PROVE  OnlyConfirmed'
    BY <2>15 DEF InsertNcr, Finish
  <2>16. ASSUME NEW h \in Handler, Authorize(h)
        PROVE  OnlyConfirmed'
    BY <2>16 DEF Authorize, Goto
  <2>17. ASSUME NEW h \in Handler, RefuseVerification(h)
        PROVE  OnlyConfirmed'
    BY <2>17 DEF RefuseVerification, Finish
  <2>18. ASSUME NEW h \in Handler, ReadNcr(h)
        PROVE  OnlyConfirmed'
    BY <2>18 DEF ReadNcr
  <2>19. ASSUME NEW h \in Handler, VerifyNcr(h)
        PROVE  OnlyConfirmed'
    BY <2>19 DEF VerifyNcr, CommitOver, ReadsFlagOf
  <2>20. ASSUME NEW h \in Handler, PublishNcr(h)
        PROVE  OnlyConfirmed'
    BY <2>20 DEF PublishNcr, Announce, Finish
  <2>21. ASSUME NEW h \in Handler, Fail(h)
        PROVE  OnlyConfirmed'
    BY <2>21 DEF Fail, Publishing, Finish
  <2>22. ASSUME NEW h \in Handler, PublishUnacknowledged(h)
        PROVE  OnlyConfirmed'
    BY <2>22 DEF PublishUnacknowledged, Publishing, Announce, Finish
  <2>23. CASE UNCHANGED vars
    BY <2>23 DEF vars
  <2>q. QED
    BY <2>1, <2>2, <2>3, <2>4, <2>5, <2>6, <2>7, <2>8, <2>9, <2>10, <2>11, <2>12,
       <2>13, <2>14, <2>15, <2>16, <2>17, <2>18, <2>19, <2>20, <2>21, <2>22, <2>23 DEF
       Next, Step
<1>q. QED
  BY <1>1, <1>2, TypeCorrect, PTL DEF Spec

\* Every answer a client of an order ever gets is the one its row stands for.
THEOREM AnswersAgree == Spec => []OneAnswerPerOrder
<1> USE DocsAssumption, IdleJob
<1>1. Init => OneAnswerPerOrder
  BY DEF Init, OneAnswerPerOrder
<1>2. TypeOK /\ OnlyConfirmed /\ OneAnswerPerOrder /\ [Next]_vars => OneAnswerPerOrder'
  <2> SUFFICES ASSUME TypeOK, OnlyConfirmed, OneAnswerPerOrder, [Next]_vars
               PROVE  OneAnswerPerOrder'
    OBVIOUS
  <2> USE DEF At, Job, db, TypeOK, Jobs, Doc, OrderSteps, NcrSteps,
              OneAnswerPerOrder, AnswerFor
  <2>1. ASSUME NEW h \in Handler, NEW o \in Order, Receive(h, o, "lookup")
        PROVE  OneAnswerPerOrder'
    BY <2>1 DEF Receive
  <2>2. ASSUME NEW h \in Handler, NEW n \in Ncr, Receive(h, n, "findNcr")
        PROVE  OneAnswerPerOrder'
    BY <2>2 DEF Receive
  <2>3. ASSUME NEW h \in Handler, NEW n \in Ncr, Receive(h, n, "authorize")
        PROVE  OneAnswerPerOrder'
    BY <2>3 DEF Receive
  <2>4. ASSUME NEW h \in Handler, ReplayOrder(h)
        PROVE  OneAnswerPerOrder'
    BY <2>4 DEF ReplayOrder, Answer, AnswerFor, Finish
  <2>5. ASSUME NEW h \in Handler, BeginOrder(h)
        PROVE  OneAnswerPerOrder'
    BY <2>5 DEF BeginOrder, Goto
  <2>6. ASSUME NEW h \in Handler, CheckCapital(h)
        PROVE  OneAnswerPerOrder'
    BY <2>6 DEF CheckCapital, Available
  <2>7. ASSUME NEW h \in Handler, UnknownParty(h)
        PROVE  OneAnswerPerOrder'
    BY <2>7 DEF UnknownParty, Finish
  <2>8. ASSUME NEW h \in Handler, ConfirmAgentOrder(h)
        PROVE  OneAnswerPerOrder'
    BY <2>8 DEF ConfirmAgentOrder, CommitOver, ReadsExposureOf, WithinCapital,
       LedgerAccepts
  <2>9. ASSUME NEW h \in Handler, ConfirmDirectOrder(h)
        PROVE  OneAnswerPerOrder'
    BY <2>9 DEF ConfirmDirectOrder, Goto
  <2>10. ASSUME NEW h \in Handler, ParkOrder(h)
        PROVE  OneAnswerPerOrder'
    BY <2>10 DEF ParkOrder, Answer, AnswerFor, Finish
  <2>11. ASSUME NEW h \in Handler, RollBackOrder(h)
        PROVE  OneAnswerPerOrder'
    BY <2>11 DEF RollBackOrder, Finish
  <2>12. ASSUME NEW h \in Handler, PublishOrder(h)
        PROVE  OneAnswerPerOrder'
    BY <2>12 DEF OnlyConfirmed, PublishOrder, Announce, Answer, AnswerFor, Finish
  <2>13. ASSUME NEW h \in Handler, ReplayNcr(h)
        PROVE  OneAnswerPerOrder'
    BY <2>13 DEF ReplayNcr, Finish
  <2>14. ASSUME NEW h \in Handler, BeginNcr(h)
        PROVE  OneAnswerPerOrder'
    BY <2>14 DEF BeginNcr, Goto
  <2>15. ASSUME NEW h \in Handler, InsertNcr(h)
        PROVE  OneAnswerPerOrder'
    BY <2>15 DEF InsertNcr, Finish
  <2>16. ASSUME NEW h \in Handler, Authorize(h)
        PROVE  OneAnswerPerOrder'
    BY <2>16 DEF Authorize, Goto
  <2>17. ASSUME NEW h \in Handler, RefuseVerification(h)
        PROVE  OneAnswerPerOrder'
    BY <2>17 DEF RefuseVerification, Finish
  <2>18. ASSUME NEW h \in Handler, ReadNcr(h)
        PROVE  OneAnswerPerOrder'
    BY <2>18 DEF ReadNcr
  <2>19. ASSUME NEW h \in Handler, VerifyNcr(h)
        PROVE  OneAnswerPerOrder'
    BY <2>19 DEF VerifyNcr, CommitOver, ReadsFlagOf
  <2>20. ASSUME NEW h \in Handler, PublishNcr(h)
        PROVE  OneAnswerPerOrder'
    BY <2>20 DEF PublishNcr, Announce, Finish
  <2>21. ASSUME NEW h \in Handler, Fail(h)
        PROVE  OneAnswerPerOrder'
    BY <2>21 DEF Fail, Publishing, Finish
  <2>22. ASSUME NEW h \in Handler, PublishUnacknowledged(h)
        PROVE  OneAnswerPerOrder'
    BY <2>22 DEF PublishUnacknowledged, Publishing, Announce, Finish
  <2>23. CASE UNCHANGED vars
    BY <2>23 DEF vars
  <2>q. QED
    BY <2>1, <2>2, <2>3, <2>4, <2>5, <2>6, <2>7, <2>8, <2>9, <2>10, <2>11, <2>12,
       <2>13, <2>14, <2>15, <2>16, <2>17, <2>18, <2>19, <2>20, <2>21, <2>22, <2>23 DEF
       Next, Step
<1>q. QED
  BY <1>1, <1>2, TypeCorrect, OnlyConfirmedHolds, PTL DEF Spec

\* The event of a confirmed order is out once, owed by one handler, or dropped.
THEOREM EventIsOwedOnce == Spec => []EventOwedOnce
<1> USE DocsAssumption, IdleJob
<1>1. Init => EventOwedOnce
  BY DEF Init, EventOwedOnce
<1>2. TypeOK /\ OnlyConfirmed /\ EventOwedOnce /\ [Next]_vars => EventOwedOnce'
  <2> SUFFICES ASSUME TypeOK, OnlyConfirmed, EventOwedOnce, [Next]_vars
               PROVE  EventOwedOnce'
    OBVIOUS
  <2> USE DEF At, Job, db, TypeOK, Jobs, Doc, OrderSteps, NcrSteps, OnlyConfirmed,
              EventOwedOnce, Owes
  <2>1. ASSUME NEW h \in Handler, NEW o \in Order, Receive(h, o, "lookup")
        PROVE  EventOwedOnce'
    BY <2>1 DEF Receive
  <2>2. ASSUME NEW h \in Handler, NEW n \in Ncr, Receive(h, n, "findNcr")
        PROVE  EventOwedOnce'
    BY <2>2 DEF Receive
  <2>3. ASSUME NEW h \in Handler, NEW n \in Ncr, Receive(h, n, "authorize")
        PROVE  EventOwedOnce'
    BY <2>3 DEF Receive
  <2>4. ASSUME NEW h \in Handler, ReplayOrder(h)
        PROVE  EventOwedOnce'
    BY <2>4 DEF ReplayOrder, Answer, AnswerFor, Finish
  <2>5. ASSUME NEW h \in Handler, BeginOrder(h)
        PROVE  EventOwedOnce'
    BY <2>5 DEF BeginOrder, Goto
  <2>6. ASSUME NEW h \in Handler, CheckCapital(h)
        PROVE  EventOwedOnce'
    BY <2>6 DEF CheckCapital, Available
  <2>7. ASSUME NEW h \in Handler, UnknownParty(h)
        PROVE  EventOwedOnce'
    BY <2>7 DEF UnknownParty, Finish
  <2>8. ASSUME NEW h \in Handler, ConfirmAgentOrder(h)
        PROVE  EventOwedOnce'
    <3> PICK o \in Order : o = job[h].doc
      BY <2>8 DEF ConfirmAgentOrder
    <3>1. /\ o \in Order /\ orders[o] = "none"
          /\ orders' = [orders EXCEPT ![o] = "CONFIRMED"]
          /\ events' = events /\ dropped' = dropped
      BY <2>8 DEF ConfirmAgentOrder
    <3>2. /\ job'[h].at = "publish" /\ job'[h].doc = o
          /\ \A g \in Handler \ {h} : job'[g].at = job[g].at /\ job'[g].doc = job[g].doc
      BY <2>8 DEF ConfirmAgentOrder, CommitOver
    <3>3. events[o] = 0 /\ o \notin dropped /\ \A g \in Handler : ~Owes(g, o)
      BY <3>1
    <3>4. \A g \in Handler : Owes(g, o)' <=> g = h
      BY <3>2, <3>3
    <3>5. \A p \in Order \ {o}, g \in Handler : Owes(g, p)' <=> Owes(g, p)
      BY <2>8, <3>2 DEF ConfirmAgentOrder
    <3>6. ASSUME NEW p \in Order, orders'[p] = "CONFIRMED"
          PROVE  \/ events'[p] = 1 /\ p \notin dropped' /\ \A g \in Handler : ~Owes(g, p)'
                 \/ events'[p] = 0 /\ p \in dropped' /\ \A g \in Handler : ~Owes(g, p)'
                 \/ /\ events'[p] = 0 /\ p \notin dropped'
                    /\ \E k \in Handler : \A g \in Handler : Owes(g, p)' <=> g = k
      <4> HIDE DEF Owes
      <4>1. CASE p = o
        BY <3>1, <3>3, <3>4, <4>1
      <4>2. CASE p # o
        <5>1. orders[p] = "CONFIRMED"
          BY <3>1, <3>6, <4>2
        <5>q. QED
          BY <3>1, <3>5, <4>2, <5>1
      <4>q. QED
        BY <4>1, <4>2
    <3>q. QED
      BY <3>6, Zenon
  <2>9. ASSUME NEW h \in Handler, ConfirmDirectOrder(h)
        PROVE  EventOwedOnce'
    <3> PICK o \in Order : o = job[h].doc
      BY <2>9 DEF ConfirmDirectOrder
    <3>1. /\ o \in Order /\ orders[o] = "none"
          /\ orders' = [orders EXCEPT ![o] = "CONFIRMED"]
          /\ events' = events /\ dropped' = dropped
      BY <2>9 DEF ConfirmDirectOrder
    <3>2. /\ job'[h].at = "publish" /\ job'[h].doc = o
          /\ \A g \in Handler \ {h} : job'[g] = job[g]
      BY <2>9 DEF ConfirmDirectOrder, Goto
    <3>3. events[o] = 0 /\ o \notin dropped /\ \A g \in Handler : ~Owes(g, o)
      BY <3>1
    <3>4. \A g \in Handler : Owes(g, o)' <=> g = h
      BY <3>2, <3>3
    <3>5. \A p \in Order \ {o}, g \in Handler : Owes(g, p)' <=> Owes(g, p)
      BY <3>2
    <3>6. ASSUME NEW p \in Order, orders'[p] = "CONFIRMED"
          PROVE  \/ events'[p] = 1 /\ p \notin dropped' /\ \A g \in Handler : ~Owes(g, p)'
                 \/ events'[p] = 0 /\ p \in dropped' /\ \A g \in Handler : ~Owes(g, p)'
                 \/ /\ events'[p] = 0 /\ p \notin dropped'
                    /\ \E k \in Handler : \A g \in Handler : Owes(g, p)' <=> g = k
      <4> HIDE DEF Owes
      <4>1. CASE p = o
        BY <3>1, <3>3, <3>4, <4>1
      <4>2. CASE p # o
        <5>1. orders[p] = "CONFIRMED"
          BY <3>1, <3>6, <4>2
        <5>q. QED
          BY <3>1, <3>5, <4>2, <5>1
      <4>q. QED
        BY <4>1, <4>2
    <3>q. QED
      BY <3>6, Zenon
  <2>10. ASSUME NEW h \in Handler, ParkOrder(h)
        PROVE  EventOwedOnce'
    BY <2>10 DEF ParkOrder, Answer, AnswerFor, Finish
  <2>11. ASSUME NEW h \in Handler, RollBackOrder(h)
        PROVE  EventOwedOnce'
    BY <2>11 DEF RollBackOrder, Finish
  <2>12. ASSUME NEW h \in Handler, PublishOrder(h)
        PROVE  EventOwedOnce'
    BY <2>12 DEF PublishOrder, Announce, Answer, AnswerFor, Finish
  <2>13. ASSUME NEW h \in Handler, ReplayNcr(h)
        PROVE  EventOwedOnce'
    BY <2>13 DEF ReplayNcr, Finish
  <2>14. ASSUME NEW h \in Handler, BeginNcr(h)
        PROVE  EventOwedOnce'
    BY <2>14 DEF BeginNcr, Goto
  <2>15. ASSUME NEW h \in Handler, InsertNcr(h)
        PROVE  EventOwedOnce'
    BY <2>15 DEF InsertNcr, Finish
  <2>16. ASSUME NEW h \in Handler, Authorize(h)
        PROVE  EventOwedOnce'
    BY <2>16 DEF Authorize, Goto
  <2>17. ASSUME NEW h \in Handler, RefuseVerification(h)
        PROVE  EventOwedOnce'
    BY <2>17 DEF RefuseVerification, Finish
  <2>18. ASSUME NEW h \in Handler, ReadNcr(h)
        PROVE  EventOwedOnce'
    BY <2>18 DEF ReadNcr
  <2>19. ASSUME NEW h \in Handler, VerifyNcr(h)
        PROVE  EventOwedOnce'
    BY <2>19 DEF VerifyNcr, CommitOver, ReadsFlagOf
  <2>20. ASSUME NEW h \in Handler, PublishNcr(h)
        PROVE  EventOwedOnce'
    BY <2>20 DEF PublishNcr, Announce, Finish
  <2>21. ASSUME NEW h \in Handler, Fail(h)
        PROVE  EventOwedOnce'
    BY <2>21 DEF Fail, Publishing, Finish
  <2>22. ASSUME NEW h \in Handler, PublishUnacknowledged(h)
        PROVE  EventOwedOnce'
    BY <2>22 DEF PublishUnacknowledged, Publishing, Announce, Finish
  <2>23. CASE UNCHANGED vars
    BY <2>23 DEF vars
  <2>q. QED
    BY <2>1, <2>2, <2>3, <2>4, <2>5, <2>6, <2>7, <2>8, <2>9, <2>10, <2>11, <2>12,
       <2>13, <2>14, <2>15, <2>16, <2>17, <2>18, <2>19, <2>20, <2>21, <2>22, <2>23 DEF
       Next, Step
<1>q. QED
  BY <1>1, <1>2, TypeCorrect, OnlyConfirmedHolds, PTL DEF Spec

\* A step of the promise for one order is a step of the promise.
LEMMA IntakeStep ==
    \A o \in Order : Intake!Approve(o) \/ Intake!Block(o) \/ Intake!Announce(o)
                      => Intake!IntakeNext
BY DEF Intake!IntakeNext

\* The service implements its promise: an order is decided once, charged in
\* the same step, and announced once.
THEOREM IntakeImplemented == Spec => ImplementsIntake
<1>1. Init => Intake!IntakeInit
  BY DocsAssumption DEF Init, Intake!IntakeInit, Doc
<1>2. TypeOK /\ LedgerMatchesDocuments /\ OnlyConfirmed /\ EventOwedOnce /\ [Next]_vars
        => [Intake!IntakeNext]_(Intake!intakeVars)
  <2> SUFFICES ASSUME TypeOK, LedgerMatchesDocuments, OnlyConfirmed, EventOwedOnce,
                      [Next]_vars
               PROVE  [Intake!IntakeNext]_(Intake!intakeVars)
    OBVIOUS
  <2> USE DocsAssumption
      DEF At, TypeOK, Doc, OrderSteps, NcrSteps, Intake!intakeVars
  <2>1. ASSUME NEW h \in Handler, NEW o \in Order, o = job[h].doc, ConfirmAgentOrder(h)
        PROVE  Intake!Approve(o)
    <3>1. o \notin Direct /\ debits[o] = 0
      BY <2>1 DEF ConfirmAgentOrder, LedgerMatchesDocuments
    <3>2. debits' = [debits EXCEPT ![o] = 1]
      BY <2>1, <3>1 DEF ConfirmAgentOrder
    <3>q. QED
      BY <2>1, <3>1, <3>2 DEF ConfirmAgentOrder, Intake!Approve
  <2>2. ASSUME NEW h \in Handler, NEW o \in Order, o = job[h].doc, ConfirmDirectOrder(h)
        PROVE  Intake!Approve(o)
    BY <2>2 DEF ConfirmDirectOrder, Intake!Approve
  <2>3. ASSUME NEW h \in Handler, NEW o \in Order, o = job[h].doc, ParkOrder(h)
        PROVE  Intake!Block(o)
    BY <2>3 DEF ParkOrder, Intake!Block
  <2>4. ASSUME NEW h \in Handler, NEW o \in Order, o = job[h].doc, PublishOrder(h)
        PROVE  Intake!Announce(o)
    BY <2>4 DEF PublishOrder, Announce, Intake!Announce, OnlyConfirmed, EventOwedOnce,
                Owes, db
  <2>5. ASSUME NEW h \in Handler, NEW o \in Order, o = job[h].doc,
               PublishUnacknowledged(h), At(h, "publish")
        PROVE  Intake!Announce(o)
    BY <2>5 DEF PublishUnacknowledged, Announce, Intake!Announce, OnlyConfirmed,
                EventOwedOnce, Owes, db
  <2>6. ASSUME NEW h \in Handler,
               PublishNcr(h) \/ (PublishUnacknowledged(h) /\ ~At(h, "publish"))
        PROVE  UNCHANGED Intake!intakeVars
    <3>1. job[h].doc \in Ncr /\ events' = [events EXCEPT ![job[h].doc] = @ + 1]
      BY <2>6 DEF PublishNcr, PublishUnacknowledged, Publishing, Announce
    <3>2. [o \in Order |-> events[o]]' = [o \in Order |-> events[o]]
      BY <3>1
    <3>q. QED
      BY <2>6, <3>2 DEF PublishNcr, PublishUnacknowledged, db
  <2>7. CASE UNCHANGED <<orders, debits, events>>
    BY <2>7
  <2>8. \A h \in Handler :
           \/ UNCHANGED <<orders, debits, events>>
           \/ ~(Step(h) \/ Fail(h) \/ PublishUnacknowledged(h))
           \/ ConfirmAgentOrder(h) \/ ConfirmDirectOrder(h) \/ ParkOrder(h)
           \/ PublishOrder(h) \/ PublishNcr(h) \/ PublishUnacknowledged(h)
    <3>1. ASSUME NEW h \in Handler,
                 \/ ReplayOrder(h) \/ BeginOrder(h) \/ CheckCapital(h)
                 \/ UnknownParty(h) \/ RollBackOrder(h) \/ Fail(h)
          PROVE  UNCHANGED <<orders, debits, events>>
      BY <3>1 DEF db, ReplayOrder, BeginOrder, CheckCapital, UnknownParty,
                  RollBackOrder, Fail
    <3>2. ASSUME NEW h \in Handler,
                 \/ ReplayNcr(h) \/ BeginNcr(h) \/ Authorize(h)
                 \/ RefuseVerification(h) \/ ReadNcr(h)
          PROVE  UNCHANGED <<orders, debits, events>>
      BY <3>2 DEF db, ReplayNcr, BeginNcr, Authorize, RefuseVerification, ReadNcr
    <3>3. ASSUME NEW h \in Handler, InsertNcr(h) \/ VerifyNcr(h)
          PROVE  UNCHANGED <<orders, debits, events>>
      BY <3>3 DEF InsertNcr, VerifyNcr
    <3>q. QED
      BY <3>1, <3>2, <3>3, Zenon DEF Step
  <2>9. ASSUME NEW h \in Handler, NEW d, NEW step, Receive(h, d, step)
        PROVE  UNCHANGED <<orders, debits, events>>
    BY <2>9 DEF Receive, db
  <2>10. ASSUME NEW h \in Handler,
                \/ ConfirmAgentOrder(h) \/ ConfirmDirectOrder(h) \/ ParkOrder(h)
                \/ PublishOrder(h) \/ (PublishUnacknowledged(h) /\ At(h, "publish"))
         PROVE  job[h].doc \in Order
    BY <2>10 DEF ConfirmAgentOrder, ConfirmDirectOrder, ParkOrder, PublishOrder
  <2>11. ASSUME NEW h \in Handler, Step(h) \/ Fail(h) \/ PublishUnacknowledged(h)
         PROVE  [Intake!IntakeNext]_(Intake!intakeVars)
    <3>1. CASE \/ ConfirmAgentOrder(h) \/ ConfirmDirectOrder(h) \/ ParkOrder(h)
               \/ PublishOrder(h) \/ (PublishUnacknowledged(h) /\ At(h, "publish"))
      <4>1. PICK o \in Order : o = job[h].doc
        BY <3>1, <2>10
      <4>2. Intake!Approve(o) \/ Intake!Block(o) \/ Intake!Announce(o)
        BY <3>1, <4>1, <2>1, <2>2, <2>3, <2>4, <2>5
      <4>3. Intake!IntakeNext
        BY <4>2, IntakeStep
      <4>q. QED
        BY <4>3
    <3>2. CASE PublishNcr(h) \/ (PublishUnacknowledged(h) /\ ~At(h, "publish"))
      BY <3>2, <2>6
    <3>3. CASE UNCHANGED <<orders, debits, events>>
      BY <3>3, <2>7
    <3>q. QED
      BY <2>8, <2>11, <3>1, <3>2, <3>3
  <2>12. CASE UNCHANGED vars
    BY <2>7, <2>12 DEF vars
  <2>13. ASSUME NEW h \in Handler, NEW d, NEW step, Receive(h, d, step)
         PROVE  [Intake!IntakeNext]_(Intake!intakeVars)
    BY <2>7, <2>9, <2>13
  <2>14. CASE Next
    BY <2>11, <2>13, <2>14 DEF Next
  <2>q. QED
    BY <2>12, <2>14
<1>q. QED
  BY <1>1, <1>2, TypeCorrect, LedgerIsExact, OnlyConfirmedHolds, EventIsOwedOnce,
     PTL DEF Spec, ImplementsIntake, Intake!IntakeSpec
================================================================================
