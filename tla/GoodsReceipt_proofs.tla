------------------------- MODULE GoodsReceipt_proofs -------------------------
(***************************************************************************)
(* Proofs about GoodsReceipt, for every set of handlers, receipts, lines   *)
(* and PO lines, every quantity and every number of requests.              *)
(*                                                                         *)
(* What one step preserves is stated as lemmas about [GrnNext]_grnVars, so *)
(* that ProcureToPay, which takes these steps among others, can use them.  *)
(***************************************************************************)
EXTENDS GoodsReceipt, Collections_proofs

--------------------------------------------------------------------------------
(* Type correctness. *)

LEMMA TaskType ==
    ASSUME NEW a \in {"idle"} \cup GrnSteps, NEW g \in Grn, NEW seen \in [PoLine -> Nat],
           NEW i \in Nat \ {0}, NEW old \in SUBSET PoLine
    PROVE  /\ GrnTask(a, g, seen, i, old) \in GrnJobs
           /\ GrnTask(a, g, seen, i, old).at = a /\ GrnTask(a, g, seen, i, old).grn = g
           /\ GrnTask(a, g, seen, i, old).read = seen /\ GrnTask(a, g, seen, i, old).next = i
           /\ GrnTask(a, g, seen, i, old).stale = old
BY DEF GrnTask, GrnJobs

LEMMA TaskFields ==
    ASSUME NEW j \in GrnJobs
    PROVE  /\ j.at \in {"idle"} \cup GrnSteps /\ j.grn \in Grn /\ j.read \in [PoLine -> Nat]
           /\ j.next \in Nat \ {0} /\ j.stale \in SUBSET PoLine
BY DEF GrnJobs

\* A read that misses more than it did.
LEMMA ReadMore ==
    ASSUME NEW j \in GrnJobs, NEW more \in SUBSET PoLine
    PROVE  LET t == GrnTask(j.at, j.grn, j.read, j.next, j.stale \cup more)
           IN  /\ t \in GrnJobs /\ t.at = j.at /\ t.grn = j.grn /\ t.read = j.read
               /\ t.next = j.next /\ t.stale = j.stale \cup more
<1> DEFINE old == j.stale \cup more
           t == GrnTask(j.at, j.grn, j.read, j.next, old)
<1>1. old \in SUBSET PoLine
  BY TaskFields
<1> HIDE DEF old
<1>2. /\ t.at = j.at /\ t.grn = j.grn /\ t.read = j.read /\ t.next = j.next /\ t.stale = old
  BY DEF GrnTask
<1>3. t \in GrnJobs
  BY <1>1, TaskFields DEF GrnTask, GrnJobs
<1>q. QED
  BY <1>2, <1>3 DEF old

LEMMA GrnIdleType == GrnIdle \in GrnJobs /\ GrnIdle.at = "idle"
<1>1. (CHOOSE g \in Grn : TRUE) \in Grn
  BY LinesAssumption
<1>2. NothingRead \in [PoLine -> Nat]
  BY DEF NothingRead
<1>q. QED
  BY <1>1, <1>2, TaskType DEF GrnIdle

\* The lines of a receipt, and those it has for one PO line.
LEMMA LinesOfGrn ==
    ASSUME NEW g \in Grn
    PROVE  /\ LinesOf[g] \in Seq(Line) /\ Len(LinesOf[g]) \in Nat \ {0}
           /\ DOMAIN LinesOf[g] = 1 .. Len(LinesOf[g])
           /\ \A i \in DOMAIN LinesOf[g] : LinesOf[g][i] \in Line
BY LinesAssumption, LenProperties, EmptySeq, ElementOfSeq

LEMMA LastLineFor ==
    ASSUME NEW g \in Grn, NEW p \in PoLine, LinesFor(g, p) # {}
    PROVE  /\ Max(LinesFor(g, p)) \in LinesFor(g, p)
           /\ LinesOf[g][Max(LinesFor(g, p))] \in Line
           /\ Qty[LinesOf[g][Max(LinesFor(g, p))]] \in Nat
<1>1. LinesFor(g, p) \in SUBSET (0 .. Len(LinesOf[g])) /\ Len(LinesOf[g]) \in Nat
  BY LinesOfGrn DEF LinesFor
<1>2. Max(LinesFor(g, p)) \in LinesFor(g, p)
  BY <1>1, LargestOf
<1>q. QED
  BY <1>2, LinesOfGrn, QuantitiesAssumption DEF LinesFor

\* An answer is one of the two.
LEMMA AnswerType ==
    ASSUME grnAnswers \in [Grn -> SUBSET {"ACKED", "NEEDS_REVIEW"}],
           NEW g \in Grn, NEW s, GrnAnswer(g, s)
    PROVE  /\ grnAnswers' \in [Grn -> SUBSET {"ACKED", "NEEDS_REVIEW"}]
           /\ grnAnswers'[g] = grnAnswers[g] \cup
                {IF s = "NEEDS_REVIEW" THEN "NEEDS_REVIEW" ELSE "ACKED"}
           /\ \A d \in Grn \ {g} : grnAnswers'[d] = grnAnswers[d]
BY DEF GrnAnswer

\* A handler that is done, and one that goes on, stay in their type.
LEMMA FinishOK ==
    ASSUME grnJob \in [Handler -> GrnJobs], NEW h \in Handler, GrnFinish(h)
    PROVE  /\ grnJob' \in [Handler -> GrnJobs] /\ grnJob'[h].at = "idle"
           /\ \A k \in Handler \ {h} : grnJob'[k] = grnJob[k]
BY GrnIdleType DEF GrnFinish

LEMMA GotoOK ==
    ASSUME grnJob \in [Handler -> GrnJobs], NEW h \in Handler, NEW a \in GrnSteps,
           NEW i \in Nat \ {0}, GrnGoto(h, a, i)
    PROVE  /\ grnJob' \in [Handler -> GrnJobs] /\ grnJob'[h].at = a
           /\ grnJob'[h].grn = grnJob[h].grn /\ grnJob'[h].next = i
           /\ \A k \in Handler \ {h} : grnJob'[k] = grnJob[k]
<1> DEFINE j == grnJob[h]
           t == GrnTask(a, j.grn, j.read, i, j.stale)
<1>1. /\ j.grn \in Grn /\ j.read \in [PoLine -> Nat] /\ j.stale \in SUBSET PoLine
      /\ a \in {"idle"} \cup GrnSteps
  BY TaskFields
<1>2. t \in GrnJobs /\ t.at = a /\ t.grn = j.grn /\ t.next = i
  BY <1>1, TaskType
<1>3. grnJob' = [grnJob EXCEPT ![h] = t]
  BY DEF GrnGoto
<1> HIDE DEF t
<1>q. QED
  BY <1>2, <1>3

\* What AcceptGrn does to the handlers: its own goes on to publish, and every
\* other open read misses what it committed.
LEMMA AcceptJobs ==
    ASSUME GrnTypeOK, NEW h \in Handler, AcceptGrn(h)
    PROVE  LET g == grnJob[h].grn
               touched == {p \in PoLine : LinesFor(g, p) # {}}
           IN  /\ grnJob' \in [Handler -> GrnJobs]
               /\ grnJob'[h].at = "publish" /\ grnJob'[h].grn = g /\ grnJob'[h].next = 1
               /\ \A k \in Handler \ {h} :
                    /\ grnJob'[k].at = grnJob[k].at /\ grnJob'[k].grn = grnJob[k].grn
                    /\ grnJob'[k].next = grnJob[k].next /\ grnJob'[k].read = grnJob[k].read
                    /\ grnJob[k].at = "write" =>
                         grnJob'[k].stale = grnJob[k].stale \cup touched
<1> DEFINE g == grnJob[h].grn
           touched == {p \in PoLine : LinesFor(g, p) # {}}
           mine == GrnTask("publish", g, grnJob[h].read, 1, grnJob[h].stale)
           after(j) == GrnTask(j.at, j.grn, j.read, j.next, j.stale \cup touched)
<1>1. grnJob' = [k \in Handler |->
         IF k = h THEN mine ELSE IF grnJob[k].at = "write" THEN after(grnJob[k]) ELSE grnJob[k]]
  BY DEF AcceptGrn
<1>2. \A k \in Handler : grnJob[k] \in GrnJobs
  BY DEF GrnTypeOK
<1>3. mine \in GrnJobs /\ mine.at = "publish" /\ mine.grn = g /\ mine.next = 1
  <2>1. /\ g \in Grn /\ grnJob[h].read \in [PoLine -> Nat] /\ grnJob[h].stale \in SUBSET PoLine
        /\ "publish" \in {"idle"} \cup GrnSteps /\ 1 \in Nat \ {0}
    BY <1>2, TaskFields DEF GrnSteps
  <2>q. QED
    BY <2>1, TaskType
<1>4. ASSUME NEW j \in GrnJobs
      PROVE  /\ after(j) \in GrnJobs /\ after(j).at = j.at /\ after(j).grn = j.grn
             /\ after(j).read = j.read /\ after(j).next = j.next
             /\ after(j).stale = j.stale \cup touched
  <2>1. touched \in SUBSET PoLine
    OBVIOUS
  <2>q. QED
    BY <2>1, ReadMore
<1> HIDE DEF mine, after
<1>5. \A k \in Handler \ {h} :
        grnJob'[k] = IF grnJob[k].at = "write" THEN after(grnJob[k]) ELSE grnJob[k]
  BY <1>1
<1>6. grnJob'[h] = mine
  BY <1>1
<1>7. grnJob' \in [Handler -> GrnJobs]
  BY <1>1, <1>2, <1>3, <1>4
<1>q. QED
  BY <1>2, <1>3, <1>4, <1>5, <1>6, <1>7

\* Every step keeps every variable in its type.
LEMMA GrnTypeStep ==
    ASSUME GrnTypeOK, [GrnNext]_grnVars
    PROVE  GrnTypeOK'
<1> USE DEF GrnTypeOK, GrnAt
<1>1. ASSUME NEW h \in Handler, NEW g \in Grn, ReceiveGrn(h, g)
      PROVE  GrnTypeOK'
  <2>1. /\ NothingRead \in [PoLine -> Nat] /\ "lookup" \in {"idle"} \cup GrnSteps
        /\ 1 \in Nat \ {0} /\ {} \in SUBSET PoLine
    BY DEF NothingRead, GrnSteps
  <2>2. GrnTask("lookup", g, NothingRead, 1, {}) \in GrnJobs
    BY <2>1, TaskType
  <2>q. QED
    BY <1>1, <2>2 DEF ReceiveGrn
<1>2. ASSUME NEW h \in Handler, ReplayGrn(h)
      PROVE  GrnTypeOK'
  <2>1. grnJob[h].grn \in Grn
    BY TaskFields
  <2>q. QED
    BY <1>2, <2>1, FinishOK, AnswerType DEF ReplayGrn
<1>3. ASSUME NEW h \in Handler, BeginGrn(h)
      PROVE  GrnTypeOK'
  BY <1>3, GotoOK DEF BeginGrn, GrnSteps
<1>4. ASSUME NEW h \in Handler, UnknownRow(h) \/ RollBackGrn(h)
      PROVE  GrnTypeOK'
  BY <1>4, FinishOK DEF UnknownRow, RollBackGrn
<1>5. ASSUME NEW h \in Handler, ReadPoLines(h)
      PROVE  GrnTypeOK'
  <2>1. grnJob[h].grn \in Grn
    BY TaskFields
  <2>2. GrnTask("write", grnJob[h].grn, received, 1, {}) \in GrnJobs
    BY <2>1, TaskType DEF GrnSteps
  <2>q. QED
    BY <1>5, <2>2 DEF ReadPoLines
<1>6. ASSUME NEW h \in Handler, AcceptGrn(h)
      PROVE  GrnTypeOK'
  <2> DEFINE g == grnJob[h].grn
             touched == {p \in PoLine : LinesFor(g, p) # {}}
  <2>1. g \in Grn /\ grnJob[h].read \in [PoLine -> Nat]
    BY TaskFields
  <2>2. grnJob' \in [Handler -> GrnJobs]
    BY <1>6, AcceptJobs
  <2>3. \A p \in touched : NewReceivedQty(g, grnJob[h].read, p) \in Nat
    <3> SUFFICES ASSUME NEW p \in touched
                 PROVE  NewReceivedQty(g, grnJob[h].read, p) \in Nat
      OBVIOUS
    <3>1. Qty[LinesOf[g][Max(LinesFor(g, p))]] \in Nat /\ grnJob[h].read[p] \in Nat
      BY <2>1, LastLineFor
    <3>q. QED
      BY <3>1 DEF NewReceivedQty
  <2>4. received' = [p \in PoLine |-> IF p \in touched
                                      THEN NewReceivedQty(g, grnJob[h].read, p) ELSE received[p]]
    BY <1>6 DEF AcceptGrn
  <2>5. grns' = [grns EXCEPT ![g] = "PENDING"] /\ overwritten' \subseteq PoLine
        /\ UNCHANGED <<topic, grnAnswers, grnDropped, grnRequests>>
    BY <1>6 DEF AcceptGrn
  <2> HIDE DEF touched, g
  <2>6. received' \in [PoLine -> Nat]
    BY <2>3, <2>4
  <2>q. QED
    BY <2>1, <2>2, <2>5, <2>6
<1>7. ASSUME NEW h \in Handler, ParkGrn(h)
      PROVE  GrnTypeOK'
  <2>1. grnJob[h].grn \in Grn
    BY TaskFields
  <2>q. QED
    BY <1>7, <2>1, FinishOK, AnswerType DEF ParkGrn
<1>8. ASSUME NEW h \in Handler, PublishLine(h)
      PROVE  GrnTypeOK'
  <2>1. grnJob[h].grn \in Grn /\ grnJob[h].next \in Nat \ {0}
    BY TaskFields
  <2>2. NextLine(h) \in Line /\ grnJob[h].next + 1 \in Nat \ {0}
    BY <1>8, <2>1, LinesOfGrn DEF PublishLine, MoreLines, NextLine
  <2>3. grnJob' \in [Handler -> GrnJobs]
    BY <1>8, <2>2, GotoOK DEF PublishLine, GrnSteps
  <2>4. topic' \in Seq(Message)
    BY <1>8, <2>2, AppendProperties, LinesAssumption DEF PublishLine, AppendLine
  <2>q. QED
    BY <1>8, <2>3, <2>4 DEF PublishLine
<1>9. ASSUME NEW h \in Handler, MarkPosted(h)
      PROVE  GrnTypeOK'
  <2>1. grnJob[h].grn \in Grn
    BY TaskFields
  <2>q. QED
    BY <1>9, <2>1, FinishOK, AnswerType DEF MarkPosted
<1>10. ASSUME NEW h \in Handler, FailGrn(h)
       PROVE  GrnTypeOK'
  <2>1. grnJob[h].grn \in Grn
    BY TaskFields
  <2>q. QED
    BY <1>10, <2>1, FinishOK DEF FailGrn
<1>11. ASSUME NEW h \in Handler, LineUnacknowledged(h)
       PROVE  GrnTypeOK'
  <2>1. grnJob[h].grn \in Grn /\ grnJob[h].next \in Nat \ {0}
    BY TaskFields
  <2>2. NextLine(h) \in Line
    BY <1>11, <2>1, LinesOfGrn DEF LineUnacknowledged, MoreLines, NextLine
  <2>3. topic' \in Seq(Message)
    BY <1>11, <2>2, AppendProperties, LinesAssumption DEF LineUnacknowledged, AppendLine
  <2>q. QED
    BY <1>11, <2>1, <2>3, FinishOK DEF LineUnacknowledged
<1>12. CASE UNCHANGED grnVars
  BY <1>12 DEF grnVars
<1>q. QED
  BY <1>1, <1>2, <1>3, <1>4, <1>5, <1>6, <1>7, <1>8, <1>9, <1>10, <1>11, <1>12
  DEF GrnNext, GrnStep

LEMMA GrnTypeInit == GrnInit => GrnTypeOK
BY GrnIdleType, EmptySeq DEF GrnInit, GrnTypeOK, NothingRead

\* The type invariant holds in every behaviour.
THEOREM GrnTypeCorrect == GrnSpec => []GrnTypeOK
BY GrnTypeInit, GrnTypeStep, PTL DEF GrnSpec

--------------------------------------------------------------------------------
(* Who publishes. *)

\* A receipt's lines are published by one handler at a time, while the receipt
\* is PENDING; when that handler fails, nobody goes on and it stays PENDING.
PublisherOK ==
    /\ \A h \in Handler : grnJob[h].at = "publish" =>
          /\ grns[grnJob[h].grn] = "PENDING" /\ grnJob[h].grn \notin grnDropped
          /\ grnJob[h].next <= Len(LinesOf[grnJob[h].grn]) + 1
    /\ \A h, k \in Handler :
          grnJob[h].at = "publish" /\ grnJob[k].at = "publish" /\ grnJob[h].grn = grnJob[k].grn
            => h = k
    /\ \A g \in grnDropped : grns[g] = "PENDING"

LEMMA PublisherStep ==
    ASSUME GrnTypeOK, PublisherOK, [GrnNext]_grnVars
    PROVE  PublisherOK'
<1> DEFINE Job == [Handler -> GrnJobs]
<1>0. grnJob \in Job /\ grns \in [Grn -> {"none", "PENDING", "POSTED", "NEEDS_REVIEW"}]
      /\ grnDropped \subseteq Grn /\ \A h \in Handler : grnJob[h].grn \in Grn
  BY TaskFields DEF GrnTypeOK
<1> USE DEF PublisherOK
\* A handler that was not publishing stops, or goes on without publishing.
<1>1. ASSUME NEW h \in Handler, grnJob' \in Job, grnJob'[h].at # "publish",
             \A k \in Handler \ {h} : grnJob'[k] = grnJob[k],
             UNCHANGED <<grns, grnDropped>>
      PROVE  PublisherOK'
  BY <1>0, <1>1
<1>2. ASSUME NEW h \in Handler, NEW g \in Grn, ReceiveGrn(h, g)
      PROVE  PublisherOK'
  <2>1. grnJob' = [grnJob EXCEPT ![h] = GrnTask("lookup", g, NothingRead, 1, {})]
        /\ UNCHANGED <<grns, grnDropped>>
    BY <1>2 DEF ReceiveGrn
  <2>2. GrnTask("lookup", g, NothingRead, 1, {}).at = "lookup"
    BY DEF GrnTask
  <2>3. grnJob' \in Job
    BY <1>2, GrnTypeStep DEF GrnNext, GrnTypeOK
  <2>4. grnJob'[h].at # "publish" /\ \A k \in Handler \ {h} : grnJob'[k] = grnJob[k]
    BY <1>0, <2>1, <2>2
  <2>q. QED
    BY <1>1, <2>1, <2>3, <2>4
<1>3. ASSUME NEW h \in Handler, ReplayGrn(h) \/ UnknownRow(h) \/ RollBackGrn(h)
      PROVE  PublisherOK'
  <2>1. GrnFinish(h) /\ UNCHANGED <<grns, grnDropped>>
    BY <1>3 DEF ReplayGrn, UnknownRow, RollBackGrn
  <2>q. QED
    BY <1>0, <1>1, <2>1, FinishOK
<1>4. ASSUME NEW h \in Handler, BeginGrn(h)
      PROVE  PublisherOK'
  BY <1>0, <1>1, <1>4, GotoOK DEF BeginGrn, GrnSteps
<1>5. ASSUME NEW h \in Handler, ReadPoLines(h)
      PROVE  PublisherOK'
  <2>1. grnJob' = [grnJob EXCEPT ![h] = GrnTask("write", @.grn, received, 1, {})]
        /\ UNCHANGED <<grns, grnDropped>>
    BY <1>5 DEF ReadPoLines
  <2>2. GrnTask("write", grnJob[h].grn, received, 1, {}).at = "write"
    BY DEF GrnTask
  <2>3. grnJob' \in Job
    BY <1>5, GrnTypeStep DEF GrnNext, GrnStep, GrnTypeOK
  <2>4. grnJob'[h].at # "publish" /\ \A k \in Handler \ {h} : grnJob'[k] = grnJob[k]
    BY <1>0, <2>1, <2>2
  <2>q. QED
    BY <1>1, <2>1, <2>3, <2>4
<1>6. ASSUME NEW h \in Handler, AcceptGrn(h)
      PROVE  PublisherOK'
  <2> DEFINE g == grnJob[h].grn
  <2>1. grns[g] = "none" /\ grns' = [grns EXCEPT ![g] = "PENDING"] /\ UNCHANGED grnDropped
    BY <1>6 DEF AcceptGrn
  <2>2. /\ grnJob'[h].at = "publish" /\ grnJob'[h].grn = g /\ grnJob'[h].next = 1
        /\ \A k \in Handler \ {h} :
             /\ grnJob'[k].at = grnJob[k].at /\ grnJob'[k].grn = grnJob[k].grn
             /\ grnJob'[k].next = grnJob[k].next
    BY <1>6, AcceptJobs
  <2>3. g \in Grn /\ Len(LinesOf[g]) \in Nat
    BY <1>0, LinesOfGrn
  <2>q. QED
    BY <1>0, <2>1, <2>2, <2>3
<1>7. ASSUME NEW h \in Handler, ParkGrn(h)
      PROVE  PublisherOK'
  <2>1. GrnFinish(h) /\ grns[grnJob[h].grn] = "none" /\ UNCHANGED grnDropped
        /\ grns' = [grns EXCEPT ![grnJob[h].grn] = "NEEDS_REVIEW"]
    BY <1>7 DEF ParkGrn
  <2>q. QED
    BY <1>0, <2>1, FinishOK
<1>8. ASSUME NEW h \in Handler, PublishLine(h)
      PROVE  PublisherOK'
  <2>1. /\ grnJob[h].at = "publish" /\ grnJob[h].next <= Len(LinesOf[grnJob[h].grn])
        /\ GrnGoto(h, "publish", grnJob[h].next + 1) /\ UNCHANGED <<grns, grnDropped>>
    BY <1>8 DEF PublishLine, GrnAt, MoreLines
  <2>2. grnJob[h].next + 1 \in Nat \ {0} /\ Len(LinesOf[grnJob[h].grn]) \in Nat
        /\ grnJob[h].next \in Nat
    BY <1>0, TaskFields, LinesOfGrn
  <2>3. /\ grnJob'[h].at = "publish" /\ grnJob'[h].grn = grnJob[h].grn
        /\ grnJob'[h].next = grnJob[h].next + 1
        /\ \A k \in Handler \ {h} : grnJob'[k] = grnJob[k]
    BY <1>0, <2>1, <2>2, GotoOK DEF GrnSteps
  <2>4. /\ UNCHANGED <<grns, grnDropped>>
        /\ \A k \in Handler : /\ grnJob'[k].at = "publish" <=> grnJob[k].at = "publish"
                             /\ grnJob'[k].grn = grnJob[k].grn
    BY <2>1, <2>3
  <2>5. \A k \in Handler : grnJob'[k].at = "publish" =>
           grnJob'[k].next <= Len(LinesOf[grnJob'[k].grn]) + 1
    <3>1. grnJob'[h].next <= Len(LinesOf[grnJob'[h].grn]) + 1
      BY <2>1, <2>2, <2>3
    <3>q. QED
      BY <2>3, <3>1
  <2>q. QED
    BY <2>4, <2>5
<1>9. ASSUME NEW h \in Handler, MarkPosted(h)
      PROVE  PublisherOK'
  <2>1. GrnFinish(h) /\ grnJob[h].at = "publish" /\ UNCHANGED grnDropped
        /\ grns' = [grns EXCEPT ![grnJob[h].grn] = "POSTED"]
    BY <1>9 DEF MarkPosted, GrnAt
  <2>q. QED
    BY <1>0, <2>1, FinishOK
<1>10. ASSUME NEW h \in Handler, FailGrn(h) \/ LineUnacknowledged(h)
       PROVE  PublisherOK'
  <2>1. /\ GrnFinish(h) /\ UNCHANGED grns
        /\ grnDropped' = IF grnJob[h].at = "publish" THEN grnDropped \cup {grnJob[h].grn}
                                                     ELSE grnDropped
    BY <1>10 DEF FailGrn, LineUnacknowledged, GrnAt
  <2>q. QED
    BY <1>0, <2>1, FinishOK
<1>11. CASE UNCHANGED grnVars
  BY <1>11 DEF grnVars
<1>q. QED
  BY <1>2, <1>3, <1>4, <1>5, <1>6, <1>7, <1>8, <1>9, <1>10, <1>11 DEF GrnNext, GrnStep

LEMMA PublisherInit == GrnInit => PublisherOK
BY GrnIdleType DEF GrnInit, PublisherOK

--------------------------------------------------------------------------------
(* Every retry hears the same outcome. *)

LEMMA OneAnswerStep ==
    ASSUME GrnTypeOK, PublisherOK, OneAnswerPerGrn, [GrnNext]_grnVars
    PROVE  OneAnswerPerGrn'
<1>0. /\ grns \in [Grn -> {"none", "PENDING", "POSTED", "NEEDS_REVIEW"}]
      /\ grnAnswers \in [Grn -> SUBSET {"ACKED", "NEEDS_REVIEW"}]
      /\ \A h \in Handler : grnJob[h].grn \in Grn
  BY TaskFields DEF GrnTypeOK
<1> USE DEF OneAnswerPerGrn
<1>1. ASSUME NEW h \in Handler, ReplayGrn(h)
      PROVE  OneAnswerPerGrn'
  BY <1>0, <1>1 DEF ReplayGrn, GrnAnswer
<1>2. ASSUME NEW h \in Handler, AcceptGrn(h)
      PROVE  OneAnswerPerGrn'
  <2>1. /\ grns[grnJob[h].grn] = "none" /\ grns' = [grns EXCEPT ![grnJob[h].grn] = "PENDING"]
        /\ UNCHANGED grnAnswers
    BY <1>2 DEF AcceptGrn
  <2>q. QED
    BY <1>0, <2>1
<1>3. ASSUME NEW h \in Handler, ParkGrn(h)
      PROVE  OneAnswerPerGrn'
  BY <1>0, <1>3 DEF ParkGrn, GrnAnswer
<1>4. ASSUME NEW h \in Handler, MarkPosted(h)
      PROVE  OneAnswerPerGrn'
  <2>1. grns[grnJob[h].grn] = "PENDING"
    BY <1>4 DEF MarkPosted, GrnAt, PublisherOK
  <2>q. QED
    BY <1>0, <1>4, <2>1 DEF MarkPosted, GrnAnswer
<1>5. CASE UNCHANGED <<grns, grnAnswers>>
  BY <1>5
<1>q. QED
  BY <1>1, <1>2, <1>3, <1>4, <1>5
  DEF GrnNext, GrnStep, ReceiveGrn, BeginGrn, UnknownRow, ReadPoLines, RollBackGrn,
      PublishLine, FailGrn, LineUnacknowledged, grnVars

\* createGoodsReceipt never tells two outcomes of one clientEventId, however
\* often and however concurrently it is retried.
THEOREM GrnAnsweredOnce == GrnSpec => []OneAnswerPerGrn
<1> DEFINE Inv == GrnTypeOK /\ PublisherOK /\ OneAnswerPerGrn
<1>1. GrnInit => Inv
  BY GrnTypeInit, PublisherInit DEF GrnInit, OneAnswerPerGrn
<1>2. Inv /\ [GrnNext]_grnVars => Inv'
  BY GrnTypeStep, PublisherStep, OneAnswerStep
<1>q. QED
  BY <1>1, <1>2, PTL DEF GrnSpec

--------------------------------------------------------------------------------
(* What a receipt has announced. *)

Count(t, l) == Cardinality(PlacesOf(t, l))

\* Topic t announces the lines of value among the first n lines of g, once each.
Announces(t, g, n) ==
    \A i \in DOMAIN LinesOf[g] :
        Count(t, LinesOf[g][i]) = IF i <= n /\ AcceptedValue[LinesOf[g][i]] > 0 THEN 1 ELSE 0

\* A message that is not a line of g does not count for g.
LEMMA AnnouncesOther ==
    ASSUME NEW t \in Seq(Message), NEW m \in Message, NEW g \in Grn,
           ~Touches(g, m)
    PROVE  \A n : Announces(Append(t, m), g, n) <=> Announces(t, g, n)
<1>1. ASSUME NEW i \in DOMAIN LinesOf[g]
      PROVE  Count(Append(t, m), LinesOf[g][i]) = Count(t, LinesOf[g][i])
  <2>1. LinesOf[g][i] # m
    BY DEF Touches
  <2>2. Count(t, LinesOf[g][i]) \in Nat
        /\ Count(Append(t, m), LinesOf[g][i]) = Count(t, LinesOf[g][i]) + 0
    BY <2>1, CountAppend DEF Count
  <2>q. QED
    BY <2>2
<1>q. QED
  BY <1>1 DEF Announces

\* The next line, when it has a value, is announced by being appended.
LEMMA AnnouncesNext ==
    ASSUME NEW t \in Seq(Message), NEW g \in Grn, NEW i \in DOMAIN LinesOf[g],
           Announces(t, g, i - 1)
    PROVE  Announces(IF AcceptedValue[LinesOf[g][i]] > 0 THEN Append(t, LinesOf[g][i]) ELSE t, g, i)
<1> DEFINE l == LinesOf[g][i]
<1>0. l \in Line /\ l \in Message /\ AcceptedValue[l] \in Nat /\ DOMAIN LinesOf[g] \subseteq Nat
  <2>1. l \in Line /\ DOMAIN LinesOf[g] = 1 .. Len(LinesOf[g])
    BY LinesOfGrn
  <2> HIDE DEF l
  <2>q. QED
    BY <2>1, LinesAssumption, QuantitiesAssumption
<1>1. \A j \in DOMAIN LinesOf[g] : LinesOf[g][j] = l => j = i
  BY LinesAssumption
<1>2. CASE AcceptedValue[l] > 0
  <2>1. ASSUME NEW j \in DOMAIN LinesOf[g]
        PROVE  Count(Append(t, l), LinesOf[g][j])
                 = IF j <= i /\ AcceptedValue[LinesOf[g][j]] > 0 THEN 1 ELSE 0
    <3>1. /\ Count(t, LinesOf[g][j]) \in Nat
          /\ Count(Append(t, l), LinesOf[g][j])
               = Count(t, LinesOf[g][j]) + IF l = LinesOf[g][j] THEN 1 ELSE 0
      BY <1>0, CountAppend DEF Count
    <3>2. Count(t, LinesOf[g][j])
            = IF j <= i - 1 /\ AcceptedValue[LinesOf[g][j]] > 0 THEN 1 ELSE 0
      BY DEF Announces
    <3> HIDE DEF l
    <3>3. CASE j = i
      BY <1>0, <1>2, <3>1, <3>2, <3>3 DEF l
    <3>4. CASE j # i
      BY <1>0, <1>1, <3>1, <3>2, <3>4
    <3>q. QED
      BY <3>3, <3>4
  <2>q. QED
    BY <1>2, <2>1 DEF Announces
<1>3. CASE ~(AcceptedValue[l] > 0)
  <2>1. ASSUME NEW j \in DOMAIN LinesOf[g]
        PROVE  Count(t, LinesOf[g][j])
                 = IF j <= i /\ AcceptedValue[LinesOf[g][j]] > 0 THEN 1 ELSE 0
    <3>1. Count(t, LinesOf[g][j])
            = IF j <= i - 1 /\ AcceptedValue[LinesOf[g][j]] > 0 THEN 1 ELSE 0
      BY DEF Announces
    <3>q. QED
      BY <1>0, <1>3, <3>1
  <2>q. QED
    BY <1>3, <2>1 DEF Announces
<1>q. QED
  BY <1>2, <1>3

\* Nothing before the INSERT and nothing under review; the lines before its
\* next one while a handler publishes; all lines once posted; and a pending
\* receipt has its handler, or lost it at some line.
SentSoFar ==
    /\ \A g \in Grn : ~Applied(g) => Announces(topic, g, 0)
    /\ \A g \in Grn : grns[g] = "POSTED" => Announces(topic, g, Len(LinesOf[g]))
    /\ \A g \in grnDropped : \E n \in 0 .. Len(LinesOf[g]) : Announces(topic, g, n)
    /\ \A h \in Handler : grnJob[h].at = "publish" =>
          Announces(topic, grnJob[h].grn, grnJob[h].next - 1)
    /\ \A g \in Grn : grns[g] = "PENDING" =>
          g \in grnDropped \/ \E h \in Handler : grnJob[h].at = "publish" /\ grnJob[h].grn = g

\* The invariant says the property.
LEMMA SentSoFarSuffices ==
    ASSUME GrnTypeOK, PublisherOK, SentSoFar
    PROVE  AnnouncedLineByLine
<1>0. \A g, n : HasEvents(g, n) <=> Announces(topic, g, n)
  BY DEF HasEvents, Announces, Times, Count, PlacesOf
<1>1. SUFFICES ASSUME NEW g \in Grn
               PROVE  CASE ~Applied(g) -> HasEvents(g, 0)
                        [] grns[g] = "POSTED" ->
                              HasEvents(g, Len(LinesOf[g])) /\ g \notin grnDropped
                        [] grns[g] = "PENDING" /\ g \in grnDropped ->
                              \E n \in 0 .. Len(LinesOf[g]) : HasEvents(g, n)
                        [] OTHER -> \E h \in Handler :
                              /\ GrnAt(h, "publish") /\ grnJob[h].grn = g
                              /\ HasEvents(g, grnJob[h].next - 1)
                              /\ \A k \in Handler :
                                    GrnAt(k, "publish") /\ grnJob[k].grn = g => k = h
  BY DEF AnnouncedLineByLine
<1>2. CASE ~Applied(g)
  BY <1>0, <1>2 DEF SentSoFar, Applied
<1>3. CASE grns[g] = "POSTED"
  BY <1>0, <1>3 DEF SentSoFar, Applied, PublisherOK
<1>4. CASE grns[g] = "PENDING" /\ g \in grnDropped
  BY <1>0, <1>4 DEF SentSoFar, Applied
<1>5. CASE grns[g] = "PENDING" /\ g \notin grnDropped
  <2>1. PICK h \in Handler : grnJob[h].at = "publish" /\ grnJob[h].grn = g
    BY <1>5 DEF SentSoFar
  <2>2. Announces(topic, g, grnJob[h].next - 1)
    BY <2>1 DEF SentSoFar
  <2>3. \A k \in Handler : grnJob[k].at = "publish" /\ grnJob[k].grn = g => k = h
    BY <2>1 DEF PublisherOK
  <2>q. QED
    BY <1>0, <1>5, <2>1, <2>2, <2>3 DEF Applied, GrnAt
<1>q. QED
  BY <1>2, <1>3, <1>4, <1>5 DEF GrnTypeOK, Applied

\* The line a handler sends: its receipt is one line further, no other
\* receipt is touched.
LEMMA LineIsSent ==
    ASSUME GrnTypeOK, SentSoFar, NEW h \in Handler, grnJob[h].at = "publish",
           MoreLines(h), AppendLine(NextLine(h))
    PROVE  /\ grnJob[h].grn \in Grn /\ grnJob[h].next \in 1 .. Len(LinesOf[grnJob[h].grn])
           /\ Announces(topic', grnJob[h].grn, grnJob[h].next)
           /\ \A d \in Grn \ {grnJob[h].grn} : \A n : Announces(topic, d, n) => Announces(topic', d, n)
<1> DEFINE g == grnJob[h].grn
           i == grnJob[h].next
           l == LinesOf[g][i]
<1>0. g \in Grn /\ i \in Nat \ {0} /\ topic \in Seq(Message)
  BY TaskFields DEF GrnTypeOK
<1>1. i \in DOMAIN LinesOf[g] /\ l \in Line /\ l \in Message /\ i \in 1 .. Len(LinesOf[g])
  <2>1. i \in DOMAIN LinesOf[g] /\ i \in 1 .. Len(LinesOf[g])
    BY <1>0, LinesOfGrn DEF MoreLines
  <2>2. l \in Line
    BY <1>0, <2>1, LinesOfGrn
  <2>q. QED
    BY <2>1, <2>2, LinesAssumption
<1>2. topic' = IF AcceptedValue[l] > 0 THEN Append(topic, l) ELSE topic
  BY DEF AppendLine, NextLine
<1>3. Announces(topic, g, i - 1)
  BY DEF SentSoFar
<1>4. Announces(topic', g, i)
  BY <1>0, <1>1, <1>2, <1>3, AnnouncesNext
<1>5. ASSUME NEW d \in Grn \ {g}
      PROVE  \A n : Announces(topic, d, n) => Announces(topic', d, n)
  <2>1. Touches(g, l)
    BY <1>1 DEF Touches
  <2>2. \A g1, g2 \in Grn, m \in Line : Touches(g1, m) /\ Touches(g2, m) => g1 = g2
    BY LinesAssumption, Zenon
  <2>3. ~Touches(d, l)
    BY <1>0, <1>1, <2>1, <2>2, Zenon
  <2>q. QED
    BY <1>0, <1>1, <1>2, <2>3, AnnouncesOther
<1>q. QED
  BY <1>0, <1>1, <1>4, <1>5

LEMMA SentStep ==
    ASSUME GrnTypeOK, PublisherOK, SentSoFar, [GrnNext]_grnVars
    PROVE  SentSoFar'
<1> DEFINE Job == [Handler -> GrnJobs]
<1>0. grnJob \in Job /\ grns \in [Grn -> {"none", "PENDING", "POSTED", "NEEDS_REVIEW"}]
      /\ grnDropped \subseteq Grn /\ \A h \in Handler : grnJob[h].grn \in Grn
  BY TaskFields DEF GrnTypeOK
\* A handler that was not publishing stops, or goes on without publishing.
<1>1. ASSUME NEW h \in Handler, grnJob[h].at # "publish", grnJob'[h].at # "publish",
             \A k \in Handler \ {h} : grnJob'[k] = grnJob[k],
             UNCHANGED <<grns, topic, grnDropped>>
      PROVE  SentSoFar'
  BY <1>0, <1>1 DEF SentSoFar, Applied
<1>2. ASSUME NEW h \in Handler, NEW g \in Grn, ReceiveGrn(h, g)
      PROVE  SentSoFar'
  <2>1. grnJob' = [grnJob EXCEPT ![h] = GrnTask("lookup", g, NothingRead, 1, {})]
        /\ grnJob[h].at # "publish" /\ UNCHANGED <<grns, topic, grnDropped>>
    BY <1>2 DEF ReceiveGrn, GrnAt
  <2>2. GrnTask("lookup", g, NothingRead, 1, {}).at = "lookup"
    BY DEF GrnTask
  <2>3. grnJob'[h].at # "publish" /\ \A k \in Handler \ {h} : grnJob'[k] = grnJob[k]
    BY <1>0, <2>1, <2>2
  <2>q. QED
    BY <1>1, <2>1, <2>3
<1>3. ASSUME NEW h \in Handler,
             ReplayGrn(h) \/ UnknownRow(h) \/ RollBackGrn(h)
               \/ (FailGrn(h) /\ grnJob[h].at # "publish")
      PROVE  SentSoFar'
  <2>1. GrnFinish(h) /\ grnJob[h].at # "publish" /\ UNCHANGED <<grns, topic, grnDropped>>
    BY <1>3 DEF ReplayGrn, UnknownRow, RollBackGrn, FailGrn, GrnAt
  <2>q. QED
    BY <1>0, <1>1, <2>1, FinishOK
<1>4. ASSUME NEW h \in Handler, BeginGrn(h)
      PROVE  SentSoFar'
  <2>1. GrnGoto(h, "read", 1) /\ grnJob[h].at # "publish" /\ UNCHANGED <<grns, topic, grnDropped>>
    BY <1>4 DEF BeginGrn, GrnAt
  <2>q. QED
    BY <1>0, <1>1, <2>1, GotoOK DEF GrnSteps
<1>5. ASSUME NEW h \in Handler, ReadPoLines(h)
      PROVE  SentSoFar'
  <2>1. grnJob' = [grnJob EXCEPT ![h] = GrnTask("write", @.grn, received, 1, {})]
        /\ grnJob[h].at # "publish" /\ UNCHANGED <<grns, topic, grnDropped>>
    BY <1>5 DEF ReadPoLines, GrnAt
  <2>2. GrnTask("write", grnJob[h].grn, received, 1, {}).at = "write"
    BY DEF GrnTask
  <2>3. grnJob'[h].at # "publish" /\ \A k \in Handler \ {h} : grnJob'[k] = grnJob[k]
    BY <1>0, <2>1, <2>2
  <2>q. QED
    BY <1>1, <2>1, <2>3
<1>6. ASSUME NEW h \in Handler, AcceptGrn(h)
      PROVE  SentSoFar'
  <2> DEFINE g == grnJob[h].grn
  <2>1. grns[g] = "none" /\ grns' = [grns EXCEPT ![g] = "PENDING"]
        /\ grnJob[h].at = "write" /\ UNCHANGED <<topic, grnDropped>>
    BY <1>6 DEF AcceptGrn, GrnAt
  <2>2. /\ grnJob'[h].at = "publish" /\ grnJob'[h].grn = g /\ grnJob'[h].next = 1
        /\ \A k \in Handler \ {h} :
             /\ grnJob'[k].at = grnJob[k].at /\ grnJob'[k].grn = grnJob[k].grn
             /\ grnJob'[k].next = grnJob[k].next
    BY <1>6, AcceptJobs
  <2>3. Announces(topic, g, 0) /\ 1 - 1 = 0
    BY <1>0, <2>1 DEF SentSoFar, Applied
  <2> HIDE DEF g
  <2>4. \A d \in Grn : d # g => grns'[d] = grns[d]
    BY <1>0, <2>1
  <2>5. \A k \in Handler : grnJob'[k].at = "publish"
            => Announces(topic', grnJob'[k].grn, grnJob'[k].next - 1)
    BY <2>1, <2>2, <2>3 DEF SentSoFar
  <2>6. \A d \in Grn : grns'[d] = "PENDING" =>
            d \in grnDropped \/ \E k \in Handler : grnJob'[k].at = "publish" /\ grnJob'[k].grn = d
    <3> SUFFICES ASSUME NEW d \in Grn, grns'[d] = "PENDING", d \notin grnDropped
                 PROVE  \E k \in Handler : grnJob'[k].at = "publish" /\ grnJob'[k].grn = d
      OBVIOUS
    <3>1. CASE d = g
      BY <2>2, <3>1
    <3>2. CASE d # g
      <4>1. PICK k \in Handler : grnJob[k].at = "publish" /\ grnJob[k].grn = d
        BY <2>4, <3>2 DEF SentSoFar
      <4>q. QED
        BY <2>1, <2>2, <4>1
    <3>q. QED
      BY <3>1, <3>2
  <2>7. g \in Grn /\ grns'[g] = "PENDING"
    BY <1>0, <2>1 DEF g
  <2>q. QED
    BY <1>0, <2>1, <2>4, <2>5, <2>6, <2>7 DEF SentSoFar, Applied
<1>7. ASSUME NEW h \in Handler, ParkGrn(h)
      PROVE  SentSoFar'
  <2>1. /\ GrnFinish(h) /\ grns[grnJob[h].grn] = "none" /\ grnJob[h].at = "write"
        /\ grns' = [grns EXCEPT ![grnJob[h].grn] = "NEEDS_REVIEW"]
        /\ UNCHANGED <<topic, grnDropped>>
    BY <1>7 DEF ParkGrn, GrnAt
  <2>2. grnJob'[h].at = "idle" /\ \A k \in Handler \ {h} : grnJob'[k] = grnJob[k]
    BY <1>0, <2>1, FinishOK
  <2>q. QED
    BY <1>0, <2>1, <2>2 DEF SentSoFar, Applied
<1>8. ASSUME NEW h \in Handler, PublishLine(h)
      PROVE  SentSoFar'
  <2> DEFINE g == grnJob[h].grn
             i == grnJob[h].next
  <2>1. /\ grnJob[h].at = "publish" /\ MoreLines(h) /\ AppendLine(NextLine(h))
        /\ GrnGoto(h, "publish", i + 1) /\ UNCHANGED <<grns, grnDropped>>
    BY <1>8 DEF PublishLine, GrnAt
  <2>2. /\ g \in Grn /\ i \in Nat \ {0} /\ Announces(topic', g, i)
        /\ \A d \in Grn \ {g} : \A n : Announces(topic, d, n) => Announces(topic', d, n)
    BY <2>1, LineIsSent
  <2>3. /\ grnJob'[h].at = "publish" /\ grnJob'[h].grn = g /\ grnJob'[h].next = i + 1
        /\ \A k \in Handler \ {h} : grnJob'[k] = grnJob[k]
    BY <1>0, <2>1, <2>2, GotoOK DEF GrnSteps
  <2>4. grns[g] = "PENDING" /\ g \notin grnDropped
        /\ \A k \in Handler \ {h} : grnJob[k].at = "publish" => grnJob[k].grn # g
    BY <2>1 DEF PublisherOK
  <2>5. i + 1 - 1 = i
    BY <2>2
  <2> HIDE DEF g, i
  <2>6. \A k \in Handler : grnJob'[k].at = "publish"
            => Announces(topic', grnJob'[k].grn, grnJob'[k].next - 1)
    BY <1>0, <2>2, <2>3, <2>4, <2>5 DEF SentSoFar
  <2>7. \A d \in Grn : grns'[d] = "PENDING" =>
            d \in grnDropped' \/ \E k \in Handler : grnJob'[k].at = "publish" /\ grnJob'[k].grn = d
    BY <2>1, <2>3 DEF SentSoFar, g
  <2>8. \A d \in grnDropped : \E n \in 0 .. Len(LinesOf[d]) : Announces(topic', d, n)
    BY <1>0, <2>2, <2>4 DEF SentSoFar
  <2>q. QED
    BY <1>0, <2>1, <2>2, <2>4, <2>6, <2>7, <2>8 DEF SentSoFar, Applied
<1>9. ASSUME NEW h \in Handler, MarkPosted(h)
      PROVE  SentSoFar'
  <2> DEFINE g == grnJob[h].grn
             i == grnJob[h].next
  <2>1. /\ grnJob[h].at = "publish" /\ ~MoreLines(h) /\ GrnFinish(h)
        /\ grns' = [grns EXCEPT ![g] = "POSTED"] /\ UNCHANGED <<topic, grnDropped>>
    BY <1>9 DEF MarkPosted, GrnAt
  <2>2. grnJob'[h].at = "idle" /\ \A k \in Handler \ {h} : grnJob'[k] = grnJob[k]
    BY <1>0, <2>1, FinishOK
  <2>3. g \in Grn /\ i \in Nat /\ Len(LinesOf[g]) \in Nat
    BY <1>0, LinesOfGrn, TaskFields
  <2>4. i - 1 = Len(LinesOf[g])
    BY <2>1, <2>3 DEF PublisherOK, MoreLines
  <2>5. Announces(topic, g, Len(LinesOf[g]))
    BY <2>1, <2>4 DEF SentSoFar
  <2> HIDE DEF i
  <2>q. QED
    BY <1>0, <2>1, <2>2, <2>3, <2>5 DEF SentSoFar, Applied
<1>10. ASSUME NEW h \in Handler, FailGrn(h), grnJob[h].at = "publish"
       PROVE  SentSoFar'
  <2> DEFINE g == grnJob[h].grn
             i == grnJob[h].next
  <2>1. /\ GrnFinish(h) /\ UNCHANGED <<grns, topic>> /\ grnDropped' = grnDropped \cup {g}
    BY <1>10 DEF FailGrn, GrnAt
  <2>2. grnJob'[h].at = "idle" /\ \A k \in Handler \ {h} : grnJob'[k] = grnJob[k]
    BY <1>0, <2>1, FinishOK
  <2>3. g \in Grn /\ i \in Nat \ {0} /\ Len(LinesOf[g]) \in Nat
    BY <1>0, LinesOfGrn, TaskFields
  <2>4. i - 1 \in 0 .. Len(LinesOf[g])
    BY <1>10, <2>3 DEF PublisherOK
  <2>5. \E n \in 0 .. Len(LinesOf[g]) : Announces(topic, g, n)
    BY <1>10, <2>4 DEF SentSoFar
  <2> HIDE DEF i
  <2>q. QED
    BY <1>0, <2>1, <2>2, <2>3, <2>5 DEF SentSoFar, Applied
<1>11. ASSUME NEW h \in Handler, LineUnacknowledged(h)
       PROVE  SentSoFar'
  <2> DEFINE g == grnJob[h].grn
             i == grnJob[h].next
  <2>1. /\ grnJob[h].at = "publish" /\ MoreLines(h) /\ AppendLine(NextLine(h))
        /\ GrnFinish(h) /\ UNCHANGED grns /\ grnDropped' = grnDropped \cup {g}
    BY <1>11 DEF LineUnacknowledged, GrnAt
  <2>2. grnJob'[h].at = "idle" /\ \A k \in Handler \ {h} : grnJob'[k] = grnJob[k]
    BY <1>0, <2>1, FinishOK
  <2>3. /\ g \in Grn /\ i \in 1 .. Len(LinesOf[g]) /\ Announces(topic', g, i)
        /\ \A d \in Grn \ {g} : \A n : Announces(topic, d, n) => Announces(topic', d, n)
    BY <2>1, LineIsSent
  <2>4. grns[g] = "PENDING" /\ g \notin grnDropped
        /\ \A k \in Handler \ {h} : grnJob[k].at = "publish" => grnJob[k].grn # g
    BY <2>1 DEF PublisherOK
  <2>5. \E n \in 0 .. Len(LinesOf[g]) : Announces(topic', g, n)
    BY <2>3
  <2> HIDE DEF i
  <2>6. \A d \in grnDropped' : \E n \in 0 .. Len(LinesOf[d]) : Announces(topic', d, n)
    <3> SUFFICES ASSUME NEW d \in grnDropped, d # g
                 PROVE  \E n \in 0 .. Len(LinesOf[d]) : Announces(topic', d, n)
      BY <2>1, <2>5
    <3>q. QED
      BY <1>0, <2>3 DEF SentSoFar
  <2>7. \A k \in Handler : grnJob'[k].at = "publish"
            => Announces(topic', grnJob'[k].grn, grnJob'[k].next - 1)
    BY <1>0, <2>2, <2>3, <2>4 DEF SentSoFar
  <2>q. QED
    BY <1>0, <2>1, <2>2, <2>3, <2>4, <2>6, <2>7 DEF SentSoFar, Applied
<1>12. CASE UNCHANGED grnVars
  BY <1>12 DEF grnVars, SentSoFar, Applied
<1>q. QED
  BY <1>2, <1>3, <1>4, <1>5, <1>6, <1>7, <1>8, <1>9, <1>10, <1>11, <1>12 DEF GrnNext, GrnStep

LEMMA SentInit == GrnInit => SentSoFar
<1> SUFFICES ASSUME GrnInit PROVE SentSoFar
  OBVIOUS
<1>1. \A l : PlacesOf(<<>>, l) = {}
  BY DEF PlacesOf
<1>2. \A l : Count(topic, l) = 0
  BY <1>1, FS_EmptySet DEF Count, GrnInit
<1>3. \A g \in Grn : Announces(topic, g, 0)
  BY <1>2, LinesOfGrn DEF Announces
<1>q. QED
  BY <1>3, GrnIdleType DEF SentSoFar, GrnInit

\* A receipt announces its lines of value one by one, each exactly once, and
\* none before its row is committed, whatever fails in between.
THEOREM GrnAnnounced == GrnSpec => []AnnouncedLineByLine
<1> DEFINE Inv == GrnTypeOK /\ PublisherOK /\ SentSoFar
<1>1. GrnInit => Inv
  BY GrnTypeInit, PublisherInit, SentInit
<1>2. Inv /\ [GrnNext]_grnVars => Inv'
  BY GrnTypeStep, PublisherStep, SentStep
<1>3. Inv => AnnouncedLineByLine
  BY SentSoFarSuffices
<1>q. QED
  BY <1>1, <1>2, <1>3, PTL DEF GrnSpec

--------------------------------------------------------------------------------
(* What was received. *)

AppliedGrns == {g \in Grn : Applied(g)}
QtyPerGrn(p) == [g \in Grn |-> QtyFor(g, p)]

\* A handler's read is current wherever nobody committed since, and there are
\* finitely many receipts to sum over.
FreshReads ==
    /\ \A h \in Handler : grnJob[h].at = "write" =>
          \A p \in PoLine \ grnJob[h].stale : grnJob[h].read[p] = received[p]
    /\ IsFiniteSet(AppliedGrns)

LEMMA QtyForType ==
    ASSUME NEW g \in Grn, NEW p \in PoLine
    PROVE  QtyFor(g, p) \in Nat
<1> DEFINE f == [i \in DOMAIN LinesOf[g] |-> Qty[LinesOf[g][i]]]
<1>1. \A i \in DOMAIN LinesOf[g] : Qty[LinesOf[g][i]] \in Nat
  BY LinesOfGrn, QuantitiesAssumption
<1>2. \A i \in LinesFor(g, p) : f[i] \in Nat
  BY <1>1 DEF LinesFor
<1>3. IsFiniteSet(DOMAIN LinesOf[g])
  BY LinesOfGrn, FS_Interval
<1>4. IsFiniteSet(LinesFor(g, p))
  BY <1>3, FS_Subset DEF LinesFor
<1>q. QED
  BY <1>2, <1>4, SumType DEF QtyFor

\* A receipt brings in nothing for a PO line it has no line for, and the
\* quantity of its line where it has one.
LEMMA QtyForNone ==
    ASSUME NEW g \in Grn, NEW p \in PoLine, LinesFor(g, p) = {}
    PROVE  QtyFor(g, p) = 0
BY SumEmpty DEF QtyFor

LEMMA QtyForOne ==
    ASSUME NEW g \in Grn, NEW p \in PoLine, NEW i, LinesFor(g, p) = {i}
    PROVE  QtyFor(g, p) = Qty[LinesOf[g][i]]
<1> DEFINE f == [j \in DOMAIN LinesOf[g] |-> Qty[LinesOf[g][j]]]
<1>1. i \in DOMAIN LinesOf[g]
  BY DEF LinesFor
<1>2. f[i] = Qty[LinesOf[g][i]] /\ f[i] \in Nat
  BY <1>1, LinesOfGrn, QuantitiesAssumption
<1> HIDE DEF f
<1>3. SumFunctionOnSet(f, {i}) = f[i]
  BY <1>2, SumOne
<1>q. QED
  BY <1>2, <1>3 DEF QtyFor, f

\* What a commit assigns, where it overwrites nothing: the read was current and
\* the receipt has one line, which was compared with the order.
LEMMA AssignedOK ==
    ASSUME GrnTypeOK, FreshReads, NEW h \in Handler, AcceptGrn(h), NEW p \in PoLine \ overwritten'
    PROVE  /\ received'[p] = received[p] + QtyFor(grnJob[h].grn, p)
           /\ received[p] <= Ordered[p] => received'[p] <= Ordered[p]
<1> DEFINE g == grnJob[h].grn
           read == grnJob[h].read
           touched == {q \in PoLine : LinesFor(g, q) # {}}
<1>0. g \in Grn /\ read \in [PoLine -> Nat] /\ received \in [PoLine -> Nat]
  BY TaskFields DEF GrnTypeOK
<1>1. received'[p] = IF p \in touched THEN NewReceivedQty(g, read, p) ELSE received[p]
  BY DEF AcceptGrn
<1>2. CASE p \notin touched
  <2>1. QtyFor(g, p) = 0
    BY <1>0, <1>2, QtyForNone
  <2>q. QED
    BY <1>0, <1>1, <1>2, <2>1
<1>3. CASE p \in touched
  <2>1. p \notin touched \cap grnJob[h].stale
        /\ p \notin {q \in touched : \E i, j \in LinesFor(g, q) : i # j}
    BY DEF AcceptGrn
  <2>2. read[p] = received[p]
    BY <1>3, <2>1 DEF FreshReads, AcceptGrn, GrnAt
  <2>3. PICK i \in LinesFor(g, p) : LinesFor(g, p) = {i}
    BY <1>3, <2>1
  <2>4. Max(LinesFor(g, p)) = i /\ i \in DOMAIN LinesOf[g] /\ PoLineOf[LinesOf[g][i]] = p
    BY <1>0, <2>3, LastLineFor DEF LinesFor
  <2>5. QtyFor(g, p) = Qty[LinesOf[g][i]] /\ Qty[LinesOf[g][i]] \in Nat
    BY <1>0, <2>3, <2>4, QtyForOne, LinesOfGrn, QuantitiesAssumption
  <2>6. received'[p] = received[p] + Qty[LinesOf[g][i]]
    BY <1>1, <1>3, <2>2, <2>4 DEF NewReceivedQty
  <2>7. ~OverReceipt(g, read)
    BY DEF AcceptGrn
  <2>8. ~(read[p] + Qty[LinesOf[g][i]] > Ordered[p])
    BY <2>4, <2>7 DEF OverReceipt
  <2>9. Ordered[p] \in Nat /\ received[p] \in Nat
    BY <1>0, QuantitiesAssumption
  <2>10. received[p] + Qty[LinesOf[g][i]] <= Ordered[p]
    BY <2>2, <2>5, <2>8, <2>9
  <2>q. QED
    BY <2>5, <2>6, <2>10
<1>q. QED
  BY <1>2, <1>3

\* Only AcceptGrn changes what was received and which receipts are applied.
LEMMA OnlyAcceptApplies ==
    ASSUME GrnTypeOK, PublisherOK, [GrnNext]_grnVars
    PROVE  \/ \E h \in Handler : AcceptGrn(h)
           \/ UNCHANGED received /\ AppliedGrns' = AppliedGrns /\ overwritten' = overwritten
<1>0. /\ grns \in [Grn -> {"none", "PENDING", "POSTED", "NEEDS_REVIEW"}]
      /\ \A h \in Handler : grnJob[h].grn \in Grn
  BY TaskFields DEF GrnTypeOK
<1>1. ASSUME NEW h \in Handler, ParkGrn(h)
      PROVE  UNCHANGED received /\ AppliedGrns' = AppliedGrns /\ overwritten' = overwritten
  BY <1>0, <1>1 DEF ParkGrn, AppliedGrns, Applied
<1>2. ASSUME NEW h \in Handler, MarkPosted(h)
      PROVE  UNCHANGED received /\ AppliedGrns' = AppliedGrns /\ overwritten' = overwritten
  <2>1. grns[grnJob[h].grn] = "PENDING"
    BY <1>2 DEF MarkPosted, GrnAt, PublisherOK
  <2>q. QED
    BY <1>0, <1>2, <2>1 DEF MarkPosted, AppliedGrns, Applied
<1>3. CASE UNCHANGED <<received, grns, overwritten>>
  BY <1>3 DEF AppliedGrns, Applied
<1>q. QED
  BY <1>1, <1>2, <1>3
  DEF GrnNext, GrnStep, ReceiveGrn, ReplayGrn, BeginGrn, UnknownRow, ReadPoLines, RollBackGrn,
      PublishLine, FailGrn, LineUnacknowledged, grnVars

\* An accepted receipt is one more to sum over.
LEMMA AcceptApplies ==
    ASSUME GrnTypeOK, NEW h \in Handler, AcceptGrn(h)
    PROVE  /\ grnJob[h].grn \in Grn \ AppliedGrns
           /\ AppliedGrns' = AppliedGrns \cup {grnJob[h].grn}
<1>1. grnJob[h].grn \in Grn /\ grns \in [Grn -> {"none", "PENDING", "POSTED", "NEEDS_REVIEW"}]
  BY TaskFields DEF GrnTypeOK
<1>2. grns[grnJob[h].grn] = "none" /\ grns' = [grns EXCEPT ![grnJob[h].grn] = "PENDING"]
  BY DEF AcceptGrn
<1>q. QED
  BY <1>1, <1>2 DEF AppliedGrns, Applied

LEMMA ReceivedStep ==
    ASSUME GrnTypeOK, PublisherOK, FreshReads, ReceivedMatchesReceipts, [GrnNext]_grnVars
    PROVE  ReceivedMatchesReceipts'
<1>0. \A p \in PoLine : QtyPerGrn(p) \in [Grn -> Nat]
  BY QtyForType DEF QtyPerGrn
<1>1. ASSUME NEW p \in PoLine
      PROVE  /\ Delivered(p) = SumFunctionOnSet(QtyPerGrn(p), AppliedGrns)
             /\ Delivered(p)' = SumFunctionOnSet(QtyPerGrn(p), AppliedGrns')
  BY DEF Delivered, QtyPerGrn, AppliedGrns
<1>2. ASSUME NEW h \in Handler, AcceptGrn(h)
      PROVE  ReceivedMatchesReceipts'
  <2> DEFINE g == grnJob[h].grn
  <2>1. /\ g \in Grn \ AppliedGrns /\ AppliedGrns' = AppliedGrns \cup {g}
        /\ AppliedGrns \subseteq Grn /\ overwritten \subseteq overwritten'
        /\ IsFiniteSet(AppliedGrns)
    BY <1>2, AcceptApplies DEF AppliedGrns, AcceptGrn, FreshReads
  <2>2. SUFFICES ASSUME NEW p \in PoLine \ overwritten'
                 PROVE  received'[p] = Delivered(p)' /\ Delivered(p)' <= Ordered[p]
    BY DEF ReceivedMatchesReceipts
  <2>3. received[p] = Delivered(p) /\ Delivered(p) <= Ordered[p]
    BY <2>1 DEF ReceivedMatchesReceipts
  <2>4. /\ received'[p] = received[p] + QtyFor(g, p)
        /\ received[p] <= Ordered[p] => received'[p] <= Ordered[p]
    BY <1>2, AssignedOK
  <2>5. QtyPerGrn(p)[g] = QtyFor(g, p)
    BY <2>1 DEF QtyPerGrn
  <2>6. QtyPerGrn(p)[g] \in Nat /\ \A x \in AppliedGrns : QtyPerGrn(p)[x] \in Nat
    BY <1>0, <2>1
  <2> HIDE DEF g
  <2>7. SumFunctionOnSet(QtyPerGrn(p), AppliedGrns \cup {g})
          = SumFunctionOnSet(QtyPerGrn(p), AppliedGrns) + QtyPerGrn(p)[g]
    BY <2>1, <2>6, SumAdd
  <2>8. Delivered(p)' = Delivered(p) + QtyFor(g, p)
    BY <1>1, <2>1, <2>5, <2>7
  <2>q. QED
    BY <2>3, <2>4, <2>8
<1>3. CASE UNCHANGED received /\ AppliedGrns' = AppliedGrns /\ overwritten' = overwritten
  <2>1. \A p \in PoLine : Delivered(p)' = Delivered(p)
    BY <1>1, <1>3
  <2>q. QED
    BY <1>3, <2>1 DEF ReceivedMatchesReceipts
<1>q. QED
  BY <1>2, <1>3, OnlyAcceptApplies

LEMMA FreshStep ==
    ASSUME GrnTypeOK, PublisherOK, FreshReads, [GrnNext]_grnVars
    PROVE  FreshReads'
<1> DEFINE Fresh(k) == grnJob[k].at = "write" =>
                         \A p \in PoLine \ grnJob[k].stale : grnJob[k].read[p] = received[p]
<1>0. grnJob \in [Handler -> GrnJobs] /\ \A h \in Handler : Fresh(h)
  BY DEF GrnTypeOK, FreshReads
<1>1. IsFiniteSet(AppliedGrns')
  <2>1. IsFiniteSet(AppliedGrns)
    BY DEF FreshReads
  <2>2. ASSUME NEW h \in Handler, AcceptGrn(h)
        PROVE  IsFiniteSet(AppliedGrns')
    BY <2>1, <2>2, AcceptApplies, FS_AddElement
  <2>q. QED
    BY <2>1, <2>2, OnlyAcceptApplies
<1>2. ASSUME NEW h \in Handler, grnJob'[h].at # "write",
             \A k \in Handler \ {h} : grnJob'[k] = grnJob[k], UNCHANGED received
      PROVE  FreshReads'
  BY <1>1, <1>2 DEF FreshReads
<1>3. ASSUME NEW h \in Handler, NEW g \in Grn, ReceiveGrn(h, g)
      PROVE  FreshReads'
  <2>1. grnJob' = [grnJob EXCEPT ![h] = GrnTask("lookup", g, NothingRead, 1, {})]
        /\ UNCHANGED received
    BY <1>3 DEF ReceiveGrn
  <2>2. GrnTask("lookup", g, NothingRead, 1, {}).at = "lookup"
    BY DEF GrnTask
  <2>3. grnJob'[h].at # "write" /\ \A k \in Handler \ {h} : grnJob'[k] = grnJob[k]
    BY <1>0, <2>1, <2>2
  <2>q. QED
    BY <1>2, <2>1, <2>3
<1>4. ASSUME NEW h \in Handler,
             ReplayGrn(h) \/ UnknownRow(h) \/ ParkGrn(h) \/ RollBackGrn(h) \/ MarkPosted(h)
               \/ FailGrn(h) \/ LineUnacknowledged(h)
      PROVE  FreshReads'
  <2>1. GrnFinish(h) /\ UNCHANGED received
    BY <1>4 DEF ReplayGrn, UnknownRow, ParkGrn, RollBackGrn, MarkPosted, FailGrn, LineUnacknowledged
  <2>q. QED
    BY <1>0, <1>2, <2>1, FinishOK
<1>5. ASSUME NEW h \in Handler, BeginGrn(h)
      PROVE  FreshReads'
  <2>1. GrnGoto(h, "read", 1) /\ UNCHANGED received
    BY <1>5 DEF BeginGrn
  <2>q. QED
    BY <1>0, <1>2, <2>1, GotoOK DEF GrnSteps
<1>6. ASSUME NEW h \in Handler, ReadPoLines(h)
      PROVE  FreshReads'
  <2>1. grnJob' = [grnJob EXCEPT ![h] = GrnTask("write", @.grn, received, 1, {})]
        /\ UNCHANGED received
    BY <1>6 DEF ReadPoLines
  <2>2. GrnTask("write", grnJob[h].grn, received, 1, {}).read = received
    BY DEF GrnTask
  <2>3. grnJob'[h].read = received /\ \A k \in Handler \ {h} : grnJob'[k] = grnJob[k]
    BY <1>0, <2>1, <2>2
  <2>q. QED
    BY <1>0, <1>1, <2>1, <2>3 DEF FreshReads
<1>7. ASSUME NEW h \in Handler, AcceptGrn(h)
      PROVE  FreshReads'
  <2> DEFINE touched == {p \in PoLine : LinesFor(grnJob[h].grn, p) # {}}
  <2>1. /\ grnJob'[h].at = "publish"
        /\ \A k \in Handler \ {h} :
             /\ grnJob'[k].at = grnJob[k].at /\ grnJob'[k].read = grnJob[k].read
             /\ grnJob[k].at = "write" => grnJob'[k].stale = grnJob[k].stale \cup touched
    BY <1>7, AcceptJobs
  <2>2. \A p \in PoLine \ touched : received'[p] = received[p]
    BY <1>7 DEF AcceptGrn
  <2> HIDE DEF touched
  <2>q. QED
    BY <1>0, <1>1, <2>1, <2>2 DEF FreshReads
<1>8. ASSUME NEW h \in Handler, PublishLine(h)
      PROVE  FreshReads'
  <2>1. GrnGoto(h, "publish", grnJob[h].next + 1) /\ UNCHANGED received
    BY <1>8 DEF PublishLine
  <2>2. grnJob[h].next + 1 \in Nat \ {0}
    BY <1>0, TaskFields
  <2>3. grnJob'[h].at = "publish" /\ \A k \in Handler \ {h} : grnJob'[k] = grnJob[k]
    BY <1>0, <2>1, <2>2, GotoOK DEF GrnSteps
  <2>q. QED
    BY <1>2, <2>1, <2>3
<1>9. CASE UNCHANGED grnVars
  BY <1>1, <1>9 DEF grnVars, FreshReads
<1>q. QED
  BY <1>3, <1>4, <1>5, <1>6, <1>7, <1>8, <1>9 DEF GrnNext, GrnStep

LEMMA ReceivedInit == GrnInit => FreshReads /\ ReceivedMatchesReceipts
<1> SUFFICES ASSUME GrnInit PROVE FreshReads /\ ReceivedMatchesReceipts
  OBVIOUS
<1>1. AppliedGrns = {} /\ \A h \in Handler : grnJob[h].at = "idle"
  BY GrnIdleType DEF GrnInit, AppliedGrns, Applied
<1>2. \A p \in PoLine : received[p] = 0 /\ Delivered(p) = 0
  BY <1>1, SumEmpty DEF GrnInit, NothingRead, Delivered, AppliedGrns
<1>q. QED
  BY <1>1, <1>2, FS_EmptySet, QuantitiesAssumption DEF FreshReads, ReceivedMatchesReceipts

\* received_qty of a PO line is what the accepted receipts delivered, and never
\* beyond the order, unless one of them committed on a stale read of it or had
\* several lines for it.
THEOREM ReceivedIsDelivered == GrnSpec => []ReceivedMatchesReceipts
<1> DEFINE Inv == GrnTypeOK /\ PublisherOK /\ FreshReads /\ ReceivedMatchesReceipts
<1>1. GrnInit => Inv
  BY GrnTypeInit, PublisherInit, ReceivedInit
<1>2. Inv /\ [GrnNext]_grnVars => Inv'
  BY GrnTypeStep, PublisherStep, FreshStep, ReceivedStep
<1>q. QED
  BY <1>1, <1>2, PTL DEF GrnSpec
================================================================================
