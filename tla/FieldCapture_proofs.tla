--------------------------- MODULE FieldCapture_proofs ---------------------------
(***************************************************************************)
(* Proofs about the field and the office: FieldCapture with BackOffice,    *)
(* Governance, Books and Payroll.                                          *)
(***************************************************************************)
EXTENDS FieldCapture, Collections_proofs

--------------------------------------------------------------------------------
(* Amounts: sums of integers are integers. *)

LEMMA SumIsOverDomain == \A f : SumOf(f) = SumFunctionOnSet(f, DOMAIN f)
BY DEF SumOf, FoldFunction, SumFunctionOnSet, FoldFunctionOnSet, MapThenFoldSet

\* The sum of a function with integer values on a finite set.
LEMMA SumIsInteger ==
    ASSUME NEW S, IsFiniteSet(S), NEW f \in [S -> Int]
    PROVE  SumOf(f) \in Int /\ SumOf(f) = SumFunctionOnSet(f, S)
<1>1. DOMAIN f = S /\ \A x \in S : f[x] \in Int
  OBVIOUS
<1>2. SumOf(f) = SumFunctionOnSet(f, S)
  BY <1>1, SumIsOverDomain
<1>q. QED
  BY <1>1, <1>2, SumInteger

\* Sums over the lines of an entry.
LEMMA LineType ==
    ASSUME NEW lines \in Lines
    PROVE  /\ IsFiniteSet(DOMAIN lines)
           /\ \A i \in DOMAIN lines : /\ lines[i].debit \in Nat /\ lines[i].credit \in Nat
                                      /\ AsStored(lines[i]).debit \in Int
                                      /\ AsStored(lines[i]).credit \in Int
<1>1. Len(lines) \in Nat /\ DOMAIN lines = 1 .. Len(lines)
  BY LenProperties DEF Lines
<1>2. IsFiniteSet(DOMAIN lines)
  BY <1>1, FS_Interval
<1>3. \A n \in Nat : ToCents(n) \in Int
  BY DEF ToCents
<1>4. ASSUME NEW i \in DOMAIN lines
      PROVE  /\ lines[i] \in [account : Account, debit : Nat, credit : Nat]
             /\ AsStored(lines[i]).debit = ToCents(lines[i].debit)
             /\ AsStored(lines[i]).credit = ToCents(lines[i].credit)
  <2>1. lines[i] \in [account : Account, debit : Nat, credit : Nat]
    BY <1>1, ElementOfSeq DEF Lines
  <2>2. \A l \in [account : Account, debit : Nat, credit : Nat] :
           AsStored(l).debit = ToCents(l.debit) /\ AsStored(l).credit = ToCents(l.credit)
    BY DEF AsStored
  <2>q. QED
    BY <2>1, <2>2
<1>q. QED
  BY <1>2, <1>3, <1>4

LEMMA TotalAmountType ==
    ASSUME NEW lines \in Lines
    PROVE  TotalAmount(lines) \in Int
<1> DEFINE f == [i \in DOMAIN lines |-> AsStored(lines[i]).debit]
<1>1. f \in [DOMAIN lines -> Int]
  BY LineType
<1> HIDE DEF f
<1>2. SumOf(f) \in Int
  BY <1>1, LineType, SumIsInteger
<1>q. QED
  BY <1>2, Zenon DEF TotalAmount, f

LEMMA EffectType ==
    ASSUME NEW lines \in Lines
    PROVE  Effect(lines) \in [Account -> Int]
<1> SUFFICES ASSUME NEW a \in Account PROVE Effect(lines)[a] \in Int
  BY DEF Effect
<1> DEFINE f == [i \in DOMAIN lines |->
                   LET l == AsStored(lines[i])
                   IN  IF l.account = a THEN l.debit - l.credit ELSE 0]
<1>1. f \in [DOMAIN lines -> Int]
  BY LineType
<1>2. Effect(lines)[a] = SumOf(f)
  BY Zenon DEF Effect
<1> HIDE DEF f
<1>3. SumOf(f) \in Int
  BY <1>1, LineType, SumIsInteger
<1>q. QED
  BY <1>2, <1>3

\* The other effects on the balances.
LEMMA BalanceTypes ==
    /\ Nothing \in [Account -> Int]
    /\ \A f, g \in [Account -> Int] : Plus(f, g) \in [Account -> Int] /\ Minus(f, g) \in [Account -> Int]
    /\ \A a \in Account, n \in Int : ExpenseEffect(a, n) \in [Account -> Int]
    /\ \A f \in [Account -> Int] : ClosingEffect(f) \in [Account -> Int]
<1>1. ASSUME NEW f \in [Account -> Int]
      PROVE  ClosingEffect(f) \in [Account -> Int]
  <2> DEFINE g == [b \in PnL |-> f[b]]
  <2>1. IsFiniteSet(PnL) /\ PnL \subseteq Account
    <3>1. PnL \subseteq Account
      BY DEF PnL
    <3>q. QED
      BY <3>1, BooksAssumption, FS_Subset
  <2>2. g \in [PnL -> Int]
    BY <2>1
  <2>3. ClosingEffect(f) = [a \in Account |-> IF a \in PnL THEN -f[a]
                                            ELSE IF a = RetainedEarnings THEN SumOf(g) ELSE 0]
    BY Zenon DEF ClosingEffect
  <2> HIDE DEF g
  <2>4. SumOf(g) \in Int
    BY <2>1, <2>2, SumIsInteger
  <2>q. QED
    BY <2>3, <2>4
<1>2. ASSUME NEW a \in Account, NEW n \in Int
      PROVE  ExpenseEffect(a, n) \in [Account -> Int]
  BY DEF ExpenseEffect
<1>q. QED
  BY <1>1, <1>2 DEF Nothing, Plus, Minus

\* What a payroll run costs.
LEMMA NetSalaryType ==
    ASSUME NEW revenue \in Nat
    PROVE  NetSalaryTotal(revenue) \in Int
<1>1. ASSUME NEW gross \in Int
      PROVE  PayeHH(gross) \in Int
  <2> DEFINE f == [b \in TaxBands |-> InBandH(b, TaxableH(gross)) * b.rate]
  <2>1. \A b \in TaxBands : b.min \in Int /\ b.max \in Int /\ b.rate \in Int
    BY PayrollAssumption
  <2>2. TaxableH(gross) \in Int
    BY PayrollAssumption DEF TaxableH, ReliefH, AtLeast
  <2>3. \A b \in TaxBands : InBandH(b, TaxableH(gross)) \in Int
    BY <2>1, <2>2 DEF InBandH, AtMost
  <2>4. f \in [TaxBands -> Int]
    BY <2>1, <2>3
  <2>5. PayeHH(gross) = SumOf(f)
    BY Zenon DEF PayeHH, SumOf
  <2> HIDE DEF f
  <2>6. SumOf(f) \in Int
    BY <2>4, PayrollAssumption, SumIsInteger
  <2>q. QED
    BY <2>5, <2>6
<1>2. ASSUME NEW gross \in Int
      PROVE  Deductions(gross) \in Int
  <2>1. 12 * gross \in Int
    OBVIOUS
  <2>2. PayeHH(12 * gross) \in Int
    BY <1>1, <2>1
  <2>3. \A n \in Int : Rounded(n, 1200) \in Int
    BY DEF Rounded
  <2>q. QED
    BY <2>2, <2>3, PayrollAssumption DEF Deductions, PayeCents, PensionCents
<1>3. ASSUME NEW e \in DOMAIN GradeWeight
      PROVE  Gross(revenue, e) \in Int
  <2>1. GradeWeight[e] \in Nat /\ PayrollRatio \in Nat
    BY PayrollAssumption
  <2>2. revenue * PayrollRatio * GradeWeight[e] \in Nat
    BY <2>1
  <2>q. QED
    BY <2>2 DEF Gross
<1> DEFINE f == [e \in DOMAIN GradeWeight |->
                   LET gross == Gross(revenue, e) IN 100 * gross - Deductions(gross)]
<1>4. f \in [DOMAIN GradeWeight -> Int]
  BY <1>2, <1>3
<1>5. NetSalaryTotal(revenue) = SumOf(f)
  BY Zenon DEF NetSalaryTotal, SumOf
<1> HIDE DEF f
<1>6. SumOf(f) \in Int
  BY <1>4, PayrollAssumption, SumIsInteger
<1>q. QED
  BY <1>5, <1>6

--------------------------------------------------------------------------------
(* Requests of the office as records.                                       *)

\* A request that does nothing.
LEMMA IdleType ==
    /\ Idle \in Jobs /\ Idle.at = "idle" /\ Idle.act = "none" /\ ~Idle.more
    /\ Idle.last = NoRow /\ ~Idle.old /\ Idle.doc \in Doc /\ Idle.by \in User
<1>1. (CHOOSE d \in Doc : TRUE) \in Doc
  BY OfficeAssumption
<1>2. (CHOOSE u \in User : TRUE) \in User
  BY GovernanceAssumption
<1>3. Nothing \in [Account -> Int] /\ 1 \in Level
  BY BalanceTypes DEF Level
<1>q. QED
  BY <1>1, <1>2, <1>3 DEF Idle, Jobs, NoRow

\* What a request reads as it starts.
LEMMA TaskType ==
    ASSUME stage \in [Doc -> Level], cost \in [Doc -> Int], NEW d \in Doc, NEW u \in User,
           NEW at \in {"ask", "insert", "submit"},
           NEW act \in {"approve", "reject", "post", "close", "create", "submit"},
           NEW q, q = Task(at, act, d, u)
    PROVE  /\ q \in Jobs /\ q.at = at /\ q.act = act /\ q.doc = d /\ q.by = u
           /\ q.stage = stage[d] /\ q.cost = cost[d]
           /\ ~q.more /\ q.last = NoRow /\ ~q.old
<1>1. q = [Idle EXCEPT !.at = at, !.act = act, !.doc = d, !.by = u,
                       !.stage = stage[d], !.cost = cost[d]]
  BY DEF Task
<1>2. stage[d] \in Level /\ cost[d] \in Int
  OBVIOUS
<1>3. Idle \in Jobs /\ ~Idle.more /\ Idle.last = NoRow /\ ~Idle.old
  BY IdleType
<1> HIDE DEF Idle
<1>q. QED
  BY <1>1, <1>2, <1>3 DEF Jobs

\* The fields that no step but h's own changes.
Same(i, j) ==
    /\ i.at = j.at /\ i.act = j.act /\ i.doc = j.doc /\ i.by = j.by /\ i.stage = j.stage
    /\ i.cost = j.cost /\ i.read = j.read /\ i.ok = j.ok /\ i.more = j.more

\* A request whose reads become old is the same otherwise.
LEMMA OutdatedType ==
    ASSUME NEW j \in Jobs, NEW books \in BOOLEAN, NEW d, NEW q, q = Outdated(j, d, books)
    PROVE  /\ q \in Jobs /\ Same(q, j) /\ q.last = j.last /\ q.behind = j.behind
           /\ ~q.old => ~j.old /\ (j.at # "idle" => j.doc # d /\ ~(books /\ j.act = "close"))
<1>1. CASE q = j /\ ~(j.at # "idle" /\ (j.doc = d \/ (books /\ j.act = "close")))
  BY <1>1 DEF Same
<1>2. CASE q = [j EXCEPT !.old = TRUE]
  <2>1. \A i \in Jobs : LET r == [i EXCEPT !.old = TRUE]
                        IN  /\ r \in Jobs /\ Same(r, i) /\ r.last = i.last
                            /\ r.behind = i.behind /\ r.old
    BY DEF Jobs, Same
  <2>q. QED
    BY <1>2, <2>1
<1>q. QED
  BY <1>1, <1>2 DEF Outdated

\* So is one behind which another audit row appears.
LEMMA BehindType ==
    ASSUME NEW j \in Jobs, NEW q, q = [j EXCEPT !.behind = TRUE]
    PROVE  q \in Jobs /\ Same(q, j) /\ q.last = j.last /\ q.old = j.old /\ q.behind
BY DEF Jobs, Same

\* The request j, at a further point.
Moved(q, j, at) ==
    /\ q \in Jobs /\ q.at = at /\ q.act = j.act /\ q.doc = j.doc /\ q.by = j.by
    /\ q.stage = j.stage /\ q.cost = j.cost /\ q.read = j.read /\ q.ok = j.ok
    /\ q.more = j.more /\ q.last = j.last

LEMMA MovedType ==
    ASSUME NEW j \in Jobs, NEW at \in {"write", "find", "publish"},
           NEW q, q = [j EXCEPT !.at = at]
    PROVE  Moved(q, j, at) /\ q.old = j.old
BY DEF Jobs, Moved

LEMMA FoundType ==
    ASSUME NEW j \in Jobs, NEW q, q = [j EXCEPT !.at = "write", !.old = FALSE]
    PROVE  Moved(q, j, "write") /\ ~q.old
BY DEF Jobs, Moved

--------------------------------------------------------------------------------
(* What the requests are about.                                             *)

\* A document that somebody has been asked to decide on.
Past == Pending \cup Final

\* A request does at each point what its kind of document calls for, and
\* goes on only if governance-service granted it.
JobOK(j) ==
    /\ j.at \in {"ask", "record", "write"} =>
          \/ j.act \in {"approve", "reject"} /\ Type[j.doc] \in Approvable
          \/ j.act = "post" /\ Type[j.doc] = "PAYROLL_RUN"
          \/ j.act = "close" /\ Type[j.doc] = "PERIOD_CLOSE"
    /\ j.at = "find" => j.act = "post" /\ Type[j.doc] = "PAYROLL_RUN"
    /\ j.at = "publish" => \/ j.act = "approve" /\ Type[j.doc] = "MAINTENANCE_COMPLETION"
                           \/ j.act = "post" /\ Type[j.doc] = "PAYROLL_RUN"
    /\ j.at = "insert" => j.act = "create" /\ Type[j.doc] = "EXPENSE_REQUEST"
    /\ j.at = "submit" => j.act = "submit" /\ Type[j.doc] = "MAINTENANCE_COMPLETION"
    /\ j.at \in {"write", "find", "publish"} => j.ok

JobsOK == \A h \in Handler : JobOK(job[h])

Entries == [prev : Nat, doc : Doc, stage : Level, amount : Int, by : User, ok : BOOLEAN]
ChainOK == chain \in Seq(Entries)

SideOK ==
    /\ category \in [state : {"none", "active", "inactive"}, account : Account]
    /\ due \subseteq Postings /\ requests \in Nat

--------------------------------------------------------------------------------
(* The steps of the office, by what they do to documents and requests.     *)

\* Only the request h moves.
JobStep(h, q) ==
    /\ job' = [job EXCEPT ![h] = q]
    /\ UNCHANGED <<status, stage, cost, effects, raced, crossed, chain, balance>>

\* A request that has just started.
Starting(q) ==
    /\ q \in Jobs /\ ~q.old /\ ~q.more /\ q.last = NoRow /\ q.stage = stage[q.doc]
    /\ \/ /\ q.at = "ask" /\ q.act \in {"approve", "reject"} /\ Type[q.doc] \in Approvable
          /\ status[q.doc] \in Pending /\ q.cost = cost[q.doc]
       \/ /\ q.at = "ask" /\ q.act = "post" /\ Type[q.doc] = "PAYROLL_RUN"
          /\ status[q.doc] \in {"CALCULATED", "POSTED"} /\ q.cost = cost[q.doc]
       \/ /\ q.at = "ask" /\ q.act = "close" /\ Type[q.doc] = "PERIOD_CLOSE"
          /\ status[q.doc] = "none" /\ q.read = balance
          /\ \A g \in Handler : job[g].at # "idle" => job[g].doc # q.doc
       \/ /\ q.at = "insert" /\ q.act = "create" /\ Type[q.doc] = "EXPENSE_REQUEST"
          /\ status[q.doc] = "none" /\ category.state = "active"
          /\ \A g \in Handler : job[g].at = "insert" => job[g].doc # q.doc
       \/ /\ q.at = "submit" /\ q.act = "submit" /\ Type[q.doc] = "MAINTENANCE_COMPLETION"
          /\ status[q.doc] = "OPEN"

\* h writes status s, stage g, amount c and consequences e into its document.
Write(h, s, g, c, e, books, next) ==
    LET d == job[h].doc
    IN  /\ status' = [status EXCEPT ![d] = s] /\ stage' = [stage EXCEPT ![d] = g]
        /\ cost' = [cost EXCEPT ![d] = c] /\ effects' = [effects EXCEPT ![d] = e]
        /\ raced' = raced \cup {x \in {d} : job[h].old}
        /\ Overtake(h, d, books, next)
        /\ books \/ balance' = balance
        /\ job[h].act = "close" => balance' = Plus(balance, ClosingEffect(job[h].read))
        /\ UNCHANGED <<crossed, chain>>

\* What it may write, by the point it has reached.
Writable(h, s, g, c, e, books, next) ==
    LET j == job[h]
        d == j.doc
    IN  \/ /\ j.at = "write" /\ j.act = "approve" /\ j.more
           /\ s = status[d] /\ g = j.stage + 1 /\ c = cost[d] /\ e = effects[d] /\ next = Idle
        \/ /\ j.at = "write" /\ j.act = "approve" /\ ~j.more
           /\ s \in Agreed /\ g = stage[d] /\ c = cost[d]
           /\ \/ /\ Type[d] \in {"PURCHASE_ORDER", "BATCH_COST", "MANUAL_JOURNAL_ENTRY"}
                 /\ e = effects[d] /\ next = Idle
              \/ /\ Type[d] = "AGENT_ONBOARDING" /\ effects[d] = <<>>
                 /\ e = Append(effects[d], j.cost) /\ next = Idle
              \/ /\ Type[d] = "EXPENSE_REQUEST"
                 /\ e = Append(effects[d], j.cost) /\ next = Idle
              \/ /\ Type[d] = "MAINTENANCE_COMPLETION"
                 /\ e = effects[d] /\ next = [j EXCEPT !.at = "publish"]
        \/ /\ j.at = "write" /\ j.act = "reject"
           /\ s = "REJECTED" /\ g = stage[d] /\ c = cost[d] /\ e = effects[d] /\ next = Idle
        \/ /\ j.at = "insert"
           /\ s = "PENDING_APPROVAL" /\ g = stage[d] /\ c = cost[d] /\ e = effects[d] /\ next = Idle
        \/ /\ j.at = "write" /\ j.act = "post"
           /\ s = "POSTED" /\ g = stage[d] /\ c = cost[d] /\ e = effects[d]
           /\ next = [j EXCEPT !.at = "publish"]
        \/ /\ j.at = "write" /\ j.act = "close"
           /\ s = "POSTED" /\ g = stage[d] /\ c = cost[d] /\ e = effects[d] /\ next = Idle
           /\ books
        \/ /\ j.at = "submit"
           /\ s = "PENDING_APPROVAL" /\ g = stage[d] /\ c = j.cost /\ e = effects[d] /\ next = Idle

\* A document comes about outside a request.
Create(d, s, c) ==
    /\ \/ Type[d] \in {"AGENT_ONBOARDING", "MANUAL_JOURNAL_ENTRY"} /\ s = "PENDING_APPROVAL"
       \/ /\ Type[d] = "PAYROLL_RUN" /\ s = "CALCULATED"
          /\ \E revenue \in Revenues : c = NetSalaryTotal(revenue)
    /\ status[d] = "none" /\ status' = [status EXCEPT ![d] = s]
    /\ c \in Int /\ cost' = [cost EXCEPT ![d] = c]
    /\ UNCHANGED <<stage, effects, job, raced, crossed, chain, balance>>

Begins == \E h \in Handler : \E q : job[h].at = "idle" /\ Starting(q) /\ JobStep(h, q)
Drops == \E h \in Handler : JobStep(h, Idle)
Finds == \E h \in Handler :
            /\ job[h].at = "find" /\ status[job[h].doc] # "POSTED"
            /\ JobStep(h, [job[h] EXCEPT !.at = "write", !.old = FALSE])
Writes == \E h \in Handler, books \in BOOLEAN : \E s, g, c, e, next :
            Write(h, s, g, c, e, books, next) /\ Writable(h, s, g, c, e, books, next)
Publishes == \E h \in Handler :
            /\ job[h].at = "publish"
            /\ effects' = [effects EXCEPT ![job[h].doc] = Append(@, job[h].cost)]
            /\ job' = [job EXCEPT ![h] = Idle]
            /\ UNCHANGED <<status, stage, cost, raced, crossed, chain, balance>>
Creates == \E d \in Doc : \E s, c : Create(d, s, c)
Rests == UNCHANGED <<status, stage, cost, effects, job, raced, crossed, chain, balance>>

OfficeMove ==
    \/ Begins \/ Drops \/ Finds \/ Writes \/ Publishes \/ Creates \/ LedgerPosts \/ Rests
    \/ \E h \in Handler : Decide(h) \/ Record(h)

\* An update that changes nothing, and the types it is about.
LEMMA OfficeTypes ==
    ASSUME OfficeTypeOK
    PROVE  /\ status \in [Doc -> {"absent", "none", "OPEN", "CALCULATED"} \cup Pending \cup Final]
           /\ stage \in [Doc -> Level] /\ cost \in [Doc -> Int] /\ effects \in [Doc -> Seq(Int)]
           /\ job \in [Handler -> Jobs] /\ balance \in [Account -> Int]
           /\ \A h \in Handler : job[h] \in Jobs /\ job[h].doc \in Doc /\ job[h].cost \in Int
           /\ \A d \in Doc : /\ [status EXCEPT ![d] = status[d]] = status
                             /\ [stage EXCEPT ![d] = stage[d]] = stage
                             /\ [cost EXCEPT ![d] = cost[d]] = cost
                             /\ [effects EXCEPT ![d] = effects[d]] = effects
<1>1. \A j \in Jobs : j.doc \in Doc /\ j.cost \in Int
  BY DEF Jobs
<1>q. QED
  BY <1>1 DEF OfficeTypeOK

LEMMA AdvanceMoves ==
    ASSUME OfficeTypeOK, NEW h \in Handler, NEW type, Advance(h, type)
    PROVE  Writes
<1> DEFINE d == job[h].doc
<1>1. Write(h, status[d], job[h].stage + 1, cost[d], effects[d], FALSE, Idle)
  BY OfficeTypes DEF Advance, Granted, Write
<1>2. Writable(h, status[d], job[h].stage + 1, cost[d], effects[d], FALSE, Idle)
  BY DEF Advance, Granted, Writable
<1>q. QED
  BY <1>1, <1>2 DEF Writes

LEMMA SettleMoves ==
    ASSUME OfficeTypeOK, NEW h \in Handler, NEW books \in BOOLEAN, NEW s, NEW next, NEW e,
           Settle(h, s, books, next), UNCHANGED stage, books \/ UNCHANGED balance,
           job[h].act = "close" => balance' = Plus(balance, ClosingEffect(job[h].read)),
           effects' = [effects EXCEPT ![job[h].doc] = e]
    PROVE  Write(h, s, stage[job[h].doc], cost[job[h].doc], e, books, next)
<1> DEFINE d == job[h].doc
<1>1. /\ status' = [status EXCEPT ![d] = s] /\ raced' = raced \cup {x \in {d} : job[h].old}
      /\ Overtake(h, d, books, next) /\ UNCHANGED <<cost, crossed, chain>>
  BY DEF Settle
<1>2. stage' = [stage EXCEPT ![d] = stage[d]] /\ cost' = [cost EXCEPT ![d] = cost[d]]
  BY <1>1, OfficeTypes
<1>q. QED
  BY <1>1, <1>2 DEF Write

\* The same for what settles and brings nothing about.
LEMMA SettleOnlyMoves ==
    ASSUME OfficeTypeOK, NEW h \in Handler, NEW books \in BOOLEAN, NEW s, NEW next,
           Settle(h, s, books, next), UNCHANGED <<stage, effects>>, books \/ UNCHANGED balance,
           job[h].act = "close" => balance' = Plus(balance, ClosingEffect(job[h].read))
    PROVE  Write(h, s, stage[job[h].doc], cost[job[h].doc], effects[job[h].doc], books, next)
<1>1. effects' = [effects EXCEPT ![job[h].doc] = effects[job[h].doc]]
  BY OfficeTypes
<1>q. QED
  BY <1>1, SettleMoves

LEMMA AcceptMoves ==
    ASSUME OfficeTypeOK, NEW h \in Handler, NEW q, Start(h, q)
    PROVE  job[h].at = "idle" /\ JobStep(h, q)
BY DEF Start, JobStep

LEMMA ReviewMoves ==
    ASSUME OfficeTypeOK, NEW h \in Handler, NEW act \in {"approve", "reject"},
           NEW type \in Approvable, Review(h, act, type)
    PROVE  Begins
<1>1. PICK d \in DocsOf(type), u \in User :
         status[d] \in Pending /\ Accept(h, Task("ask", act, d, u))
  BY DEF Review
<1>2. d \in Doc /\ Type[d] \in Approvable
  BY DEF DocsOf
<1> DEFINE q == Task("ask", act, d, u)
<1>3. /\ q \in Jobs /\ q.at = "ask" /\ q.act = act /\ q.doc = d
      /\ q.stage = stage[d] /\ q.cost = cost[d] /\ ~q.more /\ q.last = NoRow /\ ~q.old
  BY <1>2, OfficeTypes, TaskType
<1>4. job[h].at = "idle" /\ JobStep(h, q)
  BY <1>1, AcceptMoves DEF Accept
<1> HIDE DEF q
<1>5. Starting(q)
  BY <1>1, <1>2, <1>3 DEF Starting
<1>q. QED
  BY <1>4, <1>5 DEF Begins

LEMMA RejectMoves ==
    ASSUME OfficeTypeOK, NEW h \in Handler, NEW type \in Approvable, Reject(h, type)
    PROVE  Begins \/ Writes
<1>1. CASE Review(h, "reject", type)
  BY <1>1, ReviewMoves
<1>2. CASE /\ Granted(h, "reject", type) /\ Settle(h, "REJECTED", FALSE, Idle)
           /\ UNCHANGED <<stage, effects, balance>>
  <2> DEFINE d == job[h].doc
  <2>1. Write(h, "REJECTED", stage[d], cost[d], effects[d], FALSE, Idle)
    BY <1>2, SettleOnlyMoves DEF Granted, Approving
  <2>2. Writable(h, "REJECTED", stage[d], cost[d], effects[d], FALSE, Idle)
    BY <1>2 DEF Granted, Writable
  <2>q. QED
    BY <2>1, <2>2 DEF Writes
<1>q. QED
  BY <1>1, <1>2 DEF Reject

LEMMA SimpleMoves ==
    ASSUME OfficeTypeOK, NEW h \in Handler, NEW type \in {"PURCHASE_ORDER", "BATCH_COST"},
           SettleOnly(h, type, "APPROVED")
    PROVE  Begins \/ Writes
<1>0. type \in Approvable
  BY DEF Approvable
<1>1. CASE Review(h, "approve", type)
  BY <1>0, <1>1, ReviewMoves
<1>2. CASE Advance(h, type)
  BY <1>2, AdvanceMoves
<1>3. CASE Approving(h, type) /\ Settle(h, "APPROVED", FALSE, Idle) /\ UNCHANGED <<stage, effects, balance>>
  <2> DEFINE d == job[h].doc
  <2>1. Write(h, "APPROVED", stage[d], cost[d], effects[d], FALSE, Idle)
    BY <1>3, SettleOnlyMoves DEF Granted, Approving
  <2>2. Writable(h, "APPROVED", stage[d], cost[d], effects[d], FALSE, Idle)
    BY <1>3 DEF Approving, Granted, Writable, Agreed
  <2>q. QED
    BY <2>1, <2>2 DEF Writes
<1>q. QED
  BY <1>1, <1>2, <1>3 DEF SettleOnly

LEMMA OnboardingMoves ==
    ASSUME OfficeTypeOK, NEW h \in Handler, ApproveOnboarding(h)
    PROVE  Begins \/ Writes \/ Drops
<1>0. "AGENT_ONBOARDING" \in Approvable
  BY DEF Approvable
<1> DEFINE d == job[h].doc
<1>1. CASE Review(h, "approve", "AGENT_ONBOARDING")
  BY <1>0, <1>1, ReviewMoves
<1>2. CASE Advance(h, "AGENT_ONBOARDING")
  BY <1>2, AdvanceMoves
<1>3. CASE /\ Approving(h, "AGENT_ONBOARDING") /\ effects[d] = <<>>
           /\ BringAbout(d, job[h].cost)
           /\ Settle(h, "PROVISIONED", FALSE, Idle) /\ UNCHANGED <<stage, balance>>
  <2> DEFINE e == Append(effects[d], job[h].cost)
  <2>1. effects' = [effects EXCEPT ![d] = e]
    BY <1>3, OfficeTypes DEF BringAbout
  <2> HIDE DEF e
  <2>2. Write(h, "PROVISIONED", stage[d], cost[d], e, FALSE, Idle)
    BY <1>3, <2>1, SettleMoves DEF Granted, Approving
  <2>3. Writable(h, "PROVISIONED", stage[d], cost[d], e, FALSE, Idle)
    BY <1>3 DEF Approving, Granted, Writable, Agreed, e
  <2>q. QED
    BY <2>2, <2>3 DEF Writes
<1>4. CASE Approving(h, "AGENT_ONBOARDING") /\ effects[d] # <<>> /\ Abandon(h)
  BY <1>4 DEF Abandon, Drops, JobStep
<1>q. QED
  BY <1>1, <1>2, <1>3, <1>4 DEF ApproveOnboarding

LEMMA ExpenseMoves ==
    ASSUME OfficeTypeOK, NEW h \in Handler, ApproveExpenseRequest(h)
    PROVE  Begins \/ Writes
<1>0. "EXPENSE_REQUEST" \in Approvable
  BY DEF Approvable
<1> DEFINE d == job[h].doc
<1>1. CASE Review(h, "approve", "EXPENSE_REQUEST")
  BY <1>0, <1>1, ReviewMoves
<1>2. CASE Advance(h, "EXPENSE_REQUEST")
  BY <1>2, AdvanceMoves
<1>3. CASE /\ Approving(h, "EXPENSE_REQUEST") /\ BringAbout(d, job[h].cost)
           /\ Settle(h, "POSTED", TRUE, Idle) /\ UNCHANGED stage
  <2> DEFINE e == Append(effects[d], job[h].cost)
  <2>1. effects' = [effects EXCEPT ![d] = e]
    BY <1>3, OfficeTypes DEF BringAbout
  <2> HIDE DEF e
  <2>2. Write(h, "POSTED", stage[d], cost[d], e, TRUE, Idle)
    BY <1>3, <2>1, SettleMoves DEF Granted, Approving
  <2>3. Writable(h, "POSTED", stage[d], cost[d], e, TRUE, Idle)
    BY <1>3 DEF Approving, Granted, Writable, Agreed, e
  <2>q. QED
    BY <2>2, <2>3 DEF Writes
<1>q. QED
  BY <1>1, <1>2, <1>3 DEF ApproveExpenseRequest

LEMMA InsertMoves ==
    ASSUME OfficeTypeOK, JobsOK, NEW h \in Handler, CreateExpenseRequest(h)
    PROVE  Begins \/ Writes
<1>1. ASSUME NEW d \in DocsOf("EXPENSE_REQUEST"), status[d] = "none", category.state = "active",
             \A g \in Handler : job[g].at = "insert" => job[g].doc # d,
             Start(h, Task("insert", "create", d, Idle.by))
      PROVE  Begins
  <2>1. d \in Doc /\ Type[d] = "EXPENSE_REQUEST" /\ Idle.by \in User
    BY IdleType DEF DocsOf
  <2> DEFINE q == Task("insert", "create", d, Idle.by)
  <2>2. /\ q \in Jobs /\ q.at = "insert" /\ q.act = "create" /\ q.doc = d
        /\ q.stage = stage[d] /\ ~q.more /\ q.last = NoRow /\ ~q.old
    BY <2>1, OfficeTypes, TaskType
  <2>3. job[h].at = "idle" /\ JobStep(h, q)
    BY <1>1, AcceptMoves
  <2> HIDE DEF q
  <2>4. Starting(q)
    BY <1>1, <2>1, <2>2 DEF Starting
  <2>q. QED
    BY <2>3, <2>4 DEF Begins
<1>2. ASSUME job[h].at = "insert", Settle(h, "PENDING_APPROVAL", FALSE, Idle),
             UNCHANGED <<stage, effects, balance>>
      PROVE  Writes
  <2> DEFINE d == job[h].doc
  <2>1. Write(h, "PENDING_APPROVAL", stage[d], cost[d], effects[d], FALSE, Idle)
    BY <1>2, SettleOnlyMoves DEF JobsOK, JobOK
  <2>2. Writable(h, "PENDING_APPROVAL", stage[d], cost[d], effects[d], FALSE, Idle)
    BY <1>2 DEF Writable
  <2>q. QED
    BY <2>1, <2>2 DEF Writes
<1>q. QED
  BY <1>1, <1>2 DEF CreateExpenseRequest

LEMMA JournalMoves ==
    ASSUME OfficeTypeOK, NEW h \in Handler, ApproveJournalEntry(h) \/ RejectJournalEntry(h)
    PROVE  Begins \/ Writes
<1>0. "MANUAL_JOURNAL_ENTRY" \in Approvable
  BY DEF Approvable
<1> DEFINE d == job[h].doc
<1>1. CASE Review(h, "approve", "MANUAL_JOURNAL_ENTRY") \/ Review(h, "reject", "MANUAL_JOURNAL_ENTRY")
  BY <1>0, <1>1, ReviewMoves
<1>2. CASE Advance(h, "MANUAL_JOURNAL_ENTRY")
  BY <1>2, AdvanceMoves
<1>3. CASE /\ Approving(h, "MANUAL_JOURNAL_ENTRY")
           /\ Settle(h, "POSTED", TRUE, Idle) /\ UNCHANGED <<stage, effects>>
  <2>1. Write(h, "POSTED", stage[d], cost[d], effects[d], TRUE, Idle)
    BY <1>3, SettleOnlyMoves DEF Granted, Approving
  <2>2. Writable(h, "POSTED", stage[d], cost[d], effects[d], TRUE, Idle)
    BY <1>3 DEF Approving, Granted, Writable, Agreed
  <2>q. QED
    BY <2>1, <2>2 DEF Writes
<1>4. CASE /\ Granted(h, "reject", "MANUAL_JOURNAL_ENTRY")
           /\ Settle(h, "REJECTED", TRUE, Idle) /\ UNCHANGED <<stage, effects>>
  <2>1. Write(h, "REJECTED", stage[d], cost[d], effects[d], TRUE, Idle)
    BY <1>4, SettleOnlyMoves DEF Granted, Approving
  <2>2. Writable(h, "REJECTED", stage[d], cost[d], effects[d], TRUE, Idle)
    BY <1>4 DEF Granted, Writable
  <2>q. QED
    BY <2>1, <2>2 DEF Writes
<1>q. QED
  BY <1>1, <1>2, <1>3, <1>4 DEF ApproveJournalEntry, RejectJournalEntry

LEMMA PublishMoves ==
    ASSUME OfficeTypeOK, NEW h \in Handler, NEW type, Publish(h, type)
    PROVE  Publishes
BY DEF Publish, Publishes, BringAbout

LEMMA SubmitMoves ==
    ASSUME OfficeTypeOK, JobsOK, NEW h \in Handler, SubmitMaintenanceRequest(h)
    PROVE  Begins \/ Writes
<1>1. ASSUME NEW x \in DocsOf("MAINTENANCE_COMPLETION"), NEW c \in Costs, status[x] = "OPEN",
             Start(h, [Task("submit", "submit", x, Idle.by) EXCEPT !.cost = c])
      PROVE  Begins
  <2>1. x \in Doc /\ Type[x] = "MAINTENANCE_COMPLETION" /\ Idle.by \in User /\ c \in Int
    BY IdleType, OfficeAssumption DEF DocsOf
  <2>2. PICK t : t = Task("submit", "submit", x, Idle.by)
    OBVIOUS
  <2>3. /\ t \in Jobs /\ t.at = "submit" /\ t.act = "submit" /\ t.doc = x
        /\ t.stage = stage[x] /\ ~t.more /\ t.last = NoRow /\ ~t.old
    BY <2>1, <2>2, OfficeTypes, TaskType
  <2>4. PICK q : q = [t EXCEPT !.cost = c]
    OBVIOUS
  <2>5. /\ q \in Jobs /\ q.at = t.at /\ q.act = t.act /\ q.doc = t.doc
        /\ q.stage = t.stage /\ ~q.more /\ q.last = t.last /\ ~q.old
    BY <2>1, <2>3, <2>4 DEF Jobs
  <2>6. job[h].at = "idle" /\ JobStep(h, q)
    BY <1>1, <2>2, <2>4, AcceptMoves
  <2>7. Starting(q)
    BY <1>1, <2>1, <2>3, <2>5 DEF Starting
  <2>q. QED
    BY <2>6, <2>7 DEF Begins
<1> DEFINE d == job[h].doc
<1>2. ASSUME /\ job[h].at = "submit"
             /\ status' = [status EXCEPT ![d] = "PENDING_APPROVAL"]
             /\ cost' = [cost EXCEPT ![d] = job[h].cost]
             /\ raced' = raced \cup {x \in {d} : job[h].old}
             /\ Overtake(h, d, FALSE, Idle)
             /\ UNCHANGED <<stage, effects, category, due, crossed, requests, chain, balance>>
      PROVE  Writes
  <2>1. Write(h, "PENDING_APPROVAL", stage[d], job[h].cost, effects[d], FALSE, Idle)
    BY <1>2, OfficeTypes DEF Write, JobsOK, JobOK
  <2>2. Writable(h, "PENDING_APPROVAL", stage[d], job[h].cost, effects[d], FALSE, Idle)
    BY <1>2 DEF Writable
  <2>q. QED
    BY <2>1, <2>2 DEF Writes
<1>q. QED
  BY <1>1, <1>2 DEF SubmitMaintenanceRequest

LEMMA MaintenanceMoves ==
    ASSUME OfficeTypeOK, NEW h \in Handler, ApproveMaintenanceCompletion(h)
    PROVE  Begins \/ Writes \/ Publishes
<1>0. "MAINTENANCE_COMPLETION" \in Approvable
  BY DEF Approvable
<1> DEFINE d == job[h].doc
           next == [job[h] EXCEPT !.at = "publish"]
<1>1. CASE Review(h, "approve", "MAINTENANCE_COMPLETION")
  BY <1>0, <1>1, ReviewMoves
<1>2. CASE Advance(h, "MAINTENANCE_COMPLETION")
  BY <1>2, AdvanceMoves
<1>3. CASE /\ Approving(h, "MAINTENANCE_COMPLETION")
           /\ Settle(h, "COMPLETED", FALSE, next) /\ UNCHANGED <<stage, effects, balance>>
  <2>1. Write(h, "COMPLETED", stage[d], cost[d], effects[d], FALSE, next)
    BY <1>3, SettleOnlyMoves DEF Granted, Approving
  <2>2. Writable(h, "COMPLETED", stage[d], cost[d], effects[d], FALSE, next)
    BY <1>3 DEF Approving, Granted, Writable, Agreed
  <2> HIDE DEF next
  <2>q. QED
    BY <2>1, <2>2 DEF Writes
<1>4. CASE Publish(h, "MAINTENANCE_COMPLETION")
  BY <1>4, PublishMoves
<1>q. QED
  BY <1>1, <1>2, <1>3, <1>4 DEF ApproveMaintenanceCompletion

LEMMA RunMoves ==
    ASSUME OfficeTypeOK, NEW h \in Handler, PostRun(h)
    PROVE  Begins \/ Writes \/ Publishes \/ Finds \/ Drops
<1> DEFINE d == job[h].doc
           next == [job[h] EXCEPT !.at = "publish"]
<1>1. ASSUME NEW x \in DocsOf("PAYROLL_RUN"), NEW u \in User, status[x] \in {"CALCULATED", "POSTED"},
             Accept(h, Task("ask", "post", x, u))
      PROVE  Begins
  <2>1. x \in Doc /\ Type[x] = "PAYROLL_RUN"
    BY DEF DocsOf
  <2>2. PICK q : q = Task("ask", "post", x, u)
    OBVIOUS
  <2>3. /\ q \in Jobs /\ q.at = "ask" /\ q.act = "post" /\ q.doc = x /\ q.cost = cost[x]
        /\ q.stage = stage[x] /\ ~q.more /\ q.last = NoRow /\ ~q.old
    BY <2>1, <2>2, OfficeTypes, TaskType
  <2>4. job[h].at = "idle" /\ JobStep(h, q)
    BY <1>1, <2>2, AcceptMoves DEF Accept
  <2>5. Starting(q)
    BY <1>1, <2>1, <2>3 DEF Starting
  <2>q. QED
    BY <2>4, <2>5 DEF Begins
<1>2. CASE FindRun(h)
  <2>1. job'[h] = IF status[d] = "POSTED" THEN Idle
                  ELSE [job[h] EXCEPT !.at = "write", !.old = FALSE]
    BY <1>2, OfficeTypes DEF FindRun
  <2>2. CASE status[d] = "POSTED"
    <3>1. JobStep(h, Idle)
      BY <1>2, <2>2, OfficeTypes DEF FindRun, JobStep
    <3>q. QED
      BY <3>1 DEF Drops
  <2>3. CASE status[d] # "POSTED"
    <3>1. JobStep(h, [job[h] EXCEPT !.at = "write", !.old = FALSE])
      BY <1>2, <2>3, OfficeTypes DEF FindRun, JobStep
    <3>q. QED
      BY <1>2, <2>3, <3>1 DEF Finds, FindRun
  <2>q. QED
    BY <2>2, <2>3
<1>3. CASE /\ Granted(h, "post", "PAYROLL_RUN")
           /\ Settle(h, "POSTED", FALSE, next) /\ UNCHANGED <<stage, effects, balance>>
  <2>1. Write(h, "POSTED", stage[d], cost[d], effects[d], FALSE, next)
    BY <1>3, SettleOnlyMoves DEF Granted, Approving
  <2>2. Writable(h, "POSTED", stage[d], cost[d], effects[d], FALSE, next)
    BY <1>3 DEF Granted, Writable
  <2> HIDE DEF next
  <2>q. QED
    BY <2>1, <2>2 DEF Writes
<1>4. CASE Publish(h, "PAYROLL_RUN")
  BY <1>4, PublishMoves
<1>q. QED
  BY <1>1, <1>2, <1>3, <1>4 DEF PostRun

LEMMA CloseMoves ==
    ASSUME OfficeTypeOK, NEW h \in Handler, CloseBooks(h)
    PROVE  Begins \/ Writes
<1> DEFINE d == job[h].doc
<1>1. ASSUME NEW x \in DocsOf("PERIOD_CLOSE"), NEW u \in User, status[x] = "none",
             \A g \in Handler : job[g].at # "idle" => job[g].doc # x,
             Accept(h, [Task("ask", "close", x, u) EXCEPT !.read = balance])
      PROVE  Begins
  <2>1. x \in Doc /\ Type[x] = "PERIOD_CLOSE" /\ balance \in [Account -> Int]
    BY OfficeTypes DEF DocsOf
  <2>2. PICK t : t = Task("ask", "close", x, u)
    OBVIOUS
  <2>3. /\ t \in Jobs /\ t.at = "ask" /\ t.act = "close" /\ t.doc = x
        /\ t.stage = stage[x] /\ ~t.more /\ t.last = NoRow /\ ~t.old
    BY <2>1, <2>2, OfficeTypes, TaskType
  <2>4. PICK q : q = [t EXCEPT !.read = balance]
    OBVIOUS
  <2>5. /\ q \in Jobs /\ q.at = t.at /\ q.act = t.act /\ q.doc = t.doc /\ q.read = balance
        /\ q.stage = t.stage /\ ~q.more /\ q.last = t.last /\ ~q.old
    BY <2>1, <2>3, <2>4 DEF Jobs
  <2>6. job[h].at = "idle" /\ JobStep(h, q)
    BY <1>1, <2>2, <2>4, AcceptMoves DEF Accept
  <2>7. Starting(q)
    BY <1>1, <2>1, <2>3, <2>5 DEF Starting
  <2>q. QED
    BY <2>6, <2>7 DEF Begins
<1>2. CASE /\ Granted(h, "close", "PERIOD_CLOSE")
           /\ balance' = Plus(balance, ClosingEffect(job[h].read))
           /\ Settle(h, "POSTED", TRUE, Idle) /\ UNCHANGED <<stage, effects>>
  <2>1. Write(h, "POSTED", stage[d], cost[d], effects[d], TRUE, Idle)
    BY <1>2, SettleOnlyMoves DEF Granted, Approving
  <2>2. Writable(h, "POSTED", stage[d], cost[d], effects[d], TRUE, Idle)
    BY <1>2 DEF Granted, Writable
  <2>q. QED
    BY <2>1, <2>2 DEF Writes
<1>q. QED
  BY <1>1, <1>2 DEF CloseBooks

\* What comes about outside the requests.
LEMMA CreateMoves ==
    ASSUME OfficeTypeOK, SubmitOnboarding \/ CreateManualJournalEntry \/ CalculateRun
    PROVE  Creates
<1>1. CASE SubmitOnboarding
  <2>1. PICK d \in DocsOf("AGENT_ONBOARDING") :
           /\ status[d] = "none"
           /\ status' = [status EXCEPT ![d] = "PENDING_APPROVAL"]
           /\ UNCHANGED <<stage, cost, effects, category, job, due, raced, crossed, requests,
                          chain, balance>>
    BY <1>1 DEF SubmitOnboarding
  <2>2. d \in Doc /\ Type[d] = "AGENT_ONBOARDING" /\ cost[d] \in Int
    BY OfficeTypes DEF DocsOf
  <2>3. Create(d, "PENDING_APPROVAL", cost[d])
    BY <2>1, <2>2, OfficeTypes DEF Create
  <2>q. QED
    BY <2>2, <2>3 DEF Creates
<1>2. CASE CreateManualJournalEntry
  <2>1. PICK d \in DocsOf("MANUAL_JOURNAL_ENTRY") :
           /\ status[d] = "none"
           /\ status' = [status EXCEPT ![d] = "PENDING_APPROVAL"]
           /\ cost' = [cost EXCEPT ![d] = TotalAmount(LinesOf[d])]
           /\ UNCHANGED <<stage, effects, category, job, due, raced, crossed, requests, chain, balance>>
    BY <1>2 DEF CreateManualJournalEntry
  <2>2. d \in Doc /\ Type[d] = "MANUAL_JOURNAL_ENTRY" /\ LinesOf[d] \in Lines
    BY OfficeAssumption DEF DocsOf
  <2>3. TotalAmount(LinesOf[d]) \in Int
    BY <2>2, TotalAmountType
  <2>4. Create(d, "PENDING_APPROVAL", TotalAmount(LinesOf[d]))
    BY <2>1, <2>2, <2>3 DEF Create
  <2>q. QED
    BY <2>2, <2>4 DEF Creates
<1>3. CASE CalculateRun
  <2>1. PICK d \in DocsOf("PAYROLL_RUN"), revenue \in Revenues :
           /\ status[d] = "none"
           /\ status' = [status EXCEPT ![d] = "CALCULATED"]
           /\ cost' = [cost EXCEPT ![d] = NetSalaryTotal(revenue)]
           /\ UNCHANGED <<stage, effects, category, job, due, raced, crossed, requests, chain, balance>>
    BY <1>3 DEF CalculateRun
  <2>2. d \in Doc /\ Type[d] = "PAYROLL_RUN" /\ revenue \in Nat
    BY OfficeAssumption DEF DocsOf
  <2>3. NetSalaryTotal(revenue) \in Int
    BY <2>2, NetSalaryType
  <2>4. Create(d, "CALCULATED", NetSalaryTotal(revenue))
    BY <2>1, <2>2, <2>3 DEF Create
  <2>q. QED
    BY <2>2, <2>4 DEF Creates
<1>q. QED
  BY <1>1, <1>2, <1>3

LEMMA CategoryRests ==
    ASSUME CreateCategory \/ DeactivateCategory
    PROVE  Rests
BY DEF CreateCategory, DeactivateCategory, SetCategory, Rests

\* Every step of the office is one of these.
LEMMA OfficeMoves ==
    ASSUME OfficeTypeOK, JobsOK, OfficeNext
    PROVE  OfficeMove
<1>0. /\ "PURCHASE_ORDER" \in Approvable /\ "AGENT_ONBOARDING" \in Approvable
      /\ "EXPENSE_REQUEST" \in Approvable /\ "BATCH_COST" \in Approvable
      /\ "MAINTENANCE_COMPLETION" \in Approvable
  BY DEF Approvable
<1>1. CASE SubmitOnboarding \/ CreateManualJournalEntry \/ CalculateRun
  BY <1>1, CreateMoves DEF OfficeMove
<1>2. CASE CreateCategory \/ DeactivateCategory \/ LedgerPosts
  BY <1>2, CategoryRests DEF OfficeMove
<1>3. ASSUME NEW h \in Handler,
             \/ CreateExpenseRequest(h) \/ SubmitMaintenanceRequest(h)
             \/ Approve(h) \/ Refuse(h) \/ PostRun(h) \/ CloseBooks(h)
             \/ Decide(h) \/ Record(h) \/ Abandon(h)
      PROVE  OfficeMove
  <2>1. CASE CreateExpenseRequest(h)
    BY <2>1, InsertMoves DEF OfficeMove
  <2>2. CASE SubmitMaintenanceRequest(h)
    BY <2>2, SubmitMoves DEF OfficeMove
  <2>3. CASE Approve(h)
    <3>1. CASE ApprovePurchaseOrder(h) \/ ApproveBatchCostReview(h)
      BY <3>1, SimpleMoves DEF ApprovePurchaseOrder, ApproveBatchCostReview, OfficeMove
    <3>2. CASE ApproveOnboarding(h)
      BY <3>2, OnboardingMoves DEF OfficeMove
    <3>3. CASE ApproveExpenseRequest(h)
      BY <3>3, ExpenseMoves DEF OfficeMove
    <3>4. CASE ApproveJournalEntry(h)
      BY <3>4, JournalMoves DEF OfficeMove
    <3>5. CASE ApproveMaintenanceCompletion(h)
      BY <3>5, MaintenanceMoves DEF OfficeMove
    <3>q. QED
      BY <2>3, <3>1, <3>2, <3>3, <3>4, <3>5 DEF Approve
  <2>4. CASE Refuse(h)
    <3>1. CASE RejectJournalEntry(h)
      BY <3>1, JournalMoves DEF OfficeMove
    <3>2. CASE \E type \in Approvable : Reject(h, type)
      BY <3>2, RejectMoves DEF OfficeMove
    <3>q. QED
      BY <1>0, <2>4, <3>1, <3>2 DEF Refuse, RejectPurchaseOrder, RejectOnboarding,
         RejectExpenseRequest, RejectBatchCostReview, RejectMaintenanceCompletion
  <2>5. CASE PostRun(h)
    BY <2>5, RunMoves DEF OfficeMove
  <2>6. CASE CloseBooks(h)
    BY <2>6, CloseMoves DEF OfficeMove
  <2>7. CASE Abandon(h)
    BY <2>7 DEF OfficeMove, Abandon, Drops, JobStep
  <2>8. CASE Decide(h) \/ Record(h)
    BY <2>8 DEF OfficeMove
  <2>q. QED
    BY <1>3, <2>1, <2>2, <2>3, <2>4, <2>5, <2>6, <2>7, <2>8
<1>q. QED
  BY <1>1, <1>2, <1>3 DEF OfficeNext

\* What one request moves to, and that the others stay.
LEMMA JobStepEffect ==
    ASSUME OfficeTypeOK, NEW h \in Handler, NEW q, job' = [job EXCEPT ![h] = q]
    PROVE  job'[h] = q /\ \A k \in Handler \ {h} : job'[k] = job[k]
BY OfficeTypes

\* The others as a document is written: they are the same, and what they
\* have read is not old only if the document is not theirs.
Spared(i, j, d, books) ==
    /\ i \in Jobs /\ Same(i, j) /\ i.last = j.last /\ i.behind = j.behind
    /\ ~i.old => ~j.old /\ (j.at # "idle" => j.doc # d /\ ~(books /\ j.act = "close"))

LEMMA OutdatedSpared ==
    ASSUME NEW j \in Jobs, NEW books \in BOOLEAN, NEW d
    PROVE  Spared(Outdated(j, d, books), j, d, books)
<1>1. PICK q : q = Outdated(j, d, books)
  OBVIOUS
<1>2. Spared(q, j, d, books)
  BY <1>1, OutdatedType DEF Spared
<1>q. QED
  BY <1>1, <1>2

LEMMA OvertakeEffect ==
    ASSUME OfficeTypeOK, NEW h \in Handler, NEW books \in BOOLEAN, NEW d, NEW next,
           Overtake(h, d, books, next)
    PROVE  job'[h] = next /\ \A k \in Handler \ {h} : Spared(job'[k], job[k], d, books)
<1>1. job'[h] = next
  BY DEF Overtake
<1>2. ASSUME NEW k \in Handler \ {h}
      PROVE  Spared(job'[k], job[k], d, books)
  <2>1. job'[k] = Outdated(job[k], d, books) /\ job[k] \in Jobs
    BY OfficeTypes DEF Overtake
  <2>q. QED
    BY <2>1, OutdatedSpared
<1>q. QED
  BY <1>1, <1>2

\* What is written is of its type.
LEMMA WritableType ==
    ASSUME OfficeTypeOK, JobsOK, NEW h \in Handler, NEW books \in BOOLEAN,
           NEW s, NEW g, NEW c, NEW e, NEW next, Writable(h, s, g, c, e, books, next)
    PROVE  /\ s = status[job[h].doc] \/ s \in Past
           /\ g \in Level /\ c \in Int /\ e \in Seq(Int)
           /\ next \in Jobs
           /\ \/ next = Idle
              \/ Moved(next, job[h], "publish") /\ job[h].at = "write"
           /\ job[h].at \in {"write", "insert", "submit"}
<1> DEFINE j == job[h]
           d == j.doc
<1>1. /\ j \in Jobs /\ d \in Doc /\ j.cost \in Int /\ j.stage \in Level
      /\ stage[d] \in Level /\ cost[d] \in Int /\ effects[d] \in Seq(Int)
  BY OfficeTypes DEF Jobs
<1>2. j.more => j.stage + 1 \in Level
  BY <1>1 DEF OfficeTypeOK, Level
<1>3. Append(effects[d], j.cost) \in Seq(Int)
  BY <1>1, AppendProperties
<1>4. \A q : q = [j EXCEPT !.at = "publish"] => Moved(q, j, "publish") /\ q \in Jobs
  BY <1>1, MovedType DEF Moved
<1>5. /\ "PENDING_APPROVAL" \in Past /\ "REJECTED" \in Past /\ "POSTED" \in Past
      /\ \A x \in Agreed : x \in Past
  BY DEF Past, Pending, Final, Agreed
<1>6. Idle \in Jobs
  BY IdleType
<1> HIDE DEF j, d
<1>7. /\ s = status[d] \/ s \in Past
      /\ g = stage[d] \/ (j.more /\ g = j.stage + 1)
      /\ c = cost[d] \/ c = j.cost
      /\ e = effects[d] \/ e = Append(effects[d], j.cost)
      /\ \/ next = Idle
         \/ next = [j EXCEPT !.at = "publish"] /\ j.at = "write"
      /\ j.at \in {"write", "insert", "submit"}
  BY <1>5 DEF Writable, j, d
<1>q. QED
  BY <1>1, <1>2, <1>3, <1>4, <1>6, <1>7 DEF j, d

\* A document that is written has been asked about.
LEMMA WriteEffect ==
    ASSUME OfficeTypeOK, JobsOK, NEW h \in Handler, NEW books \in BOOLEAN,
           NEW s, NEW g, NEW c, NEW e, NEW next, Write(h, s, g, c, e, books, next),
           Writable(h, s, g, c, e, books, next)
    PROVE  /\ \A x \in Doc :
                 /\ status'[x] = IF x = job[h].doc THEN s ELSE status[x]
                 /\ stage'[x] = IF x = job[h].doc THEN g ELSE stage[x]
                 /\ cost'[x] = IF x = job[h].doc THEN c ELSE cost[x]
                 /\ effects'[x] = IF x = job[h].doc THEN e ELSE effects[x]
                 /\ x \in raced' <=> x \in raced \/ (x = job[h].doc /\ job[h].old)
           /\ job'[h] = next
           /\ \A k \in Handler \ {h} : Spared(job'[k], job[k], job[h].doc, books)
           /\ job' \in [Handler -> Jobs]
<1>1. Overtake(h, job[h].doc, books, next)
  BY DEF Write
<1>2. job'[h] = next /\ \A k \in Handler \ {h} : Spared(job'[k], job[k], job[h].doc, books)
  BY <1>1, OvertakeEffect
<1>3. \A x \in Doc :
         /\ status'[x] = IF x = job[h].doc THEN s ELSE status[x]
         /\ stage'[x] = IF x = job[h].doc THEN g ELSE stage[x]
         /\ cost'[x] = IF x = job[h].doc THEN c ELSE cost[x]
         /\ effects'[x] = IF x = job[h].doc THEN e ELSE effects[x]
         /\ x \in raced' <=> x \in raced \/ (x = job[h].doc /\ job[h].old)
  BY OfficeTypes DEF Write
<1>4. \A k \in Handler : job'[k] \in Jobs
  <2>1. /\ s = status[job[h].doc] \/ s \in Past
        /\ g \in Level /\ c \in Int /\ e \in Seq(Int)
        /\ next \in Jobs
        /\ \/ next = Idle
           \/ Moved(next, job[h], "publish") /\ job[h].at = "write"
        /\ job[h].at \in {"write", "insert", "submit"}
    BY WritableType
  <2>2. \A k \in Handler : k = h \/ job'[k] \in Jobs
    BY <1>2 DEF Spared
  <2>q. QED
    BY <1>2, <2>1, <2>2
<1>5. job' = [k \in Handler |-> job'[k]]
  BY <1>1 DEF Overtake
<1>q. QED
  BY <1>2, <1>3, <1>4, <1>5

\* The others as an audit row appears.
LEMMA RecordEffect ==
    ASSUME OfficeTypeOK, JobsOK, ChainOK, NEW h \in Handler, Record(h),
           NEW r, r = [prev |-> job[h].last, doc |-> job[h].doc, stage |-> job[h].stage,
                       amount |-> job[h].cost, by |-> job[h].by, ok |-> job[h].ok]
    PROVE  /\ job[h].at = "record" /\ r \in Entries /\ chain' = Append(chain, r)
           /\ job' \in [Handler -> Jobs]
           /\ \/ job'[h] = Idle
              \/ /\ job[h].ok /\ job[h].act = "post"
                 /\ Moved(job'[h], job[h], "find") /\ job'[h].old = job[h].old
              \/ /\ job[h].ok /\ job[h].act # "post"
                 /\ Moved(job'[h], job[h], "write") /\ job'[h].old = job[h].old
           /\ \A k \in Handler \ {h} :
                 /\ Same(job'[k], job[k]) /\ job'[k].last = job[k].last
                 /\ job'[k].old = job[k].old
                 /\ job[k].at = "record" => job'[k].behind
           /\ crossed' = (crossed \/ job[h].behind)
           /\ UNCHANGED <<status, stage, cost, effects, raced, balance>>
<1> DEFINE j == job[h]
           next == IF ~j.ok THEN Idle
                   ELSE [j EXCEPT !.at = IF j.act = "post" THEN "find" ELSE "write"]
<1>1. /\ j.at = "record"
      /\ RecordEntry(j.doc, j.stage, j.cost, j.by, j.ok, j.last)
      /\ job' = [g \in Handler |-> IF g = h THEN next
                                   ELSE IF job[g].at = "record"
                                        THEN [job[g] EXCEPT !.behind = TRUE] ELSE job[g]]
      /\ crossed' = (crossed \/ j.behind)
      /\ UNCHANGED <<status, stage, cost, effects, category, due, raced, requests, balance>>
  BY DEF Record
<1>2. j \in Jobs
  BY OfficeTypes
<1>3. r \in Entries
  BY <1>2 DEF Entries, Jobs
<1>4. chain' = Append(chain, r)
  BY <1>1 DEF RecordEntry
<1>5. /\ job'[h] = next
      /\ \A k \in Handler \ {h} : job'[k] = IF job[k].at = "record"
                                            THEN [job[k] EXCEPT !.behind = TRUE] ELSE job[k]
  BY <1>1
<1>6. \A k \in Handler \ {h} :
         /\ job'[k] \in Jobs
         /\ Same(job'[k], job[k]) /\ job'[k].last = job[k].last
         /\ job'[k].old = job[k].old
         /\ job[k].at = "record" => job'[k].behind
  <2> SUFFICES ASSUME NEW k \in Handler \ {h}
               PROVE  /\ job'[k] \in Jobs
                      /\ Same(job'[k], job[k]) /\ job'[k].last = job[k].last
                      /\ job'[k].old = job[k].old
                      /\ job[k].at = "record" => job'[k].behind
    OBVIOUS
  <2>1. job[k] \in Jobs
    BY OfficeTypes
  <2>2. CASE job[k].at = "record"
    BY <1>5, <2>1, <2>2, BehindType
  <2>3. CASE job[k].at # "record"
    BY <1>5, <2>1, <2>3 DEF Same
  <2>q. QED
    BY <2>2, <2>3
<1>7. /\ \/ next = Idle
         \/ j.ok /\ j.act = "post" /\ Moved(next, j, "find") /\ next.old = j.old
         \/ j.ok /\ j.act # "post" /\ Moved(next, j, "write") /\ next.old = j.old
      /\ next \in Jobs
  <2>1. CASE ~j.ok
    BY <2>1, IdleType
  <2>2. CASE j.ok /\ j.act = "post"
    <3>1. next = [j EXCEPT !.at = "find"]
      BY <2>2
    <3> HIDE DEF next
    <3>2. Moved(next, j, "find") /\ next.old = j.old
      BY <1>2, <3>1, MovedType
    <3>3. next \in Jobs
      BY <3>2 DEF Moved
    <3>q. QED
      BY <2>2, <3>2, <3>3
  <2>3. CASE j.ok /\ j.act # "post"
    <3>1. next = [j EXCEPT !.at = "write"]
      BY <2>3
    <3> HIDE DEF next
    <3>2. Moved(next, j, "write") /\ next.old = j.old
      BY <1>2, <3>1, MovedType
    <3>3. next \in Jobs
      BY <3>2 DEF Moved
    <3>q. QED
      BY <2>3, <3>2, <3>3
  <2>q. QED
    BY <2>1, <2>2, <2>3
<1>8. job' \in [Handler -> Jobs]
  <2> HIDE DEF next
  <2>1. \A k \in Handler : job'[k] \in Jobs
    BY <1>5, <1>6, <1>7
  <2>2. job' = [k \in Handler |-> job'[k]]
    BY <1>1
  <2>q. QED
    BY <2>1, <2>2
<1>q. QED
  BY <1>1, <1>3, <1>4, <1>5, <1>6, <1>7, <1>8

\* What governance-service answers, and how the request goes on.
LEMMA AnswerType ==
    ASSUME NEW j \in Jobs, NEW answer \in Answers(j)
    PROVE  /\ answer.ok \in BOOLEAN /\ answer.more \in BOOLEAN
           /\ answer.more => j.stage < 3
<1>1. CASE Type[j.doc] \in Approvable
  <2> DEFINE bands == BandsFor(Type[j.doc], PlantOf[j.doc], j.cost)
  <2>1. answer \in ApprovalAnswers(Type[j.doc], PlantOf[j.doc], j.cost, j.stage, j.by)
    BY <1>1 DEF Answers
  <2>2. CASE answer = [ok |-> FALSE, more |-> FALSE]
    BY <2>2
  <2>3. CASE \E b \in bands : answer = [ok |-> Authorized(b, j.stage, j.by),
                                       more |-> /\ Authorized(b, j.stage, j.by)
                                                /\ HasNextStage(b, j.stage)]
    <3>1. PICK b \in bands : answer = [ok |-> Authorized(b, j.stage, j.by),
                                       more |-> /\ Authorized(b, j.stage, j.by)
                                                /\ HasNextStage(b, j.stage)]
      BY <2>3
    <3>q. QED
      BY <3>1 DEF HasNextStage, Authorized
  <2>q. QED
    BY <2>1, <2>2, <2>3 DEF ApprovalAnswers
<1>2. CASE Type[j.doc] \notin Approvable
  <2>1. answer = [ok |-> RoleOf[j.by] \in MayPost, more |-> FALSE]
    BY <1>2 DEF Answers, PostingAnswers
  <2>q. QED
    BY <2>1
<1>q. QED
  BY <1>1, <1>2

LEMMA DecideEffect ==
    ASSUME OfficeTypeOK, ChainOK, NEW h \in Handler, Decide(h)
    PROVE  /\ job[h].at = "ask"
           /\ \E answer \in Answers(job[h]) : \E q \in Jobs :
                 /\ answer.more => job[h].stage < 3
                 /\ q.at = "record" /\ q.act = job[h].act /\ q.doc = job[h].doc /\ q.by = job[h].by
                 /\ q.stage = job[h].stage /\ q.cost = job[h].cost /\ q.read = job[h].read
                 /\ q.ok = answer.ok /\ q.more = answer.more /\ q.last = LastRow
                 /\ q.old = job[h].old /\ q.behind = FALSE
                 /\ JobStep(h, q)
<1>1. PICK answer \in Answers(job[h]) :
         job' = [job EXCEPT ![h].at = "record", ![h].ok = answer.ok, ![h].more = answer.more,
                            ![h].last = LastRow, ![h].behind = FALSE]
  BY DEF Decide
<1>2. job[h] \in Jobs /\ LastRow \in Nat
  BY OfficeTypes, LenProperties DEF ChainOK, LastRow
<1>3. answer.ok \in BOOLEAN /\ answer.more \in BOOLEAN /\ (answer.more => job[h].stage < 3)
  BY <1>2, AnswerType
<1>4. PICK q : q = [job[h] EXCEPT !.at = "record", !.ok = answer.ok, !.more = answer.more,
                                  !.last = LastRow, !.behind = FALSE]
  OBVIOUS
<1> HIDE DEF LastRow
<1>5. /\ q \in Jobs /\ q.at = "record" /\ q.act = job[h].act /\ q.doc = job[h].doc
      /\ q.by = job[h].by /\ q.stage = job[h].stage /\ q.cost = job[h].cost
      /\ q.read = job[h].read /\ q.ok = answer.ok /\ q.more = answer.more
      /\ q.last = LastRow /\ q.old = job[h].old /\ q.behind = FALSE
  BY <1>2, <1>3, <1>4 DEF Jobs
<1>6. job' = [job EXCEPT ![h] = q]
  BY <1>1, <1>4, OfficeTypes
<1>7. JobStep(h, q)
  BY <1>6 DEF Decide, JobStep
<1>8. job[h].at = "ask"
  BY DEF Decide
<1>q. QED
  BY <1>3, <1>5, <1>7, <1>8

--------------------------------------------------------------------------------
(* Types of the office.                                                     *)

Sound(j, n) == j \in Jobs /\ JobOK(j) /\ j.last <= n /\ (j.more => j.stage < 3)
JobsSound(n) == job \in [Handler -> Jobs] /\ \A h \in Handler : Sound(job[h], n)

LEMMA SoundIdle ==
    ASSUME NEW n \in Nat
    PROVE  Sound(Idle, n)
BY IdleType DEF Sound, JobOK, NoRow

LEMMA SoundSame ==
    ASSUME NEW n \in Nat, NEW m \in Nat, n <= m, NEW j, Sound(j, n), NEW i \in Jobs, Same(i, j),
           i.last = j.last
    PROVE  Sound(i, m)
<1>1. JobOK(i)
  BY DEF Sound, Same, JobOK
<1>2. j.last \in Nat /\ j.last <= n
  BY DEF Sound, Jobs
<1>q. QED
  BY <1>1, <1>2 DEF Sound, Same

\* The requests stay sound, whatever the office does.
LEMMA RequestsStaySound ==
    ASSUME OfficeTypeOK, ChainOK, JobsOK, OfficeMove
    PROVE  /\ chain' \in Seq(Entries)
           /\ \A h \in Handler : Sound(job'[h], Len(chain'))
           /\ job' \in [Handler -> Jobs]
<1>1. Len(chain) \in Nat /\ JobsSound(Len(chain))
  BY LenProperties, OfficeTypes DEF ChainOK, JobsOK, JobsSound, Sound, OfficeTypeOK, LastRow
<1>2. ASSUME NEW h \in Handler, NEW q, Sound(q, Len(chain)), job' = [job EXCEPT ![h] = q],
             UNCHANGED chain
      PROVE  /\ chain' \in Seq(Entries)
             /\ \A k \in Handler : Sound(job'[k], Len(chain'))
             /\ job' \in [Handler -> Jobs]
  <2>1. job'[h] = q /\ \A k \in Handler \ {h} : job'[k] = job[k]
    BY <1>2, JobStepEffect
  <2>2. q \in Jobs
    BY <1>2 DEF Sound
  <2>3. \A k \in Handler : Sound(job'[k], Len(chain))
    BY <1>1, <1>2, <2>1 DEF JobsSound
  <2>4. job' \in [Handler -> Jobs]
    BY <1>1, <1>2, <2>2 DEF JobsSound
  <2>q. QED
    BY <1>2, <2>3, <2>4 DEF ChainOK
<1>3. CASE Begins
  <2>1. PICK h \in Handler : \E q : Starting(q) /\ JobStep(h, q)
    BY <1>3 DEF Begins
  <2>2. PICK q : Starting(q) /\ JobStep(h, q)
    BY <2>1
  <2>3. JobOK(q)
    BY <2>2 DEF Starting, JobOK
  <2>4. Sound(q, Len(chain))
    BY <1>1, <2>2, <2>3 DEF Starting, Sound, NoRow
  <2>q. QED
    BY <1>2, <2>2, <2>4 DEF JobStep
<1>4. CASE Drops
  BY <1>1, <1>2, <1>4, SoundIdle DEF Drops, JobStep
<1>5. CASE Finds
  <2>1. PICK h \in Handler : /\ job[h].at = "find"
                             /\ JobStep(h, [job[h] EXCEPT !.at = "write", !.old = FALSE])
    BY <1>5 DEF Finds
  <2>2. PICK q : q = [job[h] EXCEPT !.at = "write", !.old = FALSE]
    OBVIOUS
  <2>3. job[h] \in Jobs /\ Sound(job[h], Len(chain))
    BY <1>1 DEF JobsSound
  <2>4. Moved(q, job[h], "write")
    BY <2>2, <2>3, FoundType
  <2>5. JobOK(q)
    BY <2>1, <2>3, <2>4 DEF Moved, Sound, JobOK
  <2>6. Sound(q, Len(chain))
    BY <2>3, <2>4, <2>5 DEF Moved, Sound
  <2>7. job' = [job EXCEPT ![h] = q] /\ UNCHANGED chain
    BY <2>1, <2>2 DEF JobStep
  <2>q. QED
    BY <1>2, <2>6, <2>7
<1>6. CASE Writes
  <2>1. PICK h \in Handler, books \in BOOLEAN : \E s, g, c, e, next :
           Write(h, s, g, c, e, books, next) /\ Writable(h, s, g, c, e, books, next)
    BY <1>6 DEF Writes
  <2>2. PICK s, g, c, e, next :
           Write(h, s, g, c, e, books, next) /\ Writable(h, s, g, c, e, books, next)
    BY <2>1
  <2>3. /\ job'[h] = next
        /\ \A k \in Handler \ {h} : Spared(job'[k], job[k], job[h].doc, books)
        /\ job' \in [Handler -> Jobs]
    BY <2>2, WriteEffect
  <2>4. /\ next \in Jobs
        /\ \/ next = Idle
           \/ Moved(next, job[h], "publish") /\ job[h].at = "write"
    BY <2>2, WritableType
  <2>5. Sound(job[h], Len(chain))
    BY <1>1 DEF JobsSound
  <2>6. Sound(next, Len(chain))
    <3>1. CASE next = Idle
      BY <1>1, <3>1, SoundIdle
    <3>2. CASE Moved(next, job[h], "publish") /\ job[h].at = "write" /\ next # Idle
      <4>1. \/ job[h].act = "approve" /\ Type[job[h].doc] = "MAINTENANCE_COMPLETION"
            \/ job[h].act = "post"
        BY <2>2, <3>2 DEF Writable
      <4>2. JobOK(next)
        BY <2>5, <3>2, <4>1 DEF Moved, Sound, JobOK
      <4>q. QED
        BY <2>4, <2>5, <3>2, <4>2 DEF Moved, Sound
    <3>q. QED
      BY <2>4, <3>1, <3>2
  <2>7. \A k \in Handler \ {h} : Sound(job'[k], Len(chain))
    BY <1>1, <2>3, SoundSame DEF Spared, JobsSound
  <2>8. chain' = chain
    BY <2>2 DEF Write
  <2>q. QED
    BY <2>3, <2>6, <2>7, <2>8 DEF ChainOK
<1>7. CASE Publishes
  BY <1>1, <1>2, <1>7, SoundIdle DEF Publishes
<1>8. CASE LedgerPosts
  <2>1. PICK p : /\ job' = [h \in Handler |-> Outdated(job[h], p, TRUE)] /\ UNCHANGED chain
    BY <1>8 DEF LedgerPosts
  <2>2. \A k \in Handler : /\ job'[k] = Outdated(job[k], p, TRUE) /\ job[k] \in Jobs
                           /\ Sound(job[k], Len(chain))
    BY <1>1, <2>1 DEF JobsSound
  <2>3. ASSUME NEW k \in Handler
        PROVE  job'[k] \in Jobs /\ Same(job'[k], job[k]) /\ job'[k].last = job[k].last
    <3>1. job'[k] = Outdated(job[k], p, TRUE) /\ job[k] \in Jobs
      BY <2>2
    <3>2. Spared(job'[k], job[k], p, TRUE)
      BY <3>1, OutdatedSpared
    <3>q. QED
      BY <3>2 DEF Spared
  <2>4. ASSUME NEW k \in Handler
        PROVE  Sound(job'[k], Len(chain))
    <3>1. Sound(job[k], Len(chain))
      BY <2>2
    <3>2. Len(chain) <= Len(chain)
      BY <1>1
    <3>q. QED
      BY <1>1, <2>3, <3>1, <3>2, SoundSame
  <2>q. QED
    BY <2>1, <2>3, <2>4 DEF ChainOK
<1>9. CASE Creates \/ Rests
  <2>1. job' = job /\ chain' = chain
    BY <1>9 DEF Creates, Create, Rests
  <2>q. QED
    BY <1>1, <2>1 DEF JobsSound, ChainOK
<1>10. ASSUME NEW h \in Handler, Decide(h)
       PROVE  /\ chain' \in Seq(Entries)
              /\ \A k \in Handler : Sound(job'[k], Len(chain'))
              /\ job' \in [Handler -> Jobs]
  <2>1. job[h].at = "ask"
    BY <1>10, DecideEffect
  <2>0. PICK answer \in Answers(job[h]) : \E q \in Jobs :
           /\ answer.more => job[h].stage < 3
           /\ q.at = "record" /\ q.act = job[h].act /\ q.doc = job[h].doc /\ q.by = job[h].by
           /\ q.stage = job[h].stage /\ q.cost = job[h].cost /\ q.read = job[h].read
           /\ q.ok = answer.ok /\ q.more = answer.more /\ q.last = LastRow
           /\ q.old = job[h].old /\ q.behind = FALSE
           /\ JobStep(h, q)
    BY <1>10, DecideEffect, Zenon
  <2>2. PICK q \in Jobs :
           /\ q.more => job[h].stage < 3
           /\ q.at = "record" /\ q.act = job[h].act /\ q.doc = job[h].doc
           /\ q.stage = job[h].stage /\ q.last = LastRow
           /\ JobStep(h, q)
    BY <2>0
  <2>3. JobOK(job[h])
    BY DEF JobsOK
  <2>4. JobOK(q)
    BY <2>1, <2>2, <2>3 DEF JobOK
  <2>5. Sound(q, Len(chain))
    BY <1>1, <2>2, <2>4 DEF Sound, LastRow
  <2>6. chain' = chain /\ job' = [job EXCEPT ![h] = q]
    BY <2>2 DEF JobStep
  <2>q. QED
    BY <1>2, <2>5, <2>6
<1>11. ASSUME NEW h \in Handler, Record(h)
       PROVE  /\ chain' \in Seq(Entries)
              /\ \A k \in Handler : Sound(job'[k], Len(chain'))
              /\ job' \in [Handler -> Jobs]
  <2>1. PICK r : r = [prev |-> job[h].last, doc |-> job[h].doc, stage |-> job[h].stage,
                      amount |-> job[h].cost, by |-> job[h].by, ok |-> job[h].ok]
    OBVIOUS
  <2>2. /\ job[h].at = "record" /\ r \in Entries /\ chain' = Append(chain, r)
        /\ job' \in [Handler -> Jobs]
        /\ \/ job'[h] = Idle
           \/ /\ job[h].ok /\ job[h].act = "post" /\ Moved(job'[h], job[h], "find")
           \/ /\ job[h].ok /\ job[h].act # "post" /\ Moved(job'[h], job[h], "write")
        /\ \A k \in Handler \ {h} : Same(job'[k], job[k]) /\ job'[k].last = job[k].last
    BY <1>11, <2>1, RecordEffect
  <2>3. chain' \in Seq(Entries) /\ Len(chain') = Len(chain) + 1
    BY <2>2, AppendProperties DEF ChainOK
  <2>4. Sound(job[h], Len(chain)) /\ Len(chain) + 1 \in Nat /\ Len(chain) <= Len(chain) + 1
    BY <1>1 DEF JobsSound
  <2>5. Sound(job'[h], Len(chain) + 1)
    <3>1. CASE job'[h] = Idle
      BY <2>4, <3>1, SoundIdle
    <3>2. ASSUME NEW at \in {"find", "write"}, Moved(job'[h], job[h], at), job[h].ok,
                 at = "find" <=> job[h].act = "post"
          PROVE  Sound(job'[h], Len(chain) + 1)
      <4>1. JobOK(job'[h])
        BY <2>2, <2>4, <3>2 DEF Moved, Sound, JobOK
      <4>2. job[h].last \in Nat
        BY <2>4 DEF Sound, Jobs
      <4>q. QED
        BY <1>1, <2>4, <3>2, <4>1, <4>2 DEF Moved, Sound
    <3>q. QED
      BY <2>2, <3>1, <3>2
  <2>6. \A k \in Handler \ {h} : Sound(job'[k], Len(chain) + 1)
    <3>1. \A k \in Handler \ {h} : Sound(job[k], Len(chain)) /\ job'[k] \in Jobs
      BY <1>1, <2>2 DEF JobsSound
    <3>q. QED
      BY <1>1, <2>2, <2>4, <3>1, SoundSame
  <2>q. QED
    BY <2>2, <2>3, <2>5, <2>6
<1>q. QED
  BY <1>3, <1>4, <1>5, <1>6, <1>7, <1>8, <1>9, <1>10, <1>11 DEF OfficeMove

\* The office's other variables, and the balances.
LEMMA SideStaysTyped ==
    ASSUME OfficeTypeOK, OfficeNext
    PROVE  SideOK' /\ balance' \in [Account -> Int]
<1>0. /\ SideOK /\ balance \in [Account -> Int] /\ category.account \in Account
      /\ \A d \in Doc : cost[d] \in Int
      /\ \A h \in Handler : job[h].cost \in Int /\ job[h].read \in [Account -> Int] /\ job[h].doc \in Doc
      /\ \A h \in Handler : \A type : Granted(h, "approve", type) \/ Granted(h, "reject", type)
                                      => Type[job[h].doc] = type
  BY DEF OfficeTypeOK, SideOK, Jobs, Granted
<1>1. CASE UNCHANGED <<category, due, requests, balance>>
  BY <1>0, <1>1 DEF SideOK
<1>2. ASSUME UNCHANGED <<category, due, balance>>, requests > 0 /\ requests' = requests - 1
      PROVE  SideOK' /\ balance' \in [Account -> Int]
  BY <1>0, <1>2 DEF SideOK
<1>3. ASSUME UNCHANGED <<category, due, requests>>, balance' \in [Account -> Int]
      PROVE  SideOK' /\ balance' \in [Account -> Int]
  BY <1>0, <1>3 DEF SideOK
<1> DEFINE Goal == SideOK' /\ balance' \in [Account -> Int]
<1>4. ASSUME NEW h, NEW act, NEW type, Review(h, act, type)
      PROVE  Goal
  BY <1>2, <1>4 DEF Review, Accept, Start
<1>5. ASSUME NEW h, NEW type, Advance(h, type)
      PROVE  Goal
  BY <1>1, <1>5 DEF Advance
<1>6. ASSUME NEW h, NEW type, Reject(h, type)
      PROVE  Goal
  BY <1>1, <1>4, <1>6 DEF Reject, Settle
<1>7. ASSUME NEW h, NEW type, NEW s, SettleOnly(h, type, s)
      PROVE  Goal
  BY <1>1, <1>4, <1>5, <1>7 DEF SettleOnly, Settle
<1>8. ASSUME NEW h, NEW type, Publish(h, type)
      PROVE  Goal
  BY <1>1, <1>8 DEF Publish
<1>9. CASE SubmitOnboarding \/ CreateManualJournalEntry \/ CalculateRun
  BY <1>1, <1>9 DEF SubmitOnboarding, CreateManualJournalEntry, CalculateRun
<1>10. CASE CreateCategory \/ DeactivateCategory
  <2>1. CASE CreateCategory
    <3>1. PICK a \in Account : category' = [state |-> "active", account |-> a]
                              /\ UNCHANGED <<due, requests, balance>>
      BY <2>1 DEF CreateCategory, SetCategory
    <3>q. QED
      BY <1>0, <3>1 DEF SideOK
  <2>2. CASE DeactivateCategory
    <3>1. category' = [category EXCEPT !.state = "inactive"] /\ UNCHANGED <<due, requests, balance>>
      BY <2>2 DEF DeactivateCategory, SetCategory
    <3>q. QED
      BY <1>0, <3>1 DEF SideOK
  <2>q. QED
    BY <1>10, <2>1, <2>2
<1>11. CASE LedgerPosts
  <2>1. PICK p \in due : /\ due' = due \ {p} /\ balance' = Plus(balance, PostingEffect[p])
                         /\ UNCHANGED <<category, requests>>
    BY <1>11 DEF LedgerPosts
  <2>2. PostingEffect[p] \in [Account -> Int]
    BY <1>0, <2>1, OfficeAssumption DEF SideOK
  <2>q. QED
    BY <1>0, <2>1, <2>2, BalanceTypes DEF SideOK
<1>12. ASSUME NEW h \in Handler,
              \/ CreateExpenseRequest(h) \/ SubmitMaintenanceRequest(h)
              \/ Approve(h) \/ Refuse(h) \/ PostRun(h) \/ CloseBooks(h)
              \/ Decide(h) \/ Record(h) \/ Abandon(h)
       PROVE  Goal
  <2> HIDE DEF Goal
  <2>1. CASE CreateExpenseRequest(h)
    BY <1>1, <2>1 DEF CreateExpenseRequest, Start, Settle, Goal
  <2>2. CASE SubmitMaintenanceRequest(h)
    BY <1>1, <2>2 DEF SubmitMaintenanceRequest, Start, Goal
  <2>3. CASE ApprovePurchaseOrder(h) \/ ApproveBatchCostReview(h)
    BY <1>7, <2>3 DEF ApprovePurchaseOrder, ApproveBatchCostReview
  <2>4. CASE ApproveOnboarding(h)
    BY <1>1, <1>4, <1>5, <2>4 DEF ApproveOnboarding, Settle, Abandon, Goal
  <2>5. CASE ApproveExpenseRequest(h)
    <3>1. CASE balance' = Plus(balance, ExpenseEffect(category.account, job[h].cost))
               /\ UNCHANGED <<category, due, requests>>
      <4>1. balance' \in [Account -> Int]
        BY <1>0, <3>1, BalanceTypes
      <4>q. QED
        BY <1>3, <3>1, <4>1 DEF Goal
    <3>q. QED
      BY <1>4, <1>5, <2>5, <3>1 DEF ApproveExpenseRequest, Settle
  <2>6. CASE ApproveJournalEntry(h) \/ RejectJournalEntry(h)
    <3>1. ASSUME \/ Granted(h, "approve", "MANUAL_JOURNAL_ENTRY")
                 \/ Granted(h, "reject", "MANUAL_JOURNAL_ENTRY")
          PROVE  Effect(LinesOf[job[h].doc]) \in [Account -> Int]
      <4>1. job[h].doc \in DocsOf("MANUAL_JOURNAL_ENTRY")
        BY <1>0, <3>1 DEF DocsOf
      <4>2. LinesOf[job[h].doc] \in Lines
        BY <4>1, OfficeAssumption
      <4>q. QED
        BY <4>2, EffectType
    <3>2. CASE /\ Granted(h, "approve", "MANUAL_JOURNAL_ENTRY") \/ Granted(h, "reject", "MANUAL_JOURNAL_ENTRY")
               /\ \/ balance' = balance
                  \/ balance' = Plus(balance, Effect(LinesOf[job[h].doc]))
                  \/ balance' = Minus(balance, Effect(LinesOf[job[h].doc]))
               /\ UNCHANGED <<category, due, requests>>
      <4>0. Effect(LinesOf[job[h].doc]) \in [Account -> Int]
        BY <3>1, <3>2
      <4>1. \A f \in [Account -> Int] : /\ Plus(balance, f) \in [Account -> Int]
                                        /\ Minus(balance, f) \in [Account -> Int]
        BY <1>0, BalanceTypes
      <4>2. balance' \in [Account -> Int]
        BY <1>0, <3>2, <4>0, <4>1, Zenon
      <4>q. QED
        BY <1>3, <3>2, <4>2 DEF Goal
    <3>3. CASE \/ Review(h, "approve", "MANUAL_JOURNAL_ENTRY") \/ Review(h, "reject", "MANUAL_JOURNAL_ENTRY")
               \/ Advance(h, "MANUAL_JOURNAL_ENTRY")
      BY <1>4, <1>5, <3>3
    <3>q. QED
      BY <2>6, <3>2, <3>3 DEF ApproveJournalEntry, RejectJournalEntry, Settle, Approving
  <2>7. CASE ApproveMaintenanceCompletion(h)
    BY <1>1, <1>4, <1>5, <1>8, <2>7 DEF ApproveMaintenanceCompletion, Settle, Goal
  <2>8. CASE Refuse(h)
    <3>1. RejectJournalEntry(h) \/ \E type : Reject(h, type)
      BY <2>8 DEF Refuse, RejectPurchaseOrder, RejectOnboarding, RejectExpenseRequest,
         RejectBatchCostReview, RejectMaintenanceCompletion
    <3>q. QED
      BY <1>6, <2>6, <3>1
  <2>9. CASE PostRun(h)
    BY <1>1, <1>2, <1>8, <2>9 DEF PostRun, Accept, Start, FindRun, Settle, Goal
  <2>10. CASE CloseBooks(h)
    <3>1. CASE balance' = Plus(balance, ClosingEffect(job[h].read)) /\ UNCHANGED <<category, due, requests>>
      <4>1. balance' \in [Account -> Int]
        BY <1>0, <3>1, BalanceTypes
      <4>q. QED
        BY <1>3, <3>1, <4>1 DEF Goal
    <3>q. QED
      BY <1>2, <2>10, <3>1 DEF CloseBooks, Accept, Start, Settle, Goal
  <2>11. CASE Decide(h) \/ Record(h) \/ Abandon(h)
    BY <1>1, <2>11 DEF Decide, Record, Abandon, Goal
  <2>q. QED
    BY <1>12, <2>1, <2>2, <2>3, <2>4, <2>5, <2>6, <2>7, <2>8, <2>9, <2>10, <2>11 DEF Approve
<1>q. QED
  BY <1>9, <1>10, <1>11, <1>12 DEF OfficeNext

\* An audit row that is appended keeps the log well formed.
LEMMA PrevStaysTyped ==
    ASSUME ChainOK, NEW r \in Entries, r.prev <= Len(chain), chain' = Append(chain, r),
           \A i \in DOMAIN chain : chain[i].prev \in 0 .. i - 1
    PROVE  \A i \in DOMAIN chain' : chain'[i].prev \in 0 .. i - 1
<1>1. Len(chain) \in Nat /\ DOMAIN chain = 1 .. Len(chain)
  BY LenProperties DEF ChainOK
<1>2. /\ Len(chain') = Len(chain) + 1 /\ chain' \in Seq(Entries)
      /\ \A i \in 1 .. Len(chain) : chain'[i] = chain[i]
      /\ chain'[Len(chain) + 1] = r
  BY AppendProperties DEF ChainOK
<1>3. DOMAIN chain' = 1 .. Len(chain) + 1
  BY <1>2, LenProperties
<1>4. r.prev \in Nat
  BY DEF Entries
<1>5. r.prev \in 0 .. (Len(chain) + 1) - 1
  BY <1>1, <1>4
<1>6. ASSUME NEW i \in 1 .. Len(chain) + 1
      PROVE  chain'[i].prev \in 0 .. i - 1
  <2>1. CASE i = Len(chain) + 1
    BY <1>2, <1>5, <2>1
  <2>2. CASE i # Len(chain) + 1
    <3>1. i \in 1 .. Len(chain)
      BY <1>1, <1>6, <2>2
    <3>q. QED
      BY <1>1, <1>2, <3>1
  <2>q. QED
    BY <2>1, <2>2
<1>q. QED
  BY <1>3, <1>6

\* The types of documents and of the log.
LEMMA DocumentsStayTyped ==
    ASSUME OfficeTypeOK, ChainOK, JobsOK, OfficeMove
    PROVE  /\ status' \in [Doc -> {"absent", "none", "OPEN", "CALCULATED"} \cup Pending \cup Final]
           /\ stage' \in [Doc -> Level] /\ cost' \in [Doc -> Int] /\ effects' \in [Doc -> Seq(Int)]
           /\ raced' \subseteq Doc /\ crossed' \in BOOLEAN
           /\ \A i \in DOMAIN chain' : chain'[i].prev \in 0 .. i - 1
<1>0. /\ status \in [Doc -> {"absent", "none", "OPEN", "CALCULATED"} \cup Pending \cup Final]
      /\ stage \in [Doc -> Level] /\ cost \in [Doc -> Int] /\ effects \in [Doc -> Seq(Int)]
      /\ raced \subseteq Doc /\ crossed \in BOOLEAN
      /\ \A i \in DOMAIN chain : chain[i].prev \in 0 .. i - 1
      /\ \A h \in Handler : job[h] \in Jobs /\ job[h].doc \in Doc /\ job[h].cost \in Int
      /\ \A h \in Handler : job[h].last <= Len(chain)
  BY OfficeTypes DEF OfficeTypeOK, LastRow
<1>1. CASE UNCHANGED <<status, stage, cost, effects, raced, crossed, chain>>
  BY <1>0, <1>1
<1>2. CASE Begins \/ Drops \/ Finds \/ Rests \/ LedgerPosts
  BY <1>1, <1>2 DEF Begins, Drops, Finds, Rests, LedgerPosts, JobStep
<1>3. CASE Writes
  <2>1. PICK h \in Handler, books \in BOOLEAN : \E s, g, c, e, next :
           Write(h, s, g, c, e, books, next) /\ Writable(h, s, g, c, e, books, next)
    BY <1>3 DEF Writes
  <2>2. PICK s, g, c, e, next :
           Write(h, s, g, c, e, books, next) /\ Writable(h, s, g, c, e, books, next)
    BY <2>1
  <2>3. /\ s = status[job[h].doc] \/ s \in Past
        /\ g \in Level /\ c \in Int /\ e \in Seq(Int)
    BY <2>2, WritableType
  <2>4. s \in {"absent", "none", "OPEN", "CALCULATED"} \cup Pending \cup Final
    BY <1>0, <2>3 DEF Past
  <2>q. QED
    BY <1>0, <2>2, <2>3, <2>4 DEF Write
<1>4. CASE Publishes
  <2>1. PICK h \in Handler :
            /\ effects' = [effects EXCEPT ![job[h].doc] = Append(@, job[h].cost)]
            /\ UNCHANGED <<status, stage, cost, raced, crossed, chain>>
    BY <1>4 DEF Publishes
  <2>2. Append(effects[job[h].doc], job[h].cost) \in Seq(Int)
    BY <1>0, AppendProperties
  <2>q. QED
    BY <1>0, <2>1, <2>2
<1>5. CASE Creates
  <2>1. PICK d \in Doc : \E s, c : Create(d, s, c)
    BY <1>5 DEF Creates
  <2>2. PICK s, c : Create(d, s, c)
    BY <2>1
  <2>3. s \in {"CALCULATED"} \cup Pending /\ c \in Int
    BY <2>2 DEF Create, Pending
  <2>q. QED
    BY <1>0, <2>2, <2>3 DEF Create
<1>6. ASSUME NEW h \in Handler, Decide(h)
      PROVE  UNCHANGED <<status, stage, cost, effects, raced, crossed, chain>>
  BY <1>6 DEF Decide
<1>7. ASSUME NEW h \in Handler, Record(h)
      PROVE  /\ UNCHANGED <<status, stage, cost, effects, raced>> /\ crossed' \in BOOLEAN
             /\ \A i \in DOMAIN chain' : chain'[i].prev \in 0 .. i - 1
  <2>1. PICK r : r = [prev |-> job[h].last, doc |-> job[h].doc, stage |-> job[h].stage,
                      amount |-> job[h].cost, by |-> job[h].by, ok |-> job[h].ok]
    OBVIOUS
  <2>2. /\ r \in Entries /\ chain' = Append(chain, r)
        /\ UNCHANGED <<status, stage, cost, effects, raced>>
    BY <1>7, <2>1, RecordEffect
  <2>3. crossed' \in BOOLEAN
    BY <1>0, <1>7 DEF Record
  <2>4. r.prev <= Len(chain)
    BY <1>0, <2>1
  <2>q. QED
    BY <1>0, <2>2, <2>3, <2>4, PrevStaysTyped
<1>q. QED
  BY <1>0, <1>1, <1>2, <1>3, <1>4, <1>5, <1>6, <1>7 DEF OfficeMove

\* The types of the office hold after every step of it.
LEMMA OfficeStaysTyped ==
    ASSUME OfficeTypeOK, ChainOK, JobsOK, OfficeNext
    PROVE  (OfficeTypeOK /\ ChainOK /\ JobsOK)'
<1>1. OfficeMove
  BY OfficeMoves
<1>2. /\ chain' \in Seq(Entries)
      /\ \A h \in Handler : Sound(job'[h], Len(chain'))
      /\ job' \in [Handler -> Jobs]
  BY <1>1, RequestsStaySound
<1>3. /\ status' \in [Doc -> {"absent", "none", "OPEN", "CALCULATED"} \cup Pending \cup Final]
      /\ stage' \in [Doc -> Level] /\ cost' \in [Doc -> Int] /\ effects' \in [Doc -> Seq(Int)]
      /\ raced' \subseteq Doc /\ crossed' \in BOOLEAN
      /\ \A i \in DOMAIN chain' : chain'[i].prev \in 0 .. i - 1
  BY <1>1, DocumentsStayTyped
<1>4. SideOK' /\ balance' \in [Account -> Int]
  BY SideStaysTyped
<1>5. \A h \in Handler : /\ JobOK(job'[h]) /\ job'[h].last <= Len(chain')
                         /\ (job'[h].at = "write" => job'[h].ok)
                         /\ (job'[h].more => job'[h].stage < 3)
  BY <1>2 DEF Sound, JobOK
<1>6. OfficeTypeOK'
  BY <1>2, <1>3, <1>4, <1>5 DEF OfficeTypeOK, SideOK, LastRow
<1>q. QED
  BY <1>2, <1>5, <1>6 DEF ChainOK, JobsOK

--------------------------------------------------------------------------------
(* Requests of the field as records.                                        *)

LEMMA FreeType ==
    /\ Free \in Tasks /\ Free.at = "idle" /\ ~Free.old /\ Free.owes = <<>>
<1>1. (CHOOSE c \in Capture : TRUE) \in Capture
  BY FieldAssumption
<1>2. <<>> \in Seq(EventNames)
  OBVIOUS
<1>q. QED
  BY <1>1, <1>2 DEF Free, Tasks

\* A request that has looked its capture up.
LEMMA LookedUpType ==
    ASSUME NEW c \in Capture, NEW q, q = [Free EXCEPT !.at = "write", !.of = c]
    PROVE  q \in Tasks /\ q.at = "write" /\ q.of = c /\ ~q.old
<1>1. Free \in Tasks /\ ~Free.old
  BY FreeType
<1> HIDE DEF Free
<1>q. QED
  BY <1>1 DEF Tasks

\* A request that goes on.
Turned(q, t, at, seen, owes) ==
    /\ q \in Tasks /\ q.at = at /\ q.of = t.of /\ q.seen = seen /\ q.owes = owes
    /\ q.old = t.old

\* One that has read its vehicle.
LEMMA ReadType ==
    ASSUME NEW t \in Tasks, NEW n \in Nat, NEW q, q = [t EXCEPT !.at = "trip", !.seen = n]
    PROVE  Turned(q, t, "trip", n, t.owes)
BY DEF Tasks, Turned

\* One that owes events.
LEMMA OwingType ==
    ASSUME NEW t \in Tasks, NEW o \in Seq(EventNames), NEW q,
           q = [t EXCEPT !.at = "publish", !.owes = o]
    PROVE  Turned(q, t, "publish", t.seen, o)
BY DEF Tasks, Turned

\* One that owes an event less.
LEMMA TailType ==
    ASSUME NEW t \in Tasks, NEW o \in Seq(EventNames), NEW q, q = [t EXCEPT !.owes = o]
    PROVE  Turned(q, t, t.at, t.seen, o)
BY DEF Tasks, Turned

--------------------------------------------------------------------------------
(* The steps of the field, by what they do to rows and requests.           *)

\* Only a trip goes through "trip", only what has events through "publish".
TaskKinds ==
    \A f \in Field : /\ task[f].at = "trip" => Kind[task[f].of] = "trip_log"
                     /\ task[f].at = "publish" =>
                           Kind[task[f].of] \in {"production_batch", "fuel_record"}

\* What the ledger is owed of a capture whose row says r.
OwedIf(c, r) ==
    CASE Kind[c] = "production_batch" /\ r = "ACKED" -> LedgerEvents(c)
      [] Kind[c] = "fuel_record" /\ r = "ACKED" -> <<"fuel_recorded">>
      [] OTHER -> <<>>

LEMMA OwedIsOwedIf == \A c : Owed(c) = OwedIf(c, row[c])
BY DEF Owed, OwedIf

LEMMA OwedType ==
    ASSUME NEW c, NEW r
    PROVE  OwedIf(c, r) \in Seq(EventNames)
<1>1. VarianceEvent(c) = <<"unfavorable">> \/ VarianceEvent(c) = <<"favorable">> \/ VarianceEvent(c) = <<>>
  BY DEF VarianceEvent
<1>2. /\ <<"unfavorable">> \in Seq(EventNames) /\ <<"favorable">> \in Seq(EventNames)
      /\ <<>> \in Seq(EventNames) /\ <<"consumption", "output">> \in Seq(EventNames)
      /\ <<"fuel_recorded">> \in Seq(EventNames)
  BY DEF EventNames
<1>3. VarianceEvent(c) \in Seq(EventNames)
  BY <1>1, <1>2
<1>4. LedgerEvents(c) \in Seq(EventNames)
  BY <1>2, <1>3, ConcatProperties DEF LedgerEvents
<1>q. QED
  BY <1>2, <1>4 DEF OwedIf

\* Rows and requests alone change.
NoOther == UNCHANGED <<events, mileage, cancelled, customer, opportunities, lost, overrun>>

\* A capture is looked up, and answered or taken on.
Looks(f, c) ==
    /\ row[c] # "absent" /\ task[f].at = "idle" /\ pushes > 0 /\ pushes' = pushes - 1
    /\ \/ /\ Stored(c) /\ UNCHANGED task
          /\ answers' = [answers EXCEPT ![c] = @ \cup {[status |-> row[c], row |-> c]}]
       \/ /\ ~Stored(c) /\ UNCHANGED answers
          /\ \E q : q = [Free EXCEPT !.at = "write", !.of = c] /\ task' = [task EXCEPT ![f] = q]
    /\ NoOther /\ UNCHANGED <<row, officeVars>>

\* Its row is stored with the answer r.
Puts(f, r) ==
    LET c == task[f].of
        owes == OwedIf(c, r)
    IN  /\ task[f].at = "write" /\ row[c] = "none" /\ row' = [row EXCEPT ![c] = r]
        /\ r \in {"ACKED", "NEEDS_REVIEW"}
        /\ Kind[c] \in {"production_batch", "fuel_record", "attendance_log", "activity"}
        /\ Kind[c] = "attendance_log" => Claiming(c) = {}
        /\ \/ /\ owes = <<>> /\ task' = [task EXCEPT ![f] = Free]
              /\ answers' = [answers EXCEPT ![c] = @ \cup {[status |-> r, row |-> c]}]
           \/ /\ owes # <<>> /\ UNCHANGED answers
              /\ Kind[c] \in {"production_batch", "fuel_record"}
              /\ \E q : /\ q = [task[f] EXCEPT !.at = "publish", !.owes = owes]
                        /\ task' = [task EXCEPT ![f] = q]
        /\ \/ UNCHANGED status
           \/ Kind[c] = "production_batch" /\ status' = [status EXCEPT ![DocOf[c]] = "PENDING_APPROVAL"]
           \/ Kind[c] = "fuel_record" /\ status' = [status EXCEPT ![DocOf[c]] = "OPEN"]
        /\ NoOther
        /\ UNCHANGED <<pushes, stage, cost, effects, category, job, due, raced, crossed, requests,
                       chain, balance>>

\* A clock event is answered with another one's row.
Claims(f) ==
    LET c == task[f].of
    IN  /\ At(f, "write", "attendance_log")
        /\ \E d \in Claiming(c) :
              answers' = [answers EXCEPT ![c] = @ \cup {[status |-> row[d], row |-> d]}]
        /\ task' = [task EXCEPT ![f] = Free]
        /\ NoOther /\ UNCHANGED <<row, pushes, officeVars>>

\* Customers, opportunities and cancelled trips.
Others ==
    /\ UNCHANGED <<row, answers, events, mileage, task, pushes, lost, overrun, officeVars>>
    /\ UNCHANGED cancelled \/ \E c \in Capture : cancelled' = cancelled \cup {c}
    /\ \/ UNCHANGED <<customer, opportunities>>
       \/ \E k \in Customer, s \in {"PROSPECT", "ACTIVE", "INACTIVE"} :
             customer' = [customer EXCEPT ![k] = s] /\ UNCHANGED opportunities
       \/ \E k \in Customer : /\ customer[k] # "none" /\ UNCHANGED customer
                              /\ opportunities' = opportunities \cup {k}

FieldMove ==
    \/ Others
    \/ \E f \in Field :
          \/ \E c \in Capture : Looks(f, c)
          \/ \E r \in {"ACKED", "NEEDS_REVIEW"} : Puts(f, r)
          \/ Claims(f) \/ ReadVehicle(f) \/ CreateTripLog(f) \/ PublishNext(f) \/ Fail(f)

LEMMA OpensEffect ==
    ASSUME NEW D, NEW s, NEW opened, opened = [x \in {D} |-> s] \/ DOMAIN opened = {},
           status = [d \in Doc |-> status[d]],
           status' = [d \in Doc |-> IF d \in DOMAIN opened THEN opened[d] ELSE status[d]]
    PROVE  UNCHANGED status \/ status' = [status EXCEPT ![D] = s]
<1>1. CASE opened = [x \in {D} |-> s]
  <2>1. DOMAIN opened = {D} /\ opened[D] = s
    BY <1>1
  <2>2. status' = [d \in Doc |-> IF d = D THEN s ELSE status[d]]
    BY <2>1
  <2>3. [status EXCEPT ![D] = s] = [d \in Doc |-> IF d = D THEN s ELSE status[d]]
    OBVIOUS
  <2>q. QED
    BY <2>2, <2>3
<1>2. CASE DOMAIN opened = {}
  <2>2. status' = [d \in Doc |-> status[d]]
    BY <1>2
  <2>q. QED
    BY <2>2
<1>q. QED
  BY <1>1, <1>2

LEMMA StorePuts ==
    ASSUME FieldTypeOK, NEW f \in Field, NEW r \in {"ACKED", "NEEDS_REVIEW"}, NEW opened, NEW owes,
           task[f].at = "write", Store(f, r, opened, owes), NoFleet, NoCrm, UNCHANGED cancelled,
           owes = OwedIf(task[f].of, r),
           owes # <<>> => Kind[task[f].of] \in {"production_batch", "fuel_record"},
           Kind[task[f].of] \in {"production_batch", "fuel_record", "attendance_log", "activity"},
           Kind[task[f].of] = "attendance_log" => Claiming(task[f].of) = {},
           \/ UNCHANGED status
           \/ /\ Kind[task[f].of] = "production_batch"
              /\ status' = [status EXCEPT ![DocOf[task[f].of]] = "PENDING_APPROVAL"]
           \/ /\ Kind[task[f].of] = "fuel_record"
              /\ status' = [status EXCEPT ![DocOf[task[f].of]] = "OPEN"]
    PROVE  Puts(f, r)
<1> DEFINE c == task[f].of
<1>1. /\ row[c] = "none" /\ row' = [row EXCEPT ![c] = r]
      /\ IF owes = <<>>
         THEN Answer(c, c) /\ task' = [task EXCEPT ![f] = Free]
         ELSE /\ task' = [task EXCEPT ![f].at = "publish", ![f].owes = owes]
              /\ UNCHANGED answers
      /\ UNCHANGED <<events, pushes, lost, stage, cost, effects, category, job, due, raced,
                     crossed, requests, chain, balance>>
  BY DEF Store
<1>2. c \in Capture /\ row'[c] = r
  BY <1>1 DEF FieldTypeOK, Tasks
<1>3. CASE owes = <<>>
  <2>1. answers' = [answers EXCEPT ![c] = @ \cup {[status |-> r, row |-> c]}]
    BY <1>1, <1>2, <1>3 DEF Answer
  <2>q. QED
    BY <1>1, <1>3, <2>1 DEF Puts, NoOther, NoFleet, NoCrm
<1>4. CASE owes # <<>>
  <2>1. task' = [task EXCEPT ![f] = [task[f] EXCEPT !.at = "publish", !.owes = owes]]
    BY <1>1, <1>4 DEF FieldTypeOK
  <2>2. \E q : q = [task[f] EXCEPT !.at = "publish", !.owes = owes] /\ task' = [task EXCEPT ![f] = q]
    BY <2>1
  <2>q. QED
    BY <1>1, <1>4, <2>2 DEF Puts, NoOther, NoFleet, NoCrm
<1>q. QED
  BY <1>3, <1>4

LEMMA LookupMoves ==
    ASSUME FieldTypeOK, NEW f \in Field, NEW k, Lookup(f, k)
    PROVE  \E c \in Capture : Looks(f, c)
<1>1. PICK c \in KindOf(k) :
        /\ row[c] # "absent" /\ task[f].at = "idle" /\ pushes > 0
        /\ pushes' = pushes - 1
        /\ IF Stored(c)
           THEN UNCHANGED row /\ Answer(c, c) /\ UNCHANGED task
           ELSE /\ task' = [task EXCEPT ![f] = [Free EXCEPT !.at = "write", !.of = c]]
                /\ UNCHANGED <<row, answers>>
        /\ UNCHANGED <<events, mileage, cancelled, customer, opportunities, lost, overrun,
                       officeVars>>
  BY DEF Lookup
<1>2. c \in Capture
  BY DEF KindOf
<1>3. CASE Stored(c)
  <2>1. answers' = [answers EXCEPT ![c] = @ \cup {[status |-> row[c], row |-> c]}]
    BY <1>1, <1>3 DEF Answer
  <2>q. QED
    BY <1>1, <1>2, <1>3, <2>1 DEF Looks, NoOther
<1>4. CASE ~Stored(c)
  BY <1>1, <1>2, <1>4 DEF Looks, NoOther
<1>q. QED
  BY <1>3, <1>4

\* What a batch, a record of fuel, a clock event and an activity store.
LEMMA BatchMoves ==
    ASSUME FieldTypeOK, NEW f \in Field, CloseProductionBatch(f)
    PROVE  \E r \in {"ACKED", "NEEDS_REVIEW"} : Puts(f, r)
<1> DEFINE c == task[f].of
           approved == Fact[c].approved
           r == IF approved THEN "ACKED" ELSE "NEEDS_REVIEW"
           owes == IF approved THEN LedgerEvents(c) ELSE <<>>
           opened == Opens(DocOf[c], "PENDING_APPROVAL", CostIsReviewed(Output(c)))
<1>1. /\ task[f].at = "write" /\ Kind[c] = "production_batch"
      /\ Store(f, r, opened, owes) /\ NoFleet /\ NoCrm /\ UNCHANGED cancelled
  BY DEF CloseProductionBatch, At
<1>2. r \in {"ACKED", "NEEDS_REVIEW"}
  OBVIOUS
<1>3. owes = OwedIf(c, r)
  BY <1>1 DEF OwedIf
<1>4. UNCHANGED status \/ status' = [status EXCEPT ![DocOf[c]] = "PENDING_APPROVAL"]
  <2>1. status = [d \in Doc |-> status[d]]
    BY DEF FieldTypeOK, OfficeTypeOK
  <2>2. status' = [d \in Doc |-> IF d \in DOMAIN opened THEN opened[d] ELSE status[d]]
    BY <1>1 DEF Store
  <2>3. opened = [x \in {DocOf[c]} |-> "PENDING_APPROVAL"] \/ DOMAIN opened = {}
    <3>1. CASE CostIsReviewed(Output(c))
      <4>1. {y \in {DocOf[c]} : CostIsReviewed(Output(c))} = {DocOf[c]}
        BY <3>1
      <4>q. QED
        BY <4>1, Zenon DEF Opens
    <3>2. CASE ~CostIsReviewed(Output(c))
      BY <3>2 DEF Opens
    <3>q. QED
      BY <3>1, <3>2
  <2> HIDE DEF opened
  <2>q. QED
    BY <2>1, <2>2, <2>3, OpensEffect
<1> HIDE DEF r, owes, opened
<1>5. Puts(f, r)
  BY <1>1, <1>2, <1>3, <1>4, StorePuts
<1>q. QED
  BY <1>2, <1>5

LEMMA FuelMoves ==
    ASSUME FieldTypeOK, NEW f \in Field, CreateFuelRecord(f)
    PROVE  Puts(f, "ACKED")
<1> DEFINE c == task[f].of
           fuelled == Fact[c].trip
           owes == <<"fuel_recorded">>
           opened == Opens(DocOf[c], "OPEN", fuelled \notin cancelled /\ Deviates(c))
<1>1. /\ task[f].at = "write" /\ Kind[c] = "fuel_record"
      /\ Store(f, "ACKED", opened, owes) /\ NoFleet /\ NoCrm /\ UNCHANGED cancelled
  BY DEF CreateFuelRecord, At
<1>2. owes = OwedIf(c, "ACKED")
  BY <1>1 DEF OwedIf
<1>3. UNCHANGED status \/ status' = [status EXCEPT ![DocOf[c]] = "OPEN"]
  <2>1. status = [d \in Doc |-> status[d]]
    BY DEF FieldTypeOK, OfficeTypeOK
  <2>2. status' = [d \in Doc |-> IF d \in DOMAIN opened THEN opened[d] ELSE status[d]]
    BY <1>1 DEF Store
  <2>3. opened = [x \in {DocOf[c]} |-> "OPEN"] \/ DOMAIN opened = {}
    <3>1. CASE fuelled \notin cancelled /\ Deviates(c)
      <4>1. {y \in {DocOf[c]} : fuelled \notin cancelled /\ Deviates(c)} = {DocOf[c]}
        BY <3>1
      <4>q. QED
        BY <4>1, Zenon DEF Opens
    <3>2. CASE ~(fuelled \notin cancelled /\ Deviates(c))
      BY <3>2 DEF Opens
    <3>q. QED
      BY <3>1, <3>2
  <2> HIDE DEF opened
  <2>q. QED
    BY <2>1, <2>2, <2>3, OpensEffect
<1> HIDE DEF owes, opened
<1>q. QED
  BY <1>1, <1>2, <1>3, StorePuts

LEMMA PlainStorePuts ==
    ASSUME FieldTypeOK, NEW f \in Field, task[f].at = "write",
           Kind[task[f].of] \in {"attendance_log", "activity"},
           Kind[task[f].of] = "attendance_log" => Claiming(task[f].of) = {},
           Store(f, "ACKED", <<>>, <<>>), NoFleet, NoCrm, UNCHANGED cancelled
    PROVE  Puts(f, "ACKED")
<1>1. status = [d \in Doc |-> status[d]]
  BY DEF FieldTypeOK, OfficeTypeOK
<1>2. DOMAIN <<>> = {}
  OBVIOUS
<1>3. UNCHANGED status
  BY <1>1, <1>2 DEF Store
<1>4. <<>> = OwedIf(task[f].of, "ACKED")
  BY DEF OwedIf
<1>5. PICK opened, owes : opened = <<>> /\ owes = <<>>
  OBVIOUS
<1>6. Store(f, "ACKED", opened, owes)
  BY <1>5
<1>q. QED
  BY <1>3, <1>4, <1>5, <1>6, StorePuts

LEMMA AttendanceMoves ==
    ASSUME FieldTypeOK, NEW f \in Field, RecordAttendance(f)
    PROVE  Puts(f, "ACKED") \/ Claims(f)
<1>1. CASE Claiming(task[f].of) = {} /\ Store(f, "ACKED", <<>>, <<>>)
  BY <1>1, PlainStorePuts DEF RecordAttendance, At
<1>2. CASE /\ UNCHANGED row
           /\ \E d \in Claiming(task[f].of) : Answer(task[f].of, d)
           /\ task' = [task EXCEPT ![f] = Free]
           /\ UNCHANGED <<events, pushes, lost, officeVars>>
  <2>1. \E d \in Claiming(task[f].of) :
           answers' = [answers EXCEPT ![task[f].of] = @ \cup {[status |-> row[d], row |-> d]}]
    BY <1>2 DEF Answer
  <2>q. QED
    BY <1>2, <2>1 DEF RecordAttendance, Claims, NoOther, NoFleet, NoCrm
<1>q. QED
  BY <1>1, <1>2 DEF RecordAttendance

LEMMA ActivityMoves ==
    ASSUME FieldTypeOK, NEW f \in Field, CreateActivity(f)
    PROVE  Puts(f, "ACKED")
BY PlainStorePuts DEF CreateActivity, At

LEMMA OtherMoves ==
    ASSUME FieldTypeOK, CancelTrip \/ CreateCustomer \/ UpdateStatus \/ CreateOpportunity
    PROVE  Others
<1>1. AwaitedCustomers \subseteq Customer
  BY FieldAssumption DEF AwaitedCustomers, KindOf
<1>2. CASE CancelTrip
  BY <1>2 DEF CancelTrip, Others, KindOf
<1>3. CASE CreateCustomer
  BY <1>1, <1>3 DEF CreateCustomer, NoCapture, Others
<1>4. CASE UpdateStatus
  BY <1>1, <1>4 DEF UpdateStatus, NoCapture, Others
<1>5. CASE CreateOpportunity
  BY <1>1, <1>5 DEF CreateOpportunity, NoCapture, Others
<1>q. QED
  BY <1>2, <1>3, <1>4, <1>5

\* Every step is one of the office or one of these.
LEMMA FieldMoves ==
    ASSUME FieldTypeOK, Next
    PROVE  (OfficeNext /\ UNCHANGED fieldVars) \/ FieldMove
<1>1. CASE CancelTrip \/ CreateCustomer \/ UpdateStatus \/ CreateOpportunity
  BY <1>1, OtherMoves DEF FieldMove
<1>2. ASSUME NEW f \in Field,
             ManufacturingPush(f) \/ FleetPush(f) \/ HrPush(f) \/ CrmPush(f)
      PROVE  FieldMove
  BY <1>2, LookupMoves DEF FieldMove, ManufacturingPush, FleetPush, HrPush, CrmPush
<1>3. ASSUME NEW f \in Field,
             \/ CloseProductionBatch(f) \/ CreateFuelRecord(f)
             \/ RecordAttendance(f) \/ CreateActivity(f)
      PROVE  FieldMove
  BY <1>3, BatchMoves, FuelMoves, AttendanceMoves, ActivityMoves DEF FieldMove
<1>4. ASSUME NEW f \in Field, ReadVehicle(f) \/ CreateTripLog(f) \/ PublishNext(f) \/ Fail(f)
      PROVE  FieldMove
  BY <1>4 DEF FieldMove
<1>q. QED
  BY <1>1, <1>2, <1>3, <1>4 DEF Next

--------------------------------------------------------------------------------
(* The types of the field.                                                  *)

\* What a step of the field leaves to the office.
KeepsOffice ==
    /\ status' \in [Doc -> {"absent", "none", "OPEN", "CALCULATED"} \cup Pending \cup Final]
    /\ UNCHANGED <<stage, cost, effects, category, job, due, raced, crossed, requests, chain,
                   balance>>

LEMMA OfficeIsKept ==
    ASSUME OfficeTypeOK, KeepsOffice
    PROVE  OfficeTypeOK'
BY DEF OfficeTypeOK, KeepsOffice, LastRow

\* What the field may do to a request, an answer and a row.
TaskOK(t) == /\ t \in Tasks
             /\ t.at = "trip" => Kind[t.of] = "trip_log"
             /\ t.at = "publish" => /\ Stored(t.of) /\ t.owes # <<>>
                                    /\ Kind[t.of] \in {"production_batch", "fuel_record"}

TasksOK == task \in [Field -> Tasks] /\ \A f \in Field : TaskOK(task[f])

Outcomes == {"ACKED", "NEEDS_REVIEW"}

LEMMA FieldTypes ==
    ASSUME FieldTypeOK, TaskKinds
    PROVE  /\ TasksOK /\ \A f \in Field : task[f] \in Tasks /\ task[f].of \in Capture
           /\ \A c \in Capture : Stored(c) => row[c] \in Outcomes
           /\ status \in [Doc -> {"absent", "none", "OPEN", "CALCULATED"} \cup Pending \cup Final]
           /\ \A c \in Capture : answers[c] \in SUBSET [status : Outcomes, row : Capture]
<1>1. \A t \in Tasks : t.of \in Capture
  BY DEF Tasks
<1>q. QED
  BY <1>1 DEF FieldTypeOK, OfficeTypeOK, TaskKinds, TasksOK, TaskOK, Stored, Outcomes

\* Requests stay typed where one of them moves and stored rows stay.
LEMMA TaskStep ==
    ASSUME TasksOK, NEW f \in Field, NEW q, TaskOK(q), task' = [task EXCEPT ![f] = q],
           \A c \in Capture : Stored(c) => Stored(c)'
    PROVE  TasksOK'
<1>1. task' \in [Field -> Tasks]
  BY DEF TasksOK, TaskOK
<1>2. ASSUME NEW g \in Field
      PROVE  TaskOK(task[g])'
  <2>1. task'[g] = task[g] \/ task'[g] = q
    BY DEF TasksOK
  <2>2. PICK t : t = task'[g] /\ TaskOK(t)
    BY <2>1 DEF TasksOK
  <2>3. t.of \in Capture
    BY <2>2 DEF TaskOK, Tasks
  <2>q. QED
    BY <2>2, <2>3 DEF TaskOK
<1>q. QED
  BY <1>1, <1>2 DEF TasksOK

\* The rest of FieldTypeOK.
CaptureOK ==
    /\ row \in [Capture -> {"absent", "none"} \cup Outcomes]
    /\ answers \in [Capture -> SUBSET [status : Outcomes, row : Capture]]
    /\ events \in [Capture -> Seq(EventNames)]
    /\ mileage \in [Vehicle -> Nat] /\ cancelled \cup lost \subseteq Capture
    /\ customer \in [Customer -> {"none", "PROSPECT", "ACTIVE", "INACTIVE"}]
    /\ opportunities \subseteq {k \in Customer : customer[k] # "none"}
    /\ pushes \in Nat /\ overrun \subseteq Vehicle

LEMMA FieldTypeParts == FieldTypeOK /\ TaskKinds <=> OfficeTypeOK /\ CaptureOK /\ TasksOK
<1>1. {"absent", "none"} \cup Outcomes = {"absent", "none", "ACKED", "NEEDS_REVIEW"}
  BY DEF Outcomes
<1>2. OfficeTypeOK /\ CaptureOK /\ TasksOK => FieldTypeOK /\ TaskKinds
  BY <1>1 DEF FieldTypeOK, CaptureOK, TasksOK, TaskOK, TaskKinds, Outcomes
<1>3. FieldTypeOK /\ TaskKinds => OfficeTypeOK /\ CaptureOK /\ TasksOK
  BY <1>1, FieldTypes DEF FieldTypeOK, CaptureOK, Outcomes
<1>q. QED
  BY <1>2, <1>3

\* The document a capture may bring about.
LEMMA DocOfType ==
    ASSUME NEW c \in Capture, Kind[c] \in {"production_batch", "trip_log", "fuel_record"}
    PROVE  c \in DOMAIN DocOf /\ DocOf[c] \in Doc
BY FieldAssumption DEF KindOf

\* Everything of the office keeps its type as the field moves.
FieldStays == KeepsOffice /\ CaptureOK' /\ TasksOK'

LEMMA OthersStayTyped ==
    ASSUME OfficeTypeOK, CaptureOK, TasksOK, Others
    PROVE  FieldStays
<1>1. KeepsOffice
  BY DEF Others, OfficeTypeOK, KeepsOffice, officeVars
<1>2. TasksOK'
  BY DEF Others, TasksOK, TaskOK, Stored
<1>3. /\ row' = row /\ answers' = answers /\ events' = events /\ mileage' = mileage
      /\ lost' = lost /\ pushes' = pushes /\ overrun' = overrun
  BY DEF Others
<1>4. cancelled' \cup lost' \subseteq Capture
  BY DEF Others, CaptureOK
<1>5. /\ customer' \in [Customer -> {"none", "PROSPECT", "ACTIVE", "INACTIVE"}]
      /\ opportunities' \subseteq {k \in Customer : customer'[k] # "none"}
  <2>1. CASE UNCHANGED <<customer, opportunities>>
    BY <2>1 DEF CaptureOK
  <2>2. ASSUME NEW k \in Customer, NEW s \in {"PROSPECT", "ACTIVE", "INACTIVE"},
               customer' = [customer EXCEPT ![k] = s], UNCHANGED opportunities
        PROVE  /\ customer' \in [Customer -> {"none", "PROSPECT", "ACTIVE", "INACTIVE"}]
               /\ opportunities' \subseteq {l \in Customer : customer'[l] # "none"}
    BY <2>2 DEF CaptureOK
  <2>3. ASSUME NEW k \in Customer, customer[k] # "none", UNCHANGED customer,
               opportunities' = opportunities \cup {k}
        PROVE  /\ customer' \in [Customer -> {"none", "PROSPECT", "ACTIVE", "INACTIVE"}]
               /\ opportunities' \subseteq {l \in Customer : customer'[l] # "none"}
    BY <2>3 DEF CaptureOK
  <2>q. QED
    BY <2>1, <2>2, <2>3 DEF Others
<1>6. CaptureOK'
  BY <1>3, <1>4, <1>5 DEF CaptureOK
<1>q. QED
  BY <1>1, <1>2, <1>6 DEF FieldStays

LEMMA LooksStayTyped ==
    ASSUME OfficeTypeOK, CaptureOK, TasksOK, NEW f \in Field, NEW c \in Capture, Looks(f, c)
    PROVE  FieldStays
<1>1. KeepsOffice
  BY DEF Looks, OfficeTypeOK, KeepsOffice, officeVars
<1>2. row' = row /\ pushes' \in Nat
  BY DEF Looks, CaptureOK
<1>3. TasksOK'
  <2>1. CASE UNCHANGED task
    BY <1>2, <2>1 DEF TasksOK, TaskOK, Stored
  <2>2. ASSUME NEW q, q = [Free EXCEPT !.at = "write", !.of = c], task' = [task EXCEPT ![f] = q]
        PROVE  TasksOK'
    <3>1. TaskOK(q)
      BY <2>2, LookedUpType DEF TaskOK
    <3>2. \A d \in Capture : Stored(d) => Stored(d)'
      BY <1>2 DEF Stored
    <3>q. QED
      BY <2>2, <3>1, <3>2, TaskStep
  <2>q. QED
    BY <2>1, <2>2 DEF Looks
<1>4. answers' \in [Capture -> SUBSET [status : Outcomes, row : Capture]]
  <2>1. CASE UNCHANGED answers
    BY <2>1 DEF CaptureOK
  <2>2. CASE /\ Stored(c)
             /\ answers' = [answers EXCEPT ![c] = @ \cup {[status |-> row[c], row |-> c]}]
    <3>1. row[c] \in Outcomes
      BY <2>2 DEF Stored, Outcomes
    <3>2. answers[c] \cup {[status |-> row[c], row |-> c]}
             \in SUBSET [status : Outcomes, row : Capture]
      BY <3>1 DEF CaptureOK
    <3>q. QED
      BY <2>2, <3>2 DEF CaptureOK
  <2>q. QED
    BY <2>1, <2>2 DEF Looks
<1>5. CaptureOK'
  BY <1>2, <1>4 DEF CaptureOK, Looks, NoOther
<1>q. QED
  BY <1>1, <1>3, <1>5 DEF FieldStays

LEMMA PutsStayTyped ==
    ASSUME OfficeTypeOK, CaptureOK, TasksOK, NEW f \in Field, NEW r \in Outcomes, Puts(f, r)
    PROVE  FieldStays
<1>0. PICK c : c = task[f].of
  OBVIOUS
<1>1. task[f] \in Tasks /\ c \in Capture /\ TaskOK(task[f])
  BY <1>0 DEF TasksOK, TaskOK, Tasks
<1>2. status' \in [Doc -> {"absent", "none", "OPEN", "CALCULATED"} \cup Pending \cup Final]
  <2>1. status \in [Doc -> {"absent", "none", "OPEN", "CALCULATED"} \cup Pending \cup Final]
    BY DEF OfficeTypeOK
  <2>2. {"PENDING_APPROVAL", "OPEN"} \subseteq {"absent", "none", "OPEN", "CALCULATED"} \cup Pending \cup Final
    BY DEF Pending
  <2>3. PICK D, s : /\ s \in {"PENDING_APPROVAL", "OPEN"}
                    /\ UNCHANGED status \/ status' = [status EXCEPT ![D] = s]
    BY DEF Puts
  <2>q. QED
    BY <2>1, <2>2, <2>3
<1>3. KeepsOffice
  BY <1>2 DEF Puts, KeepsOffice
<1>4. row' = [row EXCEPT ![c] = r] /\ row'[c] = r /\ Stored(c)'
  <2>1. row' = [row EXCEPT ![c] = r]
    BY <1>0 DEF Puts
  <2>2. row'[c] = r
    BY <1>1, <2>1 DEF CaptureOK
  <2>q. QED
    BY <2>1, <2>2 DEF Stored, Outcomes
<1>5. \A d \in Capture : Stored(d) => Stored(d)'
  BY <1>4 DEF CaptureOK, Stored, Outcomes
<1>6. TasksOK'
  <2>1. CASE task' = [task EXCEPT ![f] = Free]
    <3>1. TaskOK(Free)
      BY FreeType DEF TaskOK
    <3>q. QED
      BY <1>5, <2>1, <3>1, TaskStep
  <2>2. ASSUME OwedIf(c, r) # <<>>, Kind[c] \in {"production_batch", "fuel_record"},
               NEW q, q = [task[f] EXCEPT !.at = "publish", !.owes = OwedIf(c, r)],
               task' = [task EXCEPT ![f] = q]
        PROVE  TasksOK'
    <3>1. OwedIf(c, r) \in Seq(EventNames)
      BY OwedType
    <3>5. Turned(q, task[f], "publish", task[f].seen, OwedIf(c, r))
      BY <1>1, <2>2, <3>1, OwingType
    <3>2. q \in Tasks /\ q.at = "publish" /\ q.of = c /\ q.owes # <<>>
      BY <1>0, <2>2, <3>5, Zenon DEF Turned
    <3>3. task' \in [Field -> Tasks]
      BY <2>2, <3>2 DEF TasksOK
    <3>4. ASSUME NEW g \in Field
          PROVE  TaskOK(task[g])'
      <4>1. CASE g = f
        <5>1. task'[g] = q
          BY <2>2, <4>1 DEF TasksOK
        <5>q. QED
          BY <1>4, <2>2, <3>2, <5>1 DEF TaskOK
      <4>2. CASE g # f
        <5>1. task'[g] = task[g] /\ TaskOK(task[g]) /\ task[g].of \in Capture
          BY <2>2, <4>2 DEF TasksOK, TaskOK, Tasks
        <5>q. QED
          BY <1>5, <5>1 DEF TaskOK
      <4>q. QED
        BY <4>1, <4>2
    <3>q. QED
      BY <3>3, <3>4 DEF TasksOK
  <2>q. QED
    BY <1>0, <2>1, <2>2 DEF Puts
<1>7. answers' \in [Capture -> SUBSET [status : Outcomes, row : Capture]]
  <2>1. PICK A : A = answers[c] \cup {[status |-> r, row |-> c]}
    OBVIOUS
  <2>2. A \in SUBSET [status : Outcomes, row : Capture]
    BY <1>1, <2>1 DEF CaptureOK
  <2>3. UNCHANGED answers \/ answers' = [answers EXCEPT ![c] = A]
    BY <1>0, <2>1 DEF Puts
  <2>q. QED
    BY <2>2, <2>3 DEF CaptureOK
<1>8. CaptureOK'
  BY <1>1, <1>4, <1>7 DEF CaptureOK, Puts, NoOther
<1>q. QED
  BY <1>3, <1>6, <1>8 DEF FieldStays

LEMMA ClaimsStayTyped ==
    ASSUME OfficeTypeOK, CaptureOK, TasksOK, NEW f \in Field, Claims(f)
    PROVE  FieldStays
<1> DEFINE c == task[f].of
<1>1. c \in Capture
  BY DEF TasksOK, TaskOK, Tasks
<1>2. KeepsOffice
  BY DEF Claims, OfficeTypeOK, KeepsOffice, officeVars
<1>3. PICK d \in Claiming(c) :
         answers' = [answers EXCEPT ![c] = @ \cup {[status |-> row[d], row |-> d]}]
  BY DEF Claims
<1>4. d \in Capture /\ row[d] \in Outcomes
  BY DEF Claiming, KindOf, Stored, Outcomes
<1>5. answers[c] \cup {[status |-> row[d], row |-> d]} \in SUBSET [status : Outcomes, row : Capture]
  BY <1>1, <1>4 DEF CaptureOK
<1>6. CaptureOK'
  BY <1>3, <1>5 DEF CaptureOK, Claims, NoOther
<1>7. TasksOK'
  <2>1. TaskOK(Free)
    BY FreeType DEF TaskOK
  <2>2. \A x \in Capture : Stored(x) => Stored(x)'
    BY DEF Claims, Stored
  <2>3. task' = [task EXCEPT ![f] = Free]
    BY DEF Claims
  <2>q. QED
    BY <2>1, <2>2, <2>3, TaskStep
<1>q. QED
  BY <1>2, <1>6, <1>7 DEF FieldStays

LEMMA ReadsStayTyped ==
    ASSUME OfficeTypeOK, CaptureOK, TasksOK, NEW f \in Field, ReadVehicle(f)
    PROVE  FieldStays
<1>0. PICK t, n : t = task[f] /\ n = mileage[Fact[t.of].vehicle]
  OBVIOUS
<1>1. t \in Tasks /\ t.of \in Capture /\ Kind[t.of] = "trip_log"
  BY <1>0 DEF ReadVehicle, At, TasksOK, TaskOK, Tasks
<1>2. n \in Nat
  BY <1>0, <1>1, FieldAssumption DEF CaptureOK, KindOf
<1>3. KeepsOffice
  BY DEF ReadVehicle, OfficeTypeOK, KeepsOffice, officeVars
<1>4. CaptureOK'
  BY DEF CaptureOK, ReadVehicle
<1>5. TasksOK'
  <2>1. PICK q : q = [t EXCEPT !.at = "trip", !.seen = n]
    OBVIOUS
  <2>2. task' = [task EXCEPT ![f] = q]
    BY <1>0, <2>1 DEF ReadVehicle, TasksOK
  <2>3. q \in Tasks /\ q.at = "trip" /\ q.of = t.of
    <3>1. Turned(q, t, "trip", n, t.owes)
      BY <1>1, <1>2, <2>1, ReadType
    <3>q. QED
      BY <3>1 DEF Turned
  <2>5. TaskOK(q)
    BY <1>1, <2>3 DEF TaskOK
  <2>4. \A x \in Capture : Stored(x) => Stored(x)'
    BY DEF ReadVehicle, Stored
  <2>q. QED
    BY <2>2, <2>4, <2>5, TaskStep
<1>q. QED
  BY <1>3, <1>4, <1>5 DEF FieldStays

LEMMA PublishStaysTyped ==
    ASSUME OfficeTypeOK, CaptureOK, TasksOK, NEW f \in Field, PublishNext(f)
    PROVE  FieldStays
<1>0. PICK t, c : t = task[f] /\ c = t.of
  OBVIOUS
<1>1. /\ t \in Tasks /\ c \in Capture /\ TaskOK(t) /\ t.at = "publish" /\ Stored(c)
      /\ t.owes \in Seq(EventNames) /\ t.owes # <<>>
  BY <1>0 DEF PublishNext, TasksOK, TaskOK, Tasks
<1>2. Head(t.owes) \in EventNames /\ Tail(t.owes) \in Seq(EventNames)
  BY <1>1, HeadTailProperties
<1>3. KeepsOffice /\ row' = row
  BY DEF PublishNext, OfficeTypeOK, KeepsOffice, officeVars
<1>4. events' \in [Capture -> Seq(EventNames)]
  <2>1. events[c] \in Seq(EventNames)
    BY <1>1 DEF CaptureOK
  <2>2. Append(events[c], Head(t.owes)) \in Seq(EventNames)
    BY <1>2, <2>1, AppendProperties
  <2>q. QED
    BY <1>0, <2>2 DEF CaptureOK, PublishNext
<1>5. answers' \in [Capture -> SUBSET [status : Outcomes, row : Capture]]
  <2>1. row[c] \in Outcomes
    BY <1>1 DEF Stored, Outcomes
  <2>2. answers[c] \cup {[status |-> row[c], row |-> c]} \in SUBSET [status : Outcomes, row : Capture]
    BY <1>1, <2>1 DEF CaptureOK
  <2>3. UNCHANGED answers \/ answers' = [answers EXCEPT ![c] = @ \cup {[status |-> row[c], row |-> c]}]
    BY <1>0, <1>3 DEF PublishNext, Answer
  <2>q. QED
    BY <2>2, <2>3 DEF CaptureOK
<1>6. CaptureOK'
  BY <1>3, <1>4, <1>5 DEF CaptureOK, PublishNext
<1>7. \A x \in Capture : Stored(x) => Stored(x)'
  BY <1>3 DEF Stored
<1>8. TasksOK'
  <2>1. CASE Len(t.owes) = 1
    <3>1. TaskOK(Free) /\ task' = [task EXCEPT ![f] = Free]
      BY <1>0, <2>1, FreeType DEF TaskOK, PublishNext
    <3>q. QED
      BY <1>7, <3>1, TaskStep
  <2>2. CASE Len(t.owes) # 1
    <3>1. PICK q : q = [t EXCEPT !.owes = Tail(t.owes)]
      OBVIOUS
    <3>2. task' = [task EXCEPT ![f] = q]
      BY <1>0, <2>2, <3>1 DEF PublishNext, TasksOK
    <3>3. Tail(t.owes) # <<>>
      <4>1. Len(Tail(t.owes)) = Len(t.owes) - 1 /\ Len(t.owes) \in Nat
        BY <1>1, HeadTailProperties, LenProperties
      <4>2. Len(Tail(t.owes)) # 0
        BY <2>2, <4>1
      <4>q. QED
        BY <1>2, <4>2, EmptySeq
    <3>4. q \in Tasks /\ q.at = t.at /\ q.of = t.of /\ q.owes = Tail(t.owes)
      <4>1. Turned(q, t, t.at, t.seen, Tail(t.owes))
        BY <1>1, <1>2, <3>1, TailType
      <4>q. QED
        BY <4>1 DEF Turned
    <3>5. TaskOK(q)
      BY <1>1, <3>3, <3>4 DEF TaskOK
    <3>q. QED
      BY <1>7, <3>2, <3>5, TaskStep
  <2>q. QED
    BY <2>1, <2>2
<1>q. QED
  BY <1>3, <1>6, <1>8 DEF FieldStays

LEMMA FailStaysTyped ==
    ASSUME OfficeTypeOK, CaptureOK, TasksOK, NEW f \in Field, Fail(f)
    PROVE  FieldStays
<1> DEFINE t == task[f]
           c == t.of
<1>1. t \in Tasks /\ c \in Capture /\ TaskOK(t)
  BY DEF TasksOK, TaskOK, Tasks
<1>2. KeepsOffice /\ row' = row /\ task' = [task EXCEPT ![f] = Free]
  BY DEF Fail, OfficeTypeOK, KeepsOffice, officeVars
<1>3. events' \in [Capture -> Seq(EventNames)]
  <2>1. CASE UNCHANGED events
    BY <2>1 DEF CaptureOK
  <2>2. CASE t.at = "publish" /\ events' = [events EXCEPT ![c] = Append(@, Head(t.owes))]
    <3>1. t.owes \in Seq(EventNames) /\ t.owes # <<>>
      BY <1>1, <2>2 DEF TaskOK, Tasks
    <3>2. Head(t.owes) \in EventNames
      BY <3>1, HeadTailProperties
    <3>3. events[c] \in Seq(EventNames)
      BY <1>1 DEF CaptureOK
    <3>4. Append(events[c], Head(t.owes)) \in Seq(EventNames)
      BY <3>2, <3>3, AppendProperties
    <3>q. QED
      BY <2>2, <3>4 DEF CaptureOK
  <2>q. QED
    BY <2>1, <2>2 DEF Fail
<1>4. cancelled' \cup lost' \subseteq Capture
  BY <1>1 DEF Fail, CaptureOK
<1>5. CaptureOK'
  BY <1>2, <1>3, <1>4 DEF CaptureOK, Fail
<1>6. TasksOK'
  <2>1. TaskOK(Free)
    BY FreeType DEF TaskOK
  <2>2. \A x \in Capture : Stored(x) => Stored(x)'
    BY <1>2 DEF Stored
  <2>q. QED
    BY <1>2, <2>1, <2>2, TaskStep
<1>q. QED
  BY <1>2, <1>5, <1>6 DEF FieldStays

\* A trip is stored: the others' reads of its vehicle are old now.
Alike(q, t) ==
    q \in Tasks /\ q.at = t.at /\ q.of = t.of /\ q.seen = t.seen /\ q.owes = t.owes

TripTasks(f, v) ==
    /\ task' \in [Field -> Tasks] /\ task'[f] = Free
    /\ \A g \in Field : g # f =>
          /\ Alike(task'[g], task[g])
          /\ ~task'[g].old => /\ ~task[g].old
                              /\ task[g].at = "trip" => Fact[task[g].of].vehicle # v

Trips(f, c, v, km) ==
    /\ task[f].at = "trip" /\ c = task[f].of /\ v = Fact[c].vehicle
    /\ km = AtLeast(task[f].seen, Fact[c].end)
    /\ row[c] = "none" /\ row' = [row EXCEPT ![c] = "ACKED"]
    /\ answers' = [answers EXCEPT ![c] = @ \cup {[status |-> "ACKED", row |-> c]}]
    /\ mileage' = [mileage EXCEPT ![v] = km]
    /\ \/ NeedsService(v, km) /\ status' = [status EXCEPT ![DocOf[c]] = "OPEN"]
       \/ ~NeedsService(v, km) /\ UNCHANGED status
    /\ overrun' = overrun \cup {x \in {v} : task[f].old}
    /\ TripTasks(f, v)
    /\ UNCHANGED <<events, cancelled, customer, opportunities, pushes, lost, stage, cost,
                   effects, category, job, due, raced, crossed, requests, chain, balance>>

LEMMA AlikeType ==
    ASSUME NEW t \in Tasks, NEW q, q = t \/ q = [t EXCEPT !.old = TRUE]
    PROVE  Alike(q, t) /\ (~q.old => q = t)
<1>1. CASE q = t
  BY <1>1 DEF Alike
<1>2. CASE q = [t EXCEPT !.old = TRUE]
  BY <1>2 DEF Alike, Tasks
<1>q. QED
  BY <1>1, <1>2

LEMMA TripEffect ==
    ASSUME CaptureOK, TasksOK, NEW f \in Field, CreateTripLog(f)
    PROVE  /\ \E c \in Capture, v \in Vehicle, km \in Nat : Trips(f, c, v, km)
           /\ Kind[task[f].of] = "trip_log"
<1>1. PICK c, v, km : /\ c = task[f].of /\ v = Fact[c].vehicle
                      /\ km = AtLeast(task[f].seen, Fact[c].end)
  OBVIOUS
<1>2. /\ task[f] \in Tasks /\ c \in Capture /\ task[f].seen \in Nat /\ task[f].at = "trip"
      /\ Kind[c] = "trip_log"
  BY <1>1 DEF CreateTripLog, TasksOK, TaskOK, Tasks
<1>3. c \in KindOf("trip_log") /\ v \in Vehicle /\ Fact[c].end \in Nat
  BY <1>1, <1>2, FieldAssumption DEF KindOf
<1>4. km \in Nat
  BY <1>1, <1>2, <1>3 DEF AtLeast
<1>5. answers' = [answers EXCEPT ![c] = @ \cup {[status |-> "ACKED", row |-> c]}]
  <2>1. row'[c] = "ACKED"
    BY <1>1, <1>2 DEF CreateTripLog, CaptureOK
  <2>2. Answer(c, c)
    BY <1>1 DEF CreateTripLog
  <2>q. QED
    BY <2>1, <2>2 DEF Answer
<1>6. TripTasks(f, v)
  <2>1. task' = [g \in Field |->
                   IF g = f THEN Free
                   ELSE IF task[g].at = "trip" /\ Fact[task[g].of].vehicle = v
                        THEN [task[g] EXCEPT !.old = TRUE] ELSE task[g]]
    BY <1>1 DEF CreateTripLog
  <2>2. task'[f] = Free
    BY <2>1
  <2>3. ASSUME NEW g \in Field, g # f
        PROVE  /\ Alike(task'[g], task[g])
               /\ ~task'[g].old => /\ ~task[g].old
                                   /\ task[g].at = "trip" => Fact[task[g].of].vehicle # v
    <3>1. task[g] \in Tasks
      BY DEF TasksOK
    <3>2. CASE task[g].at = "trip" /\ Fact[task[g].of].vehicle = v
      <4>1. PICK q : q = [task[g] EXCEPT !.old = TRUE]
        OBVIOUS
      <4>2. task'[g] = q
        BY <2>1, <2>3, <3>2, <4>1
      <4>3. \A t \in Tasks : \A r : r = [t EXCEPT !.old = TRUE] => r.old
        BY DEF Tasks
      <4>q. QED
        BY <3>1, <4>1, <4>2, <4>3, AlikeType
    <3>3. CASE ~(task[g].at = "trip" /\ Fact[task[g].of].vehicle = v)
      <4>1. task'[g] = task[g]
        BY <2>1, <2>3, <3>3
      <4>q. QED
        BY <3>1, <3>3, <4>1 DEF Alike
    <3>q. QED
      BY <3>2, <3>3
  <2>4. task' \in [Field -> Tasks]
    <3>1. \A g \in Field : task'[g] \in Tasks
      BY <2>2, <2>3, FreeType DEF Alike
    <3>2. task' = [g \in Field |-> task'[g]]
      BY <2>1
    <3>q. QED
      BY <3>1, <3>2
  <2>q. QED
    BY <2>2, <2>3, <2>4 DEF TripTasks
<1>7. Trips(f, c, v, km)
  BY <1>1, <1>2, <1>5, <1>6 DEF Trips, CreateTripLog
<1>q. QED
  BY <1>1, <1>2, <1>3, <1>4, <1>7

LEMMA TripStaysTyped ==
    ASSUME OfficeTypeOK, CaptureOK, TasksOK, NEW f \in Field, CreateTripLog(f)
    PROVE  FieldStays
<1>1. PICK c \in Capture, v \in Vehicle, km \in Nat : Trips(f, c, v, km)
  BY TripEffect
<1>2. KeepsOffice
  <2>1. status \in [Doc -> {"absent", "none", "OPEN", "CALCULATED"} \cup Pending \cup Final]
    BY DEF OfficeTypeOK
  <2>2. UNCHANGED status \/ status' = [status EXCEPT ![DocOf[c]] = "OPEN"]
    BY <1>1 DEF Trips
  <2>3. status' \in [Doc -> {"absent", "none", "OPEN", "CALCULATED"} \cup Pending \cup Final]
    BY <2>1, <2>2
  <2>q. QED
    BY <1>1, <2>3 DEF Trips, KeepsOffice
<1>3. row' = [row EXCEPT ![c] = "ACKED"]
  BY <1>1 DEF Trips
<1>4. \A x \in Capture : Stored(x) => Stored(x)'
  BY <1>3 DEF CaptureOK, Stored
<1>5. answers' \in [Capture -> SUBSET [status : Outcomes, row : Capture]]
  <2>1. PICK A : A = answers[c] \cup {[status |-> "ACKED", row |-> c]}
    OBVIOUS
  <2>2. A \in SUBSET [status : Outcomes, row : Capture]
    BY <2>1 DEF CaptureOK, Outcomes
  <2>3. answers' = [answers EXCEPT ![c] = A]
    BY <1>1, <2>1 DEF Trips
  <2>q. QED
    BY <2>2, <2>3 DEF CaptureOK
<1>6. CaptureOK'
  <2>1. row' \in [Capture -> {"absent", "none"} \cup Outcomes]
    BY <1>3 DEF CaptureOK, Outcomes
  <2>2. /\ mileage' = [mileage EXCEPT ![v] = km] /\ overrun' \subseteq overrun \cup {v}
        /\ UNCHANGED <<events, cancelled, customer, opportunities, pushes, lost>>
    BY <1>1 DEF Trips
  <2>3. mileage' \in [Vehicle -> Nat] /\ overrun' \subseteq Vehicle
    BY <2>2 DEF CaptureOK
  <2>q. QED
    BY <1>5, <2>1, <2>2, <2>3 DEF CaptureOK
<1>7. TasksOK'
  <2>1. task' \in [Field -> Tasks] /\ task'[f] = Free
    BY <1>1 DEF Trips, TripTasks
  <2>2. ASSUME NEW g \in Field
        PROVE  TaskOK(task[g])'
    <3>1. CASE g = f
      BY <2>1, <3>1, FreeType DEF TaskOK
    <3>2. CASE g # f
      <4>1. Alike(task'[g], task[g]) /\ TaskOK(task[g]) /\ task[g].of \in Capture
        BY <1>1, <3>2 DEF Trips, TripTasks, TasksOK, TaskOK, Tasks
      <4>q. QED
        BY <1>4, <4>1 DEF TaskOK, Alike
    <3>q. QED
      BY <3>1, <3>2
  <2>q. QED
    BY <2>1, <2>2 DEF TasksOK
<1>q. QED
  BY <1>2, <1>6, <1>7 DEF FieldStays

LEMMA FieldMovesStayTyped ==
    ASSUME OfficeTypeOK, CaptureOK, TasksOK, FieldMove
    PROVE  FieldStays
<1>1. ASSUME NEW f \in Field, NEW c \in Capture, Looks(f, c)
      PROVE  FieldStays
  BY <1>1, LooksStayTyped
<1>2. ASSUME NEW f \in Field, NEW r \in {"ACKED", "NEEDS_REVIEW"}, Puts(f, r)
      PROVE  FieldStays
  BY <1>2, PutsStayTyped DEF Outcomes
<1>3. ASSUME NEW f \in Field,
             Claims(f) \/ ReadVehicle(f) \/ CreateTripLog(f) \/ PublishNext(f) \/ Fail(f)
      PROVE  FieldStays
  BY <1>3, ClaimsStayTyped, ReadsStayTyped, TripStaysTyped, PublishStaysTyped, FailStaysTyped
<1>q. QED
  BY <1>1, <1>2, <1>3, OthersStayTyped DEF FieldMove

--------------------------------------------------------------------------------
(* Typing theorem.                                                          *)

FieldInv == FieldTypeOK /\ TaskKinds /\ ChainOK /\ JobsOK

\* A step of the system: the office moves and the field rests, or the field
\* moves and leaves the requests of the office alone.
OfficeStep == OfficeNext /\ UNCHANGED fieldVars
FieldStep == FieldMove /\ FieldStays

LEMMA StepKinds ==
    ASSUME FieldInv, [Next]_vars
    PROVE  OfficeStep \/ FieldStep \/ UNCHANGED vars
<1>1. OfficeTypeOK /\ CaptureOK /\ TasksOK
  BY FieldTypeParts DEF FieldInv
<1>2. CASE Next
  BY <1>1, <1>2, FieldMoves, FieldMovesStayTyped DEF FieldInv, OfficeStep, FieldStep
<1>q. QED
  BY <1>2

LEMMA InitTyped ==
    ASSUME Init
    PROVE  FieldInv
<1>1. PICK scene \in Scenes : OfficeInit(scene) /\ FieldInit(scene)
  BY DEF Init
<1>2. /\ scene.docs \subseteq Doc /\ scene.due \subseteq Postings
      /\ scene.requests \in Nat /\ scene.pushes \in Nat
  BY OfficeAssumption
<1>3. \A h \in Handler : job[h] = Idle
  BY <1>1 DEF OfficeInit
<1>4. Idle \in Jobs /\ Idle.at = "idle" /\ ~Idle.more /\ Idle.last = 0
  BY IdleType DEF NoRow
<1>5. OfficeTypeOK
  <2>1. \A type : FirstStatus(type) \in {"absent", "none", "OPEN", "CALCULATED"} \cup Pending \cup Final
    BY DEF FirstStatus, Pending
  <2>2. status \in [Doc -> {"absent", "none", "OPEN", "CALCULATED"} \cup Pending \cup Final]
    BY <1>1, <2>1 DEF OfficeInit
  <2>3. stage \in [Doc -> Level] /\ cost \in [Doc -> Int] /\ effects \in [Doc -> Seq(Int)]
    <3>1. Amount \in [Doc -> Int] /\ 1 \in Level
      BY OfficeAssumption DEF Level
    <3>q. QED
      BY <1>1, <3>1 DEF OfficeInit
  <2>4. category \in [state : {"none", "active", "inactive"}, account : Account]
    BY <1>1, BooksAssumption DEF OfficeInit, NoCategory
  <2>5. balance \in [Account -> Int]
    BY <1>1, BalanceTypes DEF OfficeInit
  <2>6. job \in [Handler -> Jobs]
    <3>1. job = [h \in Handler |-> Idle]
      BY <1>1 DEF OfficeInit
    <3>q. QED
      BY <1>4, <3>1
  <2>7. chain = <<>> /\ LastRow = 0 /\ DOMAIN chain = {}
    BY <1>1 DEF OfficeInit, LastRow
  <2>8. \A h \in Handler : /\ job[h].last <= LastRow /\ (job[h].at = "write" => job[h].ok)
                           /\ (job[h].more => job[h].stage < 3)
    BY <1>3, <1>4, <2>7
  <2>q. QED
    BY <1>1, <1>2, <2>2, <2>3, <2>4, <2>5, <2>6, <2>7, <2>8 DEF OfficeInit, OfficeTypeOK
<1>6. CaptureOK
  BY <1>1, <1>2 DEF FieldInit, CaptureOK
<1>7. TasksOK
  <2>1. task = [f \in Field |-> Free]
    BY <1>1 DEF FieldInit
  <2>2. TaskOK(Free)
    BY FreeType DEF TaskOK
  <2>q. QED
    BY <2>1, <2>2 DEF TasksOK, TaskOK
<1>8. ChainOK
  BY <1>1 DEF OfficeInit, ChainOK
<1>9. JobsOK
  BY <1>3, <1>4 DEF JobsOK, JobOK
<1>q. QED
  BY <1>5, <1>6, <1>7, <1>8, <1>9, FieldTypeParts DEF FieldInv

LEMMA NextTyped ==
    ASSUME FieldInv, [Next]_vars
    PROVE  FieldInv'
<1>1. OfficeTypeOK /\ CaptureOK /\ TasksOK /\ ChainOK /\ JobsOK
  BY FieldTypeParts DEF FieldInv
<1>2. CASE OfficeStep
  <2>1. (OfficeTypeOK /\ ChainOK /\ JobsOK)'
    BY <1>1, <1>2, OfficeStaysTyped DEF OfficeStep
  <2>2. CaptureOK' /\ TasksOK'
    BY <1>1, <1>2 DEF OfficeStep, fieldVars, CaptureOK, TasksOK, TaskOK, Stored
  <2>3. (FieldTypeOK /\ TaskKinds)'
    BY <2>1, <2>2, FieldTypeParts, PTL
  <2>q. QED
    BY <2>1, <2>3 DEF FieldInv
<1>3. CASE FieldStep
  <2>1. OfficeTypeOK' /\ CaptureOK' /\ TasksOK'
    BY <1>1, <1>3, OfficeIsKept DEF FieldStep, FieldStays
  <2>2. ChainOK' /\ JobsOK'
    BY <1>1, <1>3 DEF FieldStep, FieldStays, KeepsOffice, ChainOK, JobsOK
  <2>3. (FieldTypeOK /\ TaskKinds)'
    BY <2>1, FieldTypeParts, PTL
  <2>q. QED
    BY <2>2, <2>3 DEF FieldInv
<1>4. CASE UNCHANGED vars
  <2>1. /\ UNCHANGED <<status, stage, cost, effects, category, job, due, raced, crossed, requests,
                       chain, balance>>
        /\ UNCHANGED <<row, answers, events, mileage, cancelled, customer, opportunities, task,
                       pushes, lost, overrun>>
    BY <1>4 DEF vars, officeVars, fieldVars
  <2>q. QED
    BY <2>1 DEF FieldInv, FieldTypeOK, OfficeTypeOK, TaskKinds, ChainOK, JobsOK, Stored, LastRow
<1>q. QED
  BY <1>2, <1>3, <1>4, StepKinds

\* The types of the office and of the captures hold in every state, for every
\* matrix, document and capture (FieldTypeOK).
THEOREM FieldTypeCorrect == Spec => []FieldTypeOK
<1>1. Init => FieldInv
  BY InitTyped
<1>2. FieldInv /\ [Next]_vars => FieldInv'
  BY NextTyped
<1>3. FieldInv => FieldTypeOK
  BY DEF FieldInv
<1>q. QED
  BY <1>1, <1>2, <1>3, PTL DEF Spec

--------------------------------------------------------------------------------
(* What a request knows of its document, and when that is out of date.     *)

Closing(j) == j.at \in {"ask", "record", "write"} /\ j.act = "close"
Deciding(j) == j.at \in {"ask", "record", "write"} /\ j.act \in {"approve", "reject"}

\* s, g, c: the row of the document; b: the balances.
Standing(j, s, g, c, b) ==
    /\ Deciding(j) => /\ s \in Past
                      /\ ~j.old => s \in Pending /\ j.stage = g /\ j.cost = c
                      /\ Type[j.doc] # "MAINTENANCE_COMPLETION" => j.cost = c
    /\ j.at # "idle" /\ j.act = "post" => s \in {"CALCULATED", "POSTED"} /\ j.cost = c
    /\ j.at = "write" /\ j.act = "post" /\ ~j.old => s = "CALCULATED"
    /\ j.at = "publish" => s \in Past
    /\ j.at = "submit" => s \in {"OPEN"} \cup Past /\ (~j.old => s = "OPEN")
    /\ j.at = "insert" => s = "none"
    /\ Closing(j) => s = "none" /\ (~j.old => j.read = b)

Standings ==
    \A h \in Handler : Standing(job[h], status[job[h].doc], stage[job[h].doc],
                                cost[job[h].doc], balance)

\* One request inserts a document, and one closes the books.
Apart(i, j) == i.doc = j.doc => /\ ~(i.at = "insert" /\ j.at = "insert")
                                /\ ~(Closing(i) /\ j.at # "idle")
Aparts == \A h, k \in Handler : h # k => Apart(job[h], job[k])

\* A capture that is not stored has brought nothing about.
RowsAhead == \A c \in DOMAIN DocOf : ~Stored(c) => status[DocOf[c]] \in {"absent", "none"}

\* Nothing is granted or brought about before a document is asked about.
Asked == \A d \in Doc : Type[d] \in Approvable /\ (stage[d] # 1 \/ effects[d] # <<>>)
                        => status[d] \in Past

DeedInv == FieldInv /\ Standings /\ Aparts /\ RowsAhead /\ Asked

\* What is to be published of a document is new, and of the amount on its row.
Publisher(j, d) == j.at = "publish" /\ j.doc = d
PublishersOK ==
    \A d \in Doc \ raced : \A h \in Handler : Publisher(job[h], d) =>
        /\ effects[d] = <<>> /\ status[d] \in Agreed /\ job[h].cost = cost[d]
        /\ \A k \in Handler : Publisher(job[k], d) => k = h

\* The log is unforked until a row is recorded behind another.
ForksKnown == \A h \in Handler : job[h].at = "record" => (job[h].behind <=> job[h].last # LastRow)

--------------------------------------------------------------------------------
(* The audit log.                                                           *)

ForkInv == ForksKnown /\ (VerifyChain <=> ~crossed)

\* Steps that append nothing leave the requests that record as they are.
RecordsRest ==
    /\ chain' = chain /\ crossed' = crossed
    /\ \A k \in Handler : job'[k].at = "record" =>
          /\ job[k].at = "record" /\ job'[k].last = job[k].last
          /\ job'[k].behind = job[k].behind

LEMMA OneRecordRests ==
    ASSUME OfficeTypeOK, NEW h \in Handler, NEW q, q.at # "record",
           job' = [job EXCEPT ![h] = q], UNCHANGED <<chain, crossed>>
    PROVE  RecordsRest
<1>1. job'[h] = q /\ \A k \in Handler \ {h} : job'[k] = job[k]
  BY JobStepEffect
<1>q. QED
  BY <1>1 DEF RecordsRest

LEMMA RecordsMostlyRest ==
    ASSUME OfficeTypeOK, ChainOK, JobsOK, OfficeMove
    PROVE  RecordsRest \/ \E h \in Handler : Decide(h) \/ Record(h)
<1>1. CASE Begins
  <2>1. PICK h \in Handler : \E q : Starting(q) /\ JobStep(h, q)
    BY <1>1 DEF Begins
  <2>2. PICK q : Starting(q) /\ JobStep(h, q)
    BY <2>1
  <2>3. q.at # "record"
    BY <2>2 DEF Starting
  <2>q. QED
    BY <2>2, <2>3, OneRecordRests DEF JobStep
<1>2. CASE Drops \/ Publishes
  <2>1. PICK h \in Handler : job' = [job EXCEPT ![h] = Idle] /\ UNCHANGED <<chain, crossed>>
    BY <1>2 DEF Drops, Publishes, JobStep
  <2>2. Idle.at # "record"
    BY IdleType
  <2>q. QED
    BY <2>1, <2>2, OneRecordRests
<1>3. CASE Finds
  <2>1. PICK h \in Handler : JobStep(h, [job[h] EXCEPT !.at = "write", !.old = FALSE])
    BY <1>3 DEF Finds
  <2>2. PICK q : q = [job[h] EXCEPT !.at = "write", !.old = FALSE]
    OBVIOUS
  <2>3. Moved(q, job[h], "write")
    BY <2>2, FoundType, OfficeTypes
  <2>4. q.at # "record"
    BY <2>3 DEF Moved
  <2>q. QED
    BY <2>1, <2>2, <2>4, OneRecordRests DEF JobStep
<1>4. CASE Writes
  <2>1. PICK h \in Handler, books \in BOOLEAN : \E s, g, c, e, next :
           Write(h, s, g, c, e, books, next) /\ Writable(h, s, g, c, e, books, next)
    BY <1>4 DEF Writes
  <2>2. PICK s, g, c, e, next :
           Write(h, s, g, c, e, books, next) /\ Writable(h, s, g, c, e, books, next)
    BY <2>1
  <2>3. /\ job'[h] = next
        /\ \A k \in Handler \ {h} : Spared(job'[k], job[k], job[h].doc, books)
    BY <2>2, WriteEffect
  <2>4. next = Idle \/ Moved(next, job[h], "publish")
    BY <2>2, WritableType
  <2>5. next.at # "record"
    BY <2>4, IdleType DEF Moved
  <2>6. UNCHANGED <<chain, crossed>>
    BY <2>2 DEF Write
  <2>q. QED
    BY <2>3, <2>5, <2>6 DEF RecordsRest, Spared, Same
<1>5. CASE LedgerPosts
  <2>1. PICK p : job' = [h \in Handler |-> Outdated(job[h], p, TRUE)] /\ UNCHANGED <<chain, crossed>>
    BY <1>5 DEF LedgerPosts
  <2>2. ASSUME NEW k \in Handler
        PROVE  Spared(job'[k], job[k], p, TRUE)
    BY <2>1, OutdatedSpared, OfficeTypes
  <2>q. QED
    BY <2>1, <2>2 DEF RecordsRest, Spared, Same
<1>6. CASE Creates \/ Rests
  BY <1>6 DEF Creates, Create, Rests, RecordsRest
<1>q. QED
  BY <1>1, <1>2, <1>3, <1>4, <1>5, <1>6 DEF OfficeMove

\* A row that is appended behind the end of the log forks it.
LEMMA AppendVerifies ==
    ASSUME ChainOK, NEW r \in Entries, chain' = Append(chain, r)
    PROVE  VerifyChain' <=> VerifyChain /\ r.prev = LastRow
<1>1. Len(chain) \in Nat /\ DOMAIN chain = 1 .. Len(chain)
  BY LenProperties DEF ChainOK
<1>2. /\ Len(chain') = Len(chain) + 1 /\ chain' \in Seq(Entries)
      /\ \A i \in 1 .. Len(chain) : chain'[i] = chain[i]
      /\ chain'[Len(chain) + 1] = r
  BY AppendProperties DEF ChainOK
<1>3. DOMAIN chain' = 1 .. Len(chain) + 1
  BY <1>2, LenProperties
<1>4. r.prev \in Nat
  BY DEF Entries
<1>5. ASSUME VerifyChain, r.prev = LastRow, NEW i \in 1 .. Len(chain) + 1
      PROVE  chain'[i].prev = i - 1
  <2>1. CASE i = Len(chain) + 1
    BY <1>1, <1>2, <1>5, <2>1 DEF LastRow
  <2>2. CASE i # Len(chain) + 1
    <3>1. i \in 1 .. Len(chain)
      BY <1>1, <1>5, <2>2
    <3>q. QED
      BY <1>1, <1>2, <1>5, <3>1 DEF VerifyChain
  <2>q. QED
    BY <2>1, <2>2
<1>6. ASSUME VerifyChain'
      PROVE  VerifyChain /\ r.prev = LastRow
  <2>1. Len(chain) + 1 \in 1 .. Len(chain) + 1 /\ 1 .. Len(chain) \subseteq 1 .. Len(chain) + 1
    BY <1>1
  <2>2. r.prev = (Len(chain) + 1) - 1
    BY <1>2, <1>3, <1>6, <2>1 DEF VerifyChain
  <2>3. VerifyChain
    BY <1>1, <1>2, <1>3, <1>6, <2>1 DEF VerifyChain
  <2>q. QED
    BY <1>1, <2>2, <2>3 DEF LastRow
<1>q. QED
  BY <1>3, <1>5, <1>6 DEF VerifyChain

LEMMA RecordKeepsForks ==
    ASSUME OfficeTypeOK, ChainOK, JobsOK, ForkInv, NEW h \in Handler, Record(h)
    PROVE  ForkInv'
<1>1. PICK r : r = [prev |-> job[h].last, doc |-> job[h].doc, stage |-> job[h].stage,
                    amount |-> job[h].cost, by |-> job[h].by, ok |-> job[h].ok]
  OBVIOUS
<1>2. /\ job[h].at = "record" /\ r \in Entries /\ chain' = Append(chain, r)
      /\ job'[h] = Idle \/ job'[h].at \in {"find", "write"}
      /\ \A k \in Handler \ {h} :
            /\ Same(job'[k], job[k]) /\ job'[k].last = job[k].last
            /\ job[k].at = "record" => job'[k].behind
      /\ crossed' = (crossed \/ job[h].behind)
  BY <1>1, RecordEffect DEF Moved
<1>3. Len(chain) \in Nat /\ Len(chain') = Len(chain) + 1
  BY <1>2, AppendProperties, LenProperties DEF ChainOK
<1>4. \A k \in Handler : job[k].last \in Nat /\ job[k].last <= Len(chain)
  BY OfficeTypes DEF OfficeTypeOK, LastRow, Jobs
<1>5. ASSUME NEW k \in Handler, job'[k].at = "record"
      PROVE  job'[k].behind <=> job'[k].last # Len(chain')
  <2>1. k # h
    BY <1>2, <1>5, IdleType
  <2>2. job[k].at = "record" /\ job'[k].last = job[k].last /\ job'[k].behind
    BY <1>2, <1>5, <2>1 DEF Same
  <2>q. QED
    BY <1>3, <1>4, <2>2
<1>6. VerifyChain' <=> VerifyChain /\ ~job[h].behind
  <2>1. job[h].behind <=> job[h].last # LastRow
    BY <1>2 DEF ForkInv, ForksKnown
  <2>2. r.prev = job[h].last
    BY <1>1
  <2>q. QED
    BY <1>2, <2>1, <2>2, AppendVerifies
<1>q. QED
  BY <1>2, <1>5, <1>6 DEF ForkInv, ForksKnown, LastRow

LEMMA ForksStayKnown ==
    ASSUME FieldInv, ForkInv, [Next]_vars
    PROVE  ForkInv'
<1>0. OfficeTypeOK /\ ChainOK /\ JobsOK
  BY FieldTypeParts DEF FieldInv
<1>1. CASE RecordsRest
  BY <1>1 DEF RecordsRest, ForkInv, ForksKnown, VerifyChain, LastRow
<1>2. ASSUME NEW h \in Handler, Decide(h)
      PROVE  ForkInv'
  <2>1. PICK q \in Jobs : q.last = LastRow /\ q.behind = FALSE /\ JobStep(h, q)
    BY <1>0, <1>2, DecideEffect
  <2>2. job'[h] = q /\ \A k \in Handler \ {h} : job'[k] = job[k]
    BY <1>0, <2>1, JobStepEffect DEF JobStep
  <2>3. chain' = chain /\ crossed' = crossed
    BY <2>1 DEF JobStep
  <2>q. QED
    BY <2>1, <2>2, <2>3 DEF ForkInv, ForksKnown, VerifyChain, LastRow
<1>3. CASE OfficeStep
  BY <1>0, <1>1, <1>2, <1>3, OfficeMoves, RecordsMostlyRest, RecordKeepsForks DEF OfficeStep
<1>4. CASE FieldStep
  BY <1>4 DEF FieldStep, FieldStays, KeepsOffice, ForkInv, ForksKnown, VerifyChain, LastRow
<1>5. CASE UNCHANGED vars
  BY <1>5 DEF vars, officeVars, ForkInv, ForksKnown, VerifyChain, LastRow
<1>q. QED
  BY <1>3, <1>4, <1>5, StepKinds

\* The audit log verifies exactly as long as no answer was recorded behind
\* another that was recorded after its predecessor was read: a fork is never
\* mended and never comes about otherwise (recordEntry, verifyChain).
THEOREM LogForksOnlyWhenCrossed == Spec => []ChainForksOnlyWhenCrossed
<1>1. Init => FieldInv /\ ForkInv
  <2> SUFFICES ASSUME Init PROVE ForkInv
    BY InitTyped
  <2>1. PICK scene \in Scenes : OfficeInit(scene)
    BY DEF Init
  <2>2. chain = <<>> /\ crossed = FALSE /\ \A h \in Handler : job[h] = Idle
    BY <2>1 DEF OfficeInit
  <2>q. QED
    BY <2>2, IdleType DEF ForkInv, ForksKnown, VerifyChain
<1>2. FieldInv /\ ForkInv /\ [Next]_vars => FieldInv' /\ ForkInv'
  BY NextTyped, ForksStayKnown
<1>3. ForkInv => ChainForksOnlyWhenCrossed
  BY DEF ForkInv, ChainForksOnlyWhenCrossed
<1>q. QED
  BY <1>1, <1>2, <1>3, PTL DEF Spec

--------------------------------------------------------------------------------
(* How the field touches documents: it brings them about with their capture. *)

BroughtAbout(c, d) ==
    /\ c \in DOMAIN DocOf /\ d = DocOf[c] /\ row[c] = "none" /\ Stored(c)'
    /\ status'[d] \in {"OPEN", "PENDING_APPROVAL"}

Touches == /\ \A c \in Capture : Stored(c) => Stored(c)'
           /\ \A d \in Doc : status'[d] = status[d] \/ \E c \in Capture : BroughtAbout(c, d)

LEMMA TouchOne ==
    ASSUME CaptureOK, OfficeTypeOK, NEW c \in Capture, NEW r \in Outcomes,
           row[c] = "none", row' = [row EXCEPT ![c] = r],
           \/ UNCHANGED status
           \/ /\ Kind[c] \in {"production_batch", "trip_log", "fuel_record"}
              /\ \E s \in {"OPEN", "PENDING_APPROVAL"} : status' = [status EXCEPT ![DocOf[c]] = s]
    PROVE  Touches
<1>1. \A x \in Capture : Stored(x) => Stored(x)'
  BY DEF CaptureOK, Stored, Outcomes
<1>2. CASE UNCHANGED status
  BY <1>1, <1>2 DEF Touches
<1>3. ASSUME Kind[c] \in {"production_batch", "trip_log", "fuel_record"},
             NEW s \in {"OPEN", "PENDING_APPROVAL"}, status' = [status EXCEPT ![DocOf[c]] = s]
      PROVE  Touches
  <2>1. c \in DOMAIN DocOf /\ DocOf[c] \in Doc
    BY <1>3, DocOfType
  <2>2. \A d \in Doc : status'[d] = IF d = DocOf[c] THEN s ELSE status[d]
    BY <1>3 DEF OfficeTypeOK
  <2>3. Stored(c)'
    <3>1. row'[c] = r
      BY DEF CaptureOK
    <3>q. QED
      BY <3>1 DEF Stored, Outcomes
  <2>4. BroughtAbout(c, DocOf[c])
    BY <1>3, <2>1, <2>2, <2>3 DEF BroughtAbout
  <2>q. QED
    BY <1>1, <2>2, <2>4 DEF Touches
<1>q. QED
  BY <1>2, <1>3

LEMMA FieldTouches ==
    ASSUME FieldInv, FieldStep
    PROVE  Touches
<1>0. OfficeTypeOK /\ CaptureOK /\ TasksOK
  BY FieldTypeParts DEF FieldInv
<1>1. CASE UNCHANGED <<row, status>>
  BY <1>1 DEF Touches, Stored
<1>2. ASSUME NEW f \in Field, NEW r \in {"ACKED", "NEEDS_REVIEW"}, Puts(f, r)
      PROVE  Touches
  <2>1. PICK c : c = task[f].of
    OBVIOUS
  <2>2. c \in Capture
    BY <1>0, <2>1 DEF TasksOK, Tasks
  <2>3. /\ row[c] = "none" /\ row' = [row EXCEPT ![c] = r]
        /\ \/ UNCHANGED status
           \/ /\ Kind[c] \in {"production_batch", "trip_log", "fuel_record"}
              /\ \E s \in {"OPEN", "PENDING_APPROVAL"} : status' = [status EXCEPT ![DocOf[c]] = s]
    BY <1>2, <2>1 DEF Puts
  <2>q. QED
    BY <1>0, <2>2, <2>3, TouchOne DEF Outcomes
<1>3. ASSUME NEW f \in Field, CreateTripLog(f)
      PROVE  Touches
  <2>1. PICK c \in Capture, v \in Vehicle, km \in Nat : Trips(f, c, v, km)
    BY <1>0, <1>3, TripEffect
  <2>2. Kind[c] = "trip_log"
    BY <1>0, <1>3, <2>1, TripEffect DEF Trips
  <2>3. /\ row[c] = "none" /\ row' = [row EXCEPT ![c] = "ACKED"]
        /\ \/ UNCHANGED status
           \/ \E s \in {"OPEN", "PENDING_APPROVAL"} : status' = [status EXCEPT ![DocOf[c]] = s]
    BY <2>1 DEF Trips
  <2>q. QED
    BY <1>0, <2>2, <2>3, TouchOne DEF Outcomes
<1>4. CASE Others \/ \E f \in Field : \/ \E c \in Capture : Looks(f, c)
                                      \/ Claims(f) \/ ReadVehicle(f) \/ PublishNext(f) \/ Fail(f)
  BY <1>1, <1>4 DEF Others, Looks, Claims, ReadVehicle, PublishNext, Fail, officeVars
<1>q. QED
  BY <1>2, <1>3, <1>4 DEF FieldStep, FieldMove

LEMMA FieldDocuments ==
    /\ \A c \in DOMAIN DocOf : /\ c \in Capture /\ DocOf[c] \in Doc
                               /\ Type[DocOf[c]] \in {"BATCH_COST", "MAINTENANCE_COMPLETION"}
    /\ \A c, x \in DOMAIN DocOf : DocOf[c] = DocOf[x] => c = x
BY FieldAssumption DEF KindOf

\* The statuses a document has been asked about in and those before.
LEMMA StatusFacts ==
    /\ "none" \notin Past /\ "absent" \notin Past /\ "OPEN" \notin Past /\ "CALCULATED" \notin Past
    /\ "POSTED" \in Past /\ "REJECTED" \in Past /\ "PENDING_APPROVAL" \in Past
    /\ "PENDING_APPROVAL" \in Pending
    /\ \A s \in Pending : s \in Past /\ s \notin Final /\ s \notin Agreed /\ s \notin {"none", "absent", "OPEN", "CALCULATED", "POSTED"}
    /\ \A s \in Agreed : s \in Past /\ s \in Final
    /\ \A s \in Final : s \in Past
    /\ "POSTED" \in Agreed /\ "REJECTED" \notin Agreed
BY DEF Past, Pending, Agreed, Final

\* What a step of the field does to the office's invariants.
LEMMA FieldKeepsDeeds ==
    ASSUME DeedInv, FieldStep
    PROVE  (Standings /\ Aparts /\ RowsAhead /\ Asked)'
<1>1. Touches /\ UNCHANGED <<stage, cost, effects, job, raced, balance>>
  BY FieldTouches DEF DeedInv, FieldStep, FieldStays, KeepsOffice
<1>2. ASSUME NEW d \in Doc, status'[d] # status[d]
      PROVE  /\ status[d] \in {"absent", "none"} /\ status'[d] \in {"OPEN", "PENDING_APPROVAL"}
             /\ Type[d] \in {"BATCH_COST", "MAINTENANCE_COMPLETION"}
  <2>1. PICK c \in Capture : BroughtAbout(c, d)
    BY <1>1, <1>2 DEF Touches
  <2>2. ~Stored(c)
    BY <2>1 DEF BroughtAbout, Stored
  <2>q. QED
    BY <2>1, <2>2, FieldDocuments DEF BroughtAbout, DeedInv, RowsAhead
<1>3. Standings'
  <2> SUFFICES ASSUME NEW h \in Handler
               PROVE  Standing(job[h], status'[job[h].doc], stage[job[h].doc], cost[job[h].doc], balance)
    BY <1>1 DEF Standings
  <2>1. /\ Standing(job[h], status[job[h].doc], stage[job[h].doc], cost[job[h].doc], balance)
        /\ job[h].doc \in Doc /\ JobOK(job[h])
    BY OfficeTypes DEF DeedInv, Standings, FieldInv, FieldTypeOK, JobsOK
  <2>2. CASE status'[job[h].doc] = status[job[h].doc]
    BY <2>1, <2>2
  <2>3. CASE status'[job[h].doc] # status[job[h].doc]
    <3>1. /\ status[job[h].doc] \in {"absent", "none"}
          /\ Type[job[h].doc] \in {"BATCH_COST", "MAINTENANCE_COMPLETION"}
      BY <1>2, <2>1, <2>3
    <3>q. QED
      BY <2>1, <3>1, StatusFacts DEF Standing, JobOK, Deciding, Closing
  <2>q. QED
    BY <2>2, <2>3
<1>4. Aparts'
  BY <1>1 DEF DeedInv, Aparts
<1>5. RowsAhead'
  <2> SUFFICES ASSUME NEW c \in DOMAIN DocOf, ~Stored(c)'
               PROVE  status'[DocOf[c]] \in {"absent", "none"}
    BY DEF RowsAhead
  <2>1. ~Stored(c) /\ DocOf[c] \in Doc /\ c \in Capture
    BY <1>1, FieldDocuments DEF Touches
  <2>2. ASSUME NEW x \in Capture, BroughtAbout(x, DocOf[c])
        PROVE  FALSE
    BY <2>2, FieldDocuments DEF BroughtAbout
  <2>q. QED
    BY <1>1, <2>1, <2>2 DEF Touches, DeedInv, RowsAhead
<1>6. Asked'
  BY <1>1, <1>2, StatusFacts DEF DeedInv, Asked
<1>q. QED
  BY <1>3, <1>4, <1>5, <1>6

\* What a request that writes has to do with its document.
LEMMA WriteFacts ==
    ASSUME DeedInv, NEW h \in Handler, NEW books \in BOOLEAN, NEW s, NEW g, NEW c, NEW e, NEW next,
           Writable(h, s, g, c, e, books, next)
    PROVE  /\ job[h].doc \in Doc /\ job[h].at # "idle" /\ s \in Past
           /\ \/ status[job[h].doc] \in {"OPEN"} \cup Past
              \/ Type[job[h].doc] \in {"EXPENSE_REQUEST", "PAYROLL_RUN", "PERIOD_CLOSE"}
           /\ Type[job[h].doc] = "PAYROLL_RUN" =>
                 job[h].at = "write" /\ job[h].act = "post" /\ s = "POSTED" /\ c = cost[job[h].doc]
           /\ Type[job[h].doc] = "PERIOD_CLOSE" => Closing(job[h])
           /\ c # cost[job[h].doc] =>
                 job[h].at = "submit" /\ Type[job[h].doc] = "MAINTENANCE_COMPLETION"
           /\ Type[job[h].doc] = "EXPENSE_REQUEST" =>
                 job[h].at = "insert" \/ (job[h].at = "write" /\ Deciding(job[h]))
           /\ status[job[h].doc] = "none" => job[h].at = "insert" \/ Closing(job[h])
<1>1. /\ job[h].doc \in Doc /\ JobOK(job[h])
      /\ Standing(job[h], status[job[h].doc], stage[job[h].doc], cost[job[h].doc], balance)
  BY OfficeTypes DEF DeedInv, Standings, FieldInv, FieldTypeOK, JobsOK
<1>2. PICK j, d : j = job[h] /\ d = j.doc
  OBVIOUS
<1>3. /\ j.at \in {"ask", "record", "write"} =>
            \/ j.act \in {"approve", "reject"} /\ Type[d] \in Approvable
            \/ j.act = "post" /\ Type[d] = "PAYROLL_RUN"
            \/ j.act = "close" /\ Type[d] = "PERIOD_CLOSE"
      /\ j.at = "insert" => Type[d] = "EXPENSE_REQUEST"
      /\ j.at = "submit" => Type[d] = "MAINTENANCE_COMPLETION"
  <2>1. JobOK(j) /\ j.doc = d
    BY <1>1, <1>2
  <2>2. j.at \in {"ask", "record", "write"} =>
           \/ j.act \in {"approve", "reject"} /\ Type[j.doc] \in Approvable
           \/ j.act = "post" /\ Type[j.doc] = "PAYROLL_RUN"
           \/ j.act = "close" /\ Type[j.doc] = "PERIOD_CLOSE"
    BY <2>1 DEF JobOK
  <2>3. j.at = "insert" => Type[j.doc] = "EXPENSE_REQUEST"
    BY <2>1 DEF JobOK
  <2>4. j.at = "submit" => Type[j.doc] = "MAINTENANCE_COMPLETION"
    BY <2>1 DEF JobOK
  <2>q. QED
    BY <2>1, <2>2, <2>3, <2>4
<1>4. /\ "PAYROLL_RUN" \notin Approvable /\ "PERIOD_CLOSE" \notin Approvable
  BY DEF Approvable
<1>5. \/ j.at = "write" /\ j.act = "approve" /\ s \in {status[d]} \cup Agreed /\ c = cost[d]
      \/ j.at = "write" /\ j.act = "reject" /\ s = "REJECTED" /\ c = cost[d]
      \/ j.at = "insert" /\ s = "PENDING_APPROVAL" /\ c = cost[d]
      \/ j.at = "write" /\ j.act = "post" /\ s = "POSTED" /\ c = cost[d]
      \/ j.at = "write" /\ j.act = "close" /\ s = "POSTED" /\ c = cost[d]
      \/ j.at = "submit" /\ s = "PENDING_APPROVAL"
  BY <1>2, Zenon DEF Writable
<1>6. /\ Deciding(j) => status[d] \in Past
      /\ j.act = "post" /\ j.at # "idle" => status[d] \in {"CALCULATED", "POSTED"}
      /\ j.at = "submit" => status[d] \in {"OPEN"} \cup Past
  BY <1>1, <1>2 DEF Standing
<1>q. QED
  BY <1>1, <1>2, <1>3, <1>4, <1>5, <1>6, StatusFacts DEF Deciding, Closing

\* Every document but h's own keeps its row, and every other request stands
\* as it did, or is old.
LEMMA WriteKeepsStandings ==
    ASSUME DeedInv, NEW h \in Handler, NEW books \in BOOLEAN, NEW s, NEW g, NEW c, NEW e, NEW next,
           Write(h, s, g, c, e, books, next), Writable(h, s, g, c, e, books, next)
    PROVE  Standings'
<1>0. OfficeTypeOK /\ JobsOK
  BY DEF DeedInv, FieldInv, FieldTypeOK
<1>1. /\ \A x \in Doc : /\ status'[x] = IF x = job[h].doc THEN s ELSE status[x]
                        /\ stage'[x] = IF x = job[h].doc THEN g ELSE stage[x]
                        /\ cost'[x] = IF x = job[h].doc THEN c ELSE cost[x]
      /\ job'[h] = next
      /\ \A k \in Handler \ {h} : Spared(job'[k], job[k], job[h].doc, books)
      /\ books \/ balance' = balance
  <2>1. /\ \A x \in Doc :
              /\ status'[x] = IF x = job[h].doc THEN s ELSE status[x]
              /\ stage'[x] = IF x = job[h].doc THEN g ELSE stage[x]
              /\ cost'[x] = IF x = job[h].doc THEN c ELSE cost[x]
              /\ effects'[x] = IF x = job[h].doc THEN e ELSE effects[x]
              /\ x \in raced' <=> x \in raced \/ (x = job[h].doc /\ job[h].old)
        /\ job'[h] = next
        /\ \A k \in Handler \ {h} : Spared(job'[k], job[k], job[h].doc, books)
        /\ job' \in [Handler -> Jobs]
    BY <1>0, WriteEffect
  <2>2. books \/ balance' = balance
    BY DEF Write
  <2>q. QED
    BY <2>1, <2>2
<1>2. /\ job[h].doc \in Doc /\ job[h].at # "idle" /\ s \in Past
      /\ Type[job[h].doc] = "PAYROLL_RUN" =>
            job[h].at = "write" /\ job[h].act = "post" /\ s = "POSTED" /\ c = cost[job[h].doc]
      /\ Type[job[h].doc] = "PERIOD_CLOSE" => Closing(job[h])
      /\ c # cost[job[h].doc] =>
            job[h].at = "submit" /\ Type[job[h].doc] = "MAINTENANCE_COMPLETION"
      /\ Type[job[h].doc] = "EXPENSE_REQUEST" =>
            job[h].at = "insert" \/ (job[h].at = "write" /\ Deciding(job[h]))
  BY WriteFacts
<1>3. next = Idle \/ Moved(next, job[h], "publish")
  BY <1>0, WritableType
<1>4. \A k \in Handler : /\ job[k].doc \in Doc /\ JobOK(job[k])
                         /\ Standing(job[k], status[job[k].doc], stage[job[k].doc],
                                     cost[job[k].doc], balance)
  BY <1>0, OfficeTypes DEF DeedInv, Standings, JobsOK
<1>5. ASSUME NEW k \in Handler \ {h}, job[k].doc # job[h].doc
      PROVE  Standing(job'[k], status'[job'[k].doc], stage'[job'[k].doc], cost'[job'[k].doc], balance')
  <2>1. Spared(job'[k], job[k], job[h].doc, books)
    BY <1>1
  <2>2. /\ job'[k].doc = job[k].doc /\ job[k].doc \in Doc
        /\ Standing(job[k], status[job[k].doc], stage[job[k].doc], cost[job[k].doc], balance)
    BY <1>4, <2>1 DEF Spared, Same
  <2>3. /\ status'[job'[k].doc] = status[job[k].doc] /\ stage'[job'[k].doc] = stage[job[k].doc]
        /\ cost'[job'[k].doc] = cost[job[k].doc]
    BY <1>1, <1>5, <2>2
  <2>4. Closing(job[k]) /\ ~job'[k].old => ~job[k].old /\ balance' = balance
    BY <1>1, <2>1 DEF Spared, Closing
  <2>q. QED
    BY <2>1, <2>2, <2>3, <2>4 DEF Spared, Same, Standing, Deciding, Closing
<1>6. ASSUME NEW k \in Handler \ {h}, job[k].doc = job[h].doc
      PROVE  Standing(job'[k], status'[job'[k].doc], stage'[job'[k].doc], cost'[job'[k].doc], balance')
  <2>1. Spared(job'[k], job[k], job[h].doc, books)
    BY <1>1
  <2>2. /\ job'[k].doc = job[h].doc /\ job[h].doc \in Doc
        /\ Standing(job[k], status[job[h].doc], stage[job[h].doc], cost[job[h].doc], balance)
        /\ Same(job'[k], job[k]) /\ (job[k].at # "idle" => job'[k].old)
    BY <1>4, <1>6, <2>1 DEF Spared, Same
  <2>3. status'[job'[k].doc] = s /\ cost'[job'[k].doc] = c
    BY <1>1, <2>2
  <2>4. /\ job[k].at = "insert" => Type[job[h].doc] = "EXPENSE_REQUEST"
        /\ Closing(job[k]) => Type[job[h].doc] = "PERIOD_CLOSE"
        /\ job[k].act = "post" /\ job[k].at # "idle" => Type[job[h].doc] = "PAYROLL_RUN"
    <3>1. JobOK(job[k]) /\ job[k] \in Jobs
      BY <1>0, <1>4, OfficeTypes
    <3>q. QED
      BY <1>6, <3>1 DEF JobOK, Closing, Jobs
  <2>5. job[k].at # "insert" /\ ~Closing(job[k])
    <3>1. Apart(job[h], job[k]) /\ Apart(job[k], job[h])
      BY DEF DeedInv, Aparts
    <3>2. (~Closing(job[k]) /\ ~Closing(job[h])) \/ job[k].at = "idle"
      BY <1>2, <1>6, <3>1 DEF Apart
    <3>3. job[k].at = "insert" => FALSE
      BY <1>2, <1>6, <2>2, <2>4, <3>1, StatusFacts, <1>4 DEF Apart, Standing
    <3>q. QED
      BY <3>2, <3>3 DEF Closing
  <2>6. /\ Deciding(job[k]) /\ Type[job[h].doc] # "MAINTENANCE_COMPLETION" =>
             job[k].cost = cost[job[h].doc] /\ c = cost[job[h].doc]
        /\ job[k].act = "post" /\ job[k].at # "idle" => job[k].cost = c /\ s = "POSTED"
    BY <1>2, <1>6, <2>2, <2>4 DEF Standing
  <2>q. QED
    BY <1>2, <1>6, <2>2, <2>3, <2>5, <2>6 DEF Same, Standing, Deciding, Closing
<1>7. Standing(job'[h], status'[job'[h].doc], stage'[job'[h].doc], cost'[job'[h].doc], balance')
  <2>1. CASE next = Idle
    BY <1>1, <2>1, IdleType DEF Standing, Deciding, Closing
  <2>2. CASE Moved(next, job[h], "publish")
    <3>1. /\ job'[h].at = "publish" /\ job'[h].doc = job[h].doc /\ job'[h].cost = job[h].cost
          /\ job'[h].act = job[h].act
      BY <1>1, <2>2 DEF Moved
    <3>2. status'[job'[h].doc] = s /\ cost'[job'[h].doc] = c
      BY <1>1, <1>2, <3>1
    <3>3. job[h].act = "post" => job[h].cost = c /\ s = "POSTED"
      <4>1. CASE job[h].act = "post"
        <5>1. job[h].at \in {"write", "insert", "submit"}
          BY <1>0, WritableType
        <5>2. Type[job[h].doc] = "PAYROLL_RUN"
          BY <1>4, <4>1, <5>1 DEF JobOK
        <5>q. QED
          BY <1>2, <1>4, <4>1, <5>2 DEF Standing
      <4>q. QED
        BY <4>1
    <3>q. QED
      BY <1>2, <3>1, <3>2, <3>3 DEF Standing, Deciding, Closing
  <2>q. QED
    BY <1>3, <2>1, <2>2
<1>q. QED
  BY <1>5, <1>6, <1>7 DEF Standings

\* Where one request moves and no row changes.
StandsOn(j) == Standing(j, status[j.doc], stage[j.doc], cost[j.doc], balance)

LEMMA OneStands ==
    ASSUME DeedInv, NEW h \in Handler, NEW q, StandsOn(q), job' = [job EXCEPT ![h] = q],
           UNCHANGED <<status, stage, cost, balance>>
    PROVE  Standings'
<1>1. job'[h] = q /\ \A k \in Handler \ {h} : job'[k] = job[k]
  BY JobStepEffect DEF DeedInv, FieldInv, FieldTypeOK
<1>2. \A k \in Handler : StandsOn(job'[k])
  BY <1>1 DEF DeedInv, Standings, StandsOn
<1>q. QED
  BY <1>2 DEF Standings, StandsOn

LEMMA IdleStands == StandsOn(Idle)
BY IdleType DEF StandsOn, Standing, Deciding, Closing

LEMMA OfficeKeepsStandings ==
    ASSUME DeedInv, OfficeMove
    PROVE  Standings'
<1>0. OfficeTypeOK /\ JobsOK /\ ChainOK
  BY DEF DeedInv, FieldInv, FieldTypeOK
<1>s. \A h \in Handler : StandsOn(job[h]) /\ job[h] \in Jobs /\ job[h].doc \in Doc
  BY <1>0, OfficeTypes DEF DeedInv, Standings, StandsOn
<1>1. CASE Begins
  <2>1. PICK h \in Handler : \E q : Starting(q) /\ JobStep(h, q)
    BY <1>1 DEF Begins
  <2>2. PICK q : Starting(q) /\ JobStep(h, q)
    BY <2>1
  <2>3. StandsOn(q)
    BY <2>2, StatusFacts DEF Starting, StandsOn, Standing, Deciding, Closing
  <2>q. QED
    BY <2>2, <2>3, OneStands DEF JobStep
<1>2. CASE Drops \/ Publishes
  <2>1. PICK h \in Handler : /\ job' = [job EXCEPT ![h] = Idle]
                             /\ UNCHANGED <<status, stage, cost, balance>>
    BY <1>2 DEF Drops, Publishes, JobStep
  <2>q. QED
    BY <2>1, IdleStands, OneStands
<1>3. CASE Finds
  <2>1. PICK h \in Handler : /\ job[h].at = "find" /\ status[job[h].doc] # "POSTED"
                             /\ JobStep(h, [job[h] EXCEPT !.at = "write", !.old = FALSE])
    BY <1>3 DEF Finds
  <2>2. PICK q : q = [job[h] EXCEPT !.at = "write", !.old = FALSE]
    OBVIOUS
  <2>3. Moved(q, job[h], "write")
    BY <1>s, <2>2, FoundType
  <2>4. JobOK(job[h])
    BY <1>0 DEF JobsOK
  <2>5. q.doc = job[h].doc /\ q.at = "write" /\ q.act = "post" /\ q.cost = job[h].cost
    BY <2>1, <2>3, <2>4 DEF Moved, JobOK
  <2>6. StandsOn(q)
    BY <1>s, <2>1, <2>4, <2>5 DEF StandsOn, Standing, JobOK, Deciding, Closing
  <2>7. job' = [job EXCEPT ![h] = q] /\ UNCHANGED <<status, stage, cost, balance>>
    BY <2>1, <2>2 DEF JobStep
  <2>q. QED
    BY <2>6, <2>7, OneStands
<1>4. CASE Writes
  <2>1. PICK h \in Handler, books \in BOOLEAN : \E s, g, c, e, next :
           Write(h, s, g, c, e, books, next) /\ Writable(h, s, g, c, e, books, next)
    BY <1>4 DEF Writes
  <2>q. QED
    BY <2>1, WriteKeepsStandings
<1>5. CASE Creates
  <2>1. PICK d \in Doc : \E s, c : Create(d, s, c)
    BY <1>5 DEF Creates
  <2>2. PICK s, c : Create(d, s, c)
    BY <2>1
  <2>3. /\ status[d] = "none"
        /\ Type[d] \in {"AGENT_ONBOARDING", "MANUAL_JOURNAL_ENTRY", "PAYROLL_RUN"}
        /\ \A x \in Doc \ {d} : status'[x] = status[x] /\ cost'[x] = cost[x]
        /\ stage' = stage /\ job' = job /\ balance' = balance
    BY <1>0, <2>2, OfficeTypes DEF Create
  <2>4. ASSUME NEW k \in Handler
        PROVE  Standing(job[k], status'[job[k].doc], stage[job[k].doc], cost'[job[k].doc], balance)
    <3>1. CASE job[k].doc # d
      BY <1>s, <2>3, <3>1 DEF StandsOn
    <3>2. CASE job[k].doc = d
      <4>1. JobOK(job[k])
        BY <1>0 DEF JobsOK
      <4>q. QED
        BY <1>s, <2>3, <3>2, <4>1, StatusFacts DEF StandsOn, Standing, JobOK, Deciding, Closing
    <3>q. QED
      BY <3>1, <3>2
  <2>q. QED
    BY <2>3, <2>4 DEF Standings
<1>6. CASE LedgerPosts
  <2>1. PICK p \in due : /\ job' = [h \in Handler |-> Outdated(job[h], p, TRUE)]
                         /\ UNCHANGED <<status, stage, cost>>
    BY <1>6 DEF LedgerPosts
  <2>2. ASSUME NEW k \in Handler
        PROVE  Standing(job'[k], status[job'[k].doc], stage[job'[k].doc], cost[job'[k].doc], balance')
    <3>1. Spared(job'[k], job[k], p, TRUE)
      BY <1>s, <2>1, OutdatedSpared
    <3>2. StandsOn(job[k]) /\ job'[k].doc = job[k].doc
      BY <1>s, <3>1 DEF Spared, Same
    <3>3. Closing(job[k]) => job'[k].old
      BY <3>1 DEF Spared, Closing
    <3>q. QED
      BY <3>1, <3>2, <3>3 DEF Spared, Same, StandsOn, Standing, Deciding, Closing
  <2>q. QED
    BY <2>1, <2>2 DEF Standings
<1>7. CASE Rests
  BY <1>7 DEF Rests, DeedInv, Standings
<1>8. ASSUME NEW h \in Handler, Decide(h)
      PROVE  Standings'
  <2>1. PICK q \in Jobs :
           /\ q.at = "record" /\ q.act = job[h].act /\ q.doc = job[h].doc
           /\ q.stage = job[h].stage /\ q.cost = job[h].cost /\ q.read = job[h].read
           /\ q.old = job[h].old /\ JobStep(h, q)
    BY <1>0, <1>8, DecideEffect
  <2>2. job[h].at = "ask"
    BY <1>8 DEF Decide
  <2>3. StandsOn(q)
    BY <1>s, <2>1, <2>2 DEF StandsOn, Standing, Deciding, Closing
  <2>q. QED
    BY <2>1, <2>3, OneStands DEF JobStep
<1>9. ASSUME NEW h \in Handler, Record(h)
      PROVE  Standings'
  <2>1. PICK r : r = [prev |-> job[h].last, doc |-> job[h].doc, stage |-> job[h].stage,
                      amount |-> job[h].cost, by |-> job[h].by, ok |-> job[h].ok]
    OBVIOUS
  <2>2. /\ job[h].at = "record"
        /\ \/ job'[h] = Idle
           \/ /\ job[h].ok /\ job[h].act = "post"
              /\ Moved(job'[h], job[h], "find") /\ job'[h].old = job[h].old
           \/ /\ job[h].ok /\ job[h].act # "post"
              /\ Moved(job'[h], job[h], "write") /\ job'[h].old = job[h].old
        /\ \A k \in Handler \ {h} :
              /\ Same(job'[k], job[k]) /\ job'[k].last = job[k].last
              /\ job'[k].old = job[k].old
              /\ job[k].at = "record" => job'[k].behind
        /\ UNCHANGED <<status, stage, cost, effects, raced, balance>>
    BY <1>0, <1>9, <2>1, RecordEffect
  <2>3. ASSUME NEW k \in Handler
        PROVE  StandsOn(job'[k])
    <3>1. CASE k # h
      BY <1>s, <2>2, <3>1 DEF Same, StandsOn, Standing, Deciding, Closing
    <3>2. CASE k = h /\ job'[h] = Idle
      BY <3>2, IdleStands
    <3>3. CASE k = h /\ job[h].act = "post" /\ Moved(job'[h], job[h], "find")
      BY <1>s, <2>2, <3>3 DEF Moved, StandsOn, Standing, Deciding, Closing
    <3>4. CASE k = h /\ job[h].act # "post" /\ Moved(job'[h], job[h], "write") /\ job'[h].old = job[h].old
      BY <1>s, <2>2, <3>4 DEF Moved, StandsOn, Standing, Deciding, Closing
    <3>q. QED
      BY <2>2, <3>1, <3>2, <3>3, <3>4
  <2>q. QED
    BY <2>2, <2>3 DEF Standings, StandsOn
<1>q. QED
  BY <1>1, <1>2, <1>3, <1>4, <1>5, <1>6, <1>7, <1>8, <1>9 DEF OfficeMove

\* A request that goes on has been going on, with the same document.
Narrows(i, j) ==
    i.at # "idle" => /\ j.at # "idle" /\ i.doc = j.doc
                     /\ i.at = "insert" => j.at = "insert"
                     /\ Closing(i) => Closing(j)

LEMMA NarrowKinds ==
    /\ \A j : Narrows(Idle, j)
    /\ \A i, j : Same(i, j) => Narrows(i, j)
    /\ \A i, j : Moved(i, j, "publish") /\ j.at # "idle" => Narrows(i, j)
    /\ \A i, j : Moved(i, j, "find") /\ j.at = "record" => Narrows(i, j)
    /\ \A i, j : Moved(i, j, "write") /\ j.at = "record" => Narrows(i, j)
    /\ \A i, j : Moved(i, j, "write") /\ j.at = "find" /\ j.act = "post" => Narrows(i, j)
BY IdleType DEF Narrows, Same, Moved, Closing

LEMMA OneNarrows ==
    ASSUME OfficeTypeOK, NEW h \in Handler, NEW q, Narrows(q, job[h]), job' = [job EXCEPT ![h] = q]
    PROVE  \A k \in Handler : Narrows(job'[k], job[k])
<1>1. job'[h] = q /\ \A k \in Handler \ {h} : job'[k] = job[k]
  BY JobStepEffect
<1>q. QED
  BY <1>1 DEF Narrows

LEMMA RequestsNarrow ==
    ASSUME DeedInv, OfficeMove
    PROVE  Begins \/ \A k \in Handler : Narrows(job'[k], job[k])
<1>0. OfficeTypeOK /\ JobsOK /\ ChainOK
  BY DEF DeedInv, FieldInv, FieldTypeOK
<1>2. CASE Drops \/ Publishes
  <2>1. PICK h \in Handler : job' = [job EXCEPT ![h] = Idle]
    BY <1>2 DEF Drops, Publishes, JobStep
  <2>q. QED
    BY <1>0, <2>1, NarrowKinds, OneNarrows
<1>3. CASE Finds
  <2>1. PICK h \in Handler : /\ job[h].at = "find"
                             /\ JobStep(h, [job[h] EXCEPT !.at = "write", !.old = FALSE])
    BY <1>3 DEF Finds
  <2>2. PICK q : q = [job[h] EXCEPT !.at = "write", !.old = FALSE]
    OBVIOUS
  <2>3. Moved(q, job[h], "write")
    BY <1>0, <2>2, FoundType, OfficeTypes
  <2>4. job[h].act = "post"
    BY <1>0, <2>1 DEF JobsOK, JobOK
  <2>5. Narrows(q, job[h])
    BY <2>1, <2>3, <2>4, NarrowKinds
  <2>6. job' = [job EXCEPT ![h] = q]
    BY <2>1, <2>2 DEF JobStep
  <2>q. QED
    BY <1>0, <2>5, <2>6, OneNarrows
<1>4. CASE Writes
  <2>1. PICK h \in Handler, books \in BOOLEAN : \E s, g, c, e, next :
           Write(h, s, g, c, e, books, next) /\ Writable(h, s, g, c, e, books, next)
    BY <1>4 DEF Writes
  <2>2. PICK s, g, c, e, next :
           Write(h, s, g, c, e, books, next) /\ Writable(h, s, g, c, e, books, next)
    BY <2>1
  <2>3. /\ job'[h] = next
        /\ \A k \in Handler \ {h} : Spared(job'[k], job[k], job[h].doc, books)
    <3>1. Overtake(h, job[h].doc, books, next)
      BY <2>2 DEF Write
    <3>q. QED
      BY <1>0, <3>1, OvertakeEffect
  <2>4. next = Idle \/ (Moved(next, job[h], "publish") /\ job[h].at = "write")
    <3>1. /\ s = status[job[h].doc] \/ s \in Past
          /\ g \in Level /\ c \in Int /\ e \in Seq(Int)
          /\ next \in Jobs
          /\ \/ next = Idle
             \/ Moved(next, job[h], "publish") /\ job[h].at = "write"
          /\ job[h].at \in {"write", "insert", "submit"}
      BY <1>0, <2>2, WritableType
    <3>q. QED
      BY <3>1
  <2>5. Narrows(job'[h], job[h])
    BY <2>3, <2>4, NarrowKinds
  <2>6. \A k \in Handler \ {h} : Narrows(job'[k], job[k])
    BY <2>3, NarrowKinds DEF Spared
  <2>q. QED
    BY <2>5, <2>6
<1>5. CASE LedgerPosts
  <2>1. PICK p : job' = [h \in Handler |-> Outdated(job[h], p, TRUE)]
    BY <1>5 DEF LedgerPosts
  <2>2. ASSUME NEW k \in Handler
        PROVE  Spared(job'[k], job[k], p, TRUE)
    BY <1>0, <2>1, OutdatedSpared, OfficeTypes
  <2>q. QED
    BY <2>2, NarrowKinds DEF Spared
<1>6. CASE Creates \/ Rests
  BY <1>6 DEF Creates, Create, Rests, Narrows
<1>7. ASSUME NEW h \in Handler, Decide(h)
      PROVE  \A k \in Handler : Narrows(job'[k], job[k])
  <2>1. PICK q \in Jobs :
           /\ q.at = "record" /\ q.act = job[h].act /\ q.doc = job[h].doc /\ JobStep(h, q)
    BY <1>0, <1>7, DecideEffect
  <2>2. job[h].at = "ask"
    BY <1>7 DEF Decide
  <2>3. Narrows(q, job[h])
    BY <2>1, <2>2 DEF Narrows, Closing
  <2>q. QED
    BY <1>0, <2>1, <2>3, OneNarrows DEF JobStep
<1>8. ASSUME NEW h \in Handler, Record(h)
      PROVE  \A k \in Handler : Narrows(job'[k], job[k])
  <2>1. PICK r : r = [prev |-> job[h].last, doc |-> job[h].doc, stage |-> job[h].stage,
                      amount |-> job[h].cost, by |-> job[h].by, ok |-> job[h].ok]
    OBVIOUS
  <2>2. /\ job[h].at = "record"
        /\ \/ job'[h] = Idle
           \/ /\ job[h].ok /\ job[h].act = "post"
              /\ Moved(job'[h], job[h], "find") /\ job'[h].old = job[h].old
           \/ /\ job[h].ok /\ job[h].act # "post"
              /\ Moved(job'[h], job[h], "write") /\ job'[h].old = job[h].old
        /\ \A k \in Handler \ {h} :
              /\ Same(job'[k], job[k]) /\ job'[k].last = job[k].last
              /\ job'[k].old = job[k].old
              /\ job[k].at = "record" => job'[k].behind
        /\ UNCHANGED <<status, stage, cost, effects, raced, balance>>
    BY <1>0, <1>8, <2>1, RecordEffect
  <2>3. Narrows(job'[h], job[h])
    BY <2>2, NarrowKinds
  <2>4. \A k \in Handler \ {h} : Narrows(job'[k], job[k])
    BY <2>2, NarrowKinds
  <2>q. QED
    BY <2>3, <2>4
<1>q. QED
  BY <1>2, <1>3, <1>4, <1>5, <1>6, <1>7, <1>8 DEF OfficeMove

LEMMA OfficeKeepsAparts ==
    ASSUME DeedInv, OfficeMove
    PROVE  Aparts'
<1>1. CASE \A k \in Handler : Narrows(job'[k], job[k])
  <2>1. ASSUME NEW h \in Handler, NEW k \in Handler, h # k
        PROVE  Apart(job'[h], job'[k])
    <3>1. Apart(job[h], job[k]) /\ Narrows(job'[h], job[h]) /\ Narrows(job'[k], job[k])
      BY <1>1, <2>1 DEF DeedInv, Aparts
    <3>q. QED
      BY <3>1 DEF Apart, Narrows, Closing
  <2>q. QED
    BY <2>1 DEF Aparts
<1>2. CASE Begins
  <2>0. OfficeTypeOK /\ JobsOK
    BY DEF DeedInv, FieldInv, FieldTypeOK
  <2>1. PICK h \in Handler : \E q : Starting(q) /\ JobStep(h, q)
    BY <1>2 DEF Begins
  <2>2. PICK q : Starting(q) /\ JobStep(h, q)
    BY <2>1
  <2>3. job'[h] = q /\ \A k \in Handler \ {h} : job'[k] = job[k]
    BY <2>0, <2>2, JobStepEffect DEF JobStep
  <2>4. ASSUME NEW k \in Handler, k # h
        PROVE  Apart(q, job[k]) /\ Apart(job[k], q)
    <3>1. JobOK(job[k])
      BY <2>0 DEF JobsOK
    <3>2. Closing(job[k]) => Type[job[k].doc] = "PERIOD_CLOSE"
      BY <3>1 DEF JobOK, Closing
    <3>3. "PERIOD_CLOSE" \notin Approvable
      BY DEF Approvable
    <3>4. \/ q.at = "ask" /\ q.act \in {"approve", "reject", "post"} /\ Type[q.doc] # "PERIOD_CLOSE"
          \/ q.at = "ask" /\ \A g \in Handler : job[g].at # "idle" => job[g].doc # q.doc
          \/ /\ q.at = "insert" /\ Type[q.doc] # "PERIOD_CLOSE"
             /\ \A g \in Handler : job[g].at = "insert" => job[g].doc # q.doc
          \/ q.at = "submit" /\ Type[q.doc] # "PERIOD_CLOSE"
      BY <2>2, <3>3 DEF Starting
    <3>q. QED
      BY <3>2, <3>4 DEF Apart, Closing
  <2>5. ASSUME NEW i \in Handler, NEW k \in Handler, i # k
        PROVE  Apart(job'[i], job'[k])
    <3>1. CASE i = h
      BY <2>3, <2>4, <2>5, <3>1
    <3>2. CASE k = h
      BY <2>3, <2>4, <2>5, <3>2
    <3>3. CASE i # h /\ k # h
      BY <2>3, <2>5, <3>3 DEF DeedInv, Aparts
    <3>q. QED
      BY <3>1, <3>2, <3>3
  <2>q. QED
    BY <2>5 DEF Aparts
<1>q. QED
  BY <1>1, <1>2, RequestsNarrow

\* How the office changes rows.
LEMMA OfficeChanges ==
    ASSUME DeedInv, OfficeMove, NEW d \in Doc
    PROVE  /\ status[d] \in Past => status'[d] \in Past
           /\ status'[d] # status[d] => \/ /\ status[d] \in {"OPEN"} \cup Past
                                           /\ status'[d] \in Past
                                        \/ Type[d] \notin {"BATCH_COST", "MAINTENANCE_COMPLETION"}
           /\ stage'[d] # stage[d] \/ effects'[d] # effects[d] =>
                 status'[d] \in Past \/ Type[d] \notin Approvable
<1>0. OfficeTypeOK /\ JobsOK /\ ChainOK
  BY DEF DeedInv, FieldInv, FieldTypeOK
<1>1. CASE UNCHANGED <<status, stage, effects>>
  BY <1>1
<1>2. CASE Begins \/ Drops \/ Finds \/ Rests \/ LedgerPosts
  BY <1>1, <1>2 DEF Begins, Drops, Finds, Rests, LedgerPosts, JobStep
<1>3. ASSUME NEW h \in Handler, Decide(h) \/ Record(h)
      PROVE  UNCHANGED <<status, stage, effects>>
  BY <1>3 DEF Decide, Record
<1>4. CASE Writes
  <2>1. PICK h \in Handler, books \in BOOLEAN : \E s, g, c, e, next :
           Write(h, s, g, c, e, books, next) /\ Writable(h, s, g, c, e, books, next)
    BY <1>4 DEF Writes
  <2>2. PICK s, g, c, e, next :
           Write(h, s, g, c, e, books, next) /\ Writable(h, s, g, c, e, books, next)
    BY <2>1
  <2>3. /\ s \in Past
        /\ \/ status[job[h].doc] \in {"OPEN"} \cup Past
           \/ Type[job[h].doc] \in {"EXPENSE_REQUEST", "PAYROLL_RUN", "PERIOD_CLOSE"}
    BY <2>2, WriteFacts
  <2>4. /\ status'[d] = IF d = job[h].doc THEN s ELSE status[d]
        /\ d # job[h].doc => stage'[d] = stage[d] /\ effects'[d] = effects[d]
    BY <1>0, <2>2, OfficeTypes DEF Write
  <2>q. QED
    BY <2>3, <2>4
<1>5. CASE Publishes
  <2>1. PICK h \in Handler : /\ job[h].at = "publish" /\ UNCHANGED <<status, stage>>
                             /\ effects' = [effects EXCEPT ![job[h].doc] = Append(@, job[h].cost)]
    BY <1>5 DEF Publishes
  <2>2. status[job[h].doc] \in Past
    BY <2>1 DEF DeedInv, Standings, Standing
  <2>3. d # job[h].doc => effects'[d] = effects[d]
    BY <1>0, <2>1, OfficeTypes
  <2>q. QED
    BY <2>1, <2>2, <2>3
<1>6. CASE Creates
  <2>1. PICK x \in Doc : \E s, c : Create(x, s, c)
    BY <1>6 DEF Creates
  <2>2. PICK s, c : Create(x, s, c)
    BY <2>1
  <2>3. /\ status[x] = "none" /\ (d # x => status'[d] = status[d])
        /\ Type[x] \notin {"BATCH_COST", "MAINTENANCE_COMPLETION"}
        /\ UNCHANGED <<stage, effects>>
    BY <1>0, <2>2, OfficeTypes DEF Create
  <2>q. QED
    BY <2>3, StatusFacts
<1>q. QED
  BY <1>1, <1>2, <1>3, <1>4, <1>5, <1>6 DEF OfficeMove

LEMMA DeedsStay ==
    ASSUME DeedInv, [Next]_vars
    PROVE  DeedInv'
<1>1. FieldInv /\ FieldInv'
  BY NextTyped DEF DeedInv
<1>2. CASE OfficeStep
  <2>1. OfficeMove
    BY <1>1, <1>2, OfficeMoves DEF FieldInv, FieldTypeOK, OfficeStep
  <2>2. \A c \in Capture : Stored(c)' <=> Stored(c)
    BY <1>2 DEF OfficeStep, fieldVars, Stored
  <2>3. RowsAhead'
    <3> SUFFICES ASSUME NEW c \in DOMAIN DocOf, ~Stored(c)'
                 PROVE  status'[DocOf[c]] \in {"absent", "none"}
      BY DEF RowsAhead
    <3>1. /\ c \in Capture /\ DocOf[c] \in Doc
          /\ Type[DocOf[c]] \in {"BATCH_COST", "MAINTENANCE_COMPLETION"}
      BY FieldDocuments
    <3>2. status[DocOf[c]] \in {"absent", "none"}
      BY <2>2, <3>1 DEF DeedInv, RowsAhead
    <3>q. QED
      BY <2>1, <3>1, <3>2, OfficeChanges, StatusFacts
  <2>4. Asked'
    BY <2>1, OfficeChanges DEF DeedInv, Asked
  <2>q. QED
    BY <1>1, <2>1, <2>3, <2>4, OfficeKeepsStandings, OfficeKeepsAparts DEF DeedInv
<1>3. CASE FieldStep
  BY <1>1, <1>3, FieldKeepsDeeds DEF DeedInv
<1>4. CASE UNCHANGED vars
  BY <1>1, <1>4 DEF vars, officeVars, fieldVars, DeedInv, Standings, Aparts, RowsAhead, Asked, Stored
<1>q. QED
  BY <1>1, <1>2, <1>3, <1>4, StepKinds

LEMMA DeedsBegin ==
    ASSUME Init
    PROVE  DeedInv
<1>1. PICK scene \in Scenes : OfficeInit(scene) /\ FieldInit(scene)
  BY DEF Init
<1>2. /\ status = [d \in Doc |-> IF d \in scene.docs THEN FirstStatus(Type[d]) ELSE "absent"]
      /\ stage = [d \in Doc |-> 1] /\ effects = [d \in Doc |-> <<>>]
      /\ \A h \in Handler : job[h] = Idle
  BY <1>1 DEF OfficeInit
<1>3. Standings /\ Aparts
  BY <1>2, IdleType DEF Standings, Standing, Aparts, Apart, Deciding, Closing
<1>4. RowsAhead
  BY <1>2, FieldDocuments DEF RowsAhead, FirstStatus
<1>5. Asked
  BY <1>2 DEF Asked
<1>q. QED
  BY <1>3, <1>4, <1>5, InitTyped DEF DeedInv

--------------------------------------------------------------------------------
(* Late writes.                                                             *)

\* What a write that is not late changes.
LEMMA TimelyWrite ==
    ASSUME DeedInv, NEW h \in Handler, NEW books \in BOOLEAN, NEW s, NEW g, NEW c, NEW e, NEW next,
           Write(h, s, g, c, e, books, next), Writable(h, s, g, c, e, books, next),
           job[h].doc \notin raced'
    PROVE  /\ ~job[h].old /\ job[h].doc \notin raced /\ status[job[h].doc] \notin Final
           /\ \/ job[h].at = "insert" \/ job[h].at = "submit"
              \/ job[h].at = "write" /\ (Deciding(job[h]) \/ Closing(job[h]) \/ job[h].act = "post")
           /\ Deciding(job[h]) =>
                 /\ status[job[h].doc] \in Pending /\ job[h].cost = cost[job[h].doc]
                 /\ job[h].stage = stage[job[h].doc]
           /\ Closing(job[h]) => job[h].read = balance /\ Type[job[h].doc] = "PERIOD_CLOSE"
           /\ job[h].act = "post" /\ job[h].at = "write" =>
                 status[job[h].doc] = "CALCULATED" /\ job[h].cost = cost[job[h].doc]
           /\ job[h].at = "submit" => status[job[h].doc] = "OPEN"
           /\ job[h].at = "insert" => status[job[h].doc] = "none"
<1>1. ~job[h].old /\ job[h].doc \notin raced
  BY DEF Write
<1>2. /\ Standing(job[h], status[job[h].doc], stage[job[h].doc], cost[job[h].doc], balance)
      /\ JobOK(job[h])
  BY DEF DeedInv, Standings, FieldInv, JobsOK
<1>3. \/ job[h].at = "insert" \/ job[h].at = "submit"
      \/ job[h].at = "write" /\ (Deciding(job[h]) \/ Closing(job[h]) \/ job[h].act = "post")
  BY DEF Writable, Deciding, Closing
<1>4. /\ "none" \notin Final /\ "OPEN" \notin Final /\ "CALCULATED" \notin Final
      /\ \A x \in Pending : x \notin Final
  BY StatusFacts DEF Final, Agreed
<1>5. Closing(job[h]) => Type[job[h].doc] = "PERIOD_CLOSE"
  BY <1>2 DEF JobOK, Closing
<1>q. QED
  BY <1>1, <1>2, <1>3, <1>4, <1>5 DEF Standing

\* A close zeroes what it has read.
LEMMA CloseZeroes ==
    ASSUME NEW b \in [Account -> Int], NEW a \in PnL
    PROVE  Plus(b, ClosingEffect(b))[a] = 0
<1>1. a \in Account
  BY DEF PnL
<1>2. ClosingEffect(b)[a] = -b[a]
  BY <1>1 DEF ClosingEffect
<1>q. QED
  BY <1>1, <1>2 DEF Plus

LEMMA TimelySpoilsNothing ==
    ASSUME DeedInv, [Next]_vars, NEW d \in Doc, d \notin raced'
    PROVE  /\ status[d] \in Final => status'[d] = status[d]
           /\ Type[d] = "PERIOD_CLOSE" /\ status[d] # "POSTED" /\ status'[d] = "POSTED"
              => \A a \in PnL : balance'[a] = 0
<1>0. OfficeTypeOK /\ JobsOK /\ ChainOK
  BY DEF DeedInv, FieldInv, FieldTypeOK
<1>1. CASE status'[d] = status[d]
  BY <1>1
<1>2. CASE UNCHANGED status
  BY <1>2
<1>3. CASE Writes
  <2>1. PICK h \in Handler, books \in BOOLEAN : \E s, g, c, e, next :
           Write(h, s, g, c, e, books, next) /\ Writable(h, s, g, c, e, books, next)
    BY <1>3 DEF Writes
  <2>2. PICK s, g, c, e, next :
           Write(h, s, g, c, e, books, next) /\ Writable(h, s, g, c, e, books, next)
    BY <2>1
  <2>3. CASE d # job[h].doc
    <3>1. status'[d] = status[d]
      BY <1>0, <2>2, <2>3, OfficeTypes DEF Write
    <3>q. QED
      BY <1>1, <3>1
  <2>4. CASE d = job[h].doc
    <3>1. /\ status[d] \notin Final
          /\ Closing(job[h]) => job[h].read = balance
      BY <2>2, <2>4, TimelyWrite
    <3>2. ASSUME Type[d] = "PERIOD_CLOSE"
          PROVE  Closing(job[h]) /\ job[h].act = "close"
      BY <2>2, <2>4, <3>2, WriteFacts DEF Closing
    <3>3. ASSUME Type[d] = "PERIOD_CLOSE", NEW a \in PnL
          PROVE  balance'[a] = 0
      <4>1. balance' = Plus(balance, ClosingEffect(balance))
        BY <2>2, <3>1, <3>2, <3>3 DEF Write
      <4>q. QED
        BY <1>0, <3>3, <4>1, OfficeTypes, CloseZeroes
    <3>q. QED
      BY <3>1, <3>3
  <2>q. QED
    BY <2>3, <2>4
<1>4. CASE Creates
  <2>1. PICK x \in Doc : \E s, c : Create(x, s, c)
    BY <1>4 DEF Creates
  <2>2. PICK s, c : Create(x, s, c)
    BY <2>1
  <2>3. /\ status[x] = "none" /\ (d # x => status'[d] = status[d])
        /\ Type[x] # "PERIOD_CLOSE"
    BY <1>0, <2>2, OfficeTypes DEF Create
  <2>q. QED
    BY <2>3, StatusFacts
<1>5. CASE OfficeStep
  <2>1. OfficeMove
    BY <1>0, <1>5, OfficeMoves DEF OfficeStep
  <2>2. CASE Begins \/ Drops \/ Finds \/ Rests \/ LedgerPosts \/ Publishes
    BY <1>2, <2>2 DEF Begins, Drops, Finds, Rests, LedgerPosts, JobStep, Publishes
  <2>3. ASSUME NEW h \in Handler, Decide(h) \/ Record(h)
        PROVE  UNCHANGED status
    BY <2>3 DEF Decide, Record
  <2>q. QED
    BY <1>2, <1>3, <1>4, <2>1, <2>2, <2>3 DEF OfficeMove
<1>6. CASE FieldStep
  <2>1. Touches
    BY <1>6, FieldTouches DEF DeedInv
  <2>2. CASE \E c \in Capture : BroughtAbout(c, d)
    <3>1. PICK c \in Capture : BroughtAbout(c, d)
      BY <2>2
    <3>2. ~Stored(c) /\ Type[d] # "PERIOD_CLOSE"
      BY <3>1, FieldDocuments DEF BroughtAbout, Stored
    <3>3. status[d] \in {"absent", "none"}
      BY <3>1, <3>2 DEF BroughtAbout, DeedInv, RowsAhead
    <3>q. QED
      BY <3>2, <3>3, StatusFacts
  <2>q. QED
    BY <1>1, <2>1, <2>2 DEF Touches
<1>7. CASE UNCHANGED vars
  BY <1>2, <1>7 DEF vars, officeVars
<1>q. QED
  BY <1>5, <1>6, <1>7, StepKinds DEF DeedInv

\* Only a write on a stale read spoils what was decided: an approved, posted
\* or rejected document keeps its status, and a close zeroes every revenue and
\* expense account, unless the writer was overtaken since it read.
THEOREM TimelyWritesAreSafe == Spec => OnlyLateWritesSpoil
<1>1. Init => DeedInv
  BY DeedsBegin
<1>2. DeedInv /\ [Next]_vars => DeedInv'
  BY DeedsStay
<1>3. DeedInv /\ [Next]_vars =>
         [\A d \in Doc \ raced' :
            /\ status[d] \in Final => status'[d] = status[d]
            /\ Type[d] = "PERIOD_CLOSE" /\ status[d] # "POSTED" /\ status'[d] = "POSTED"
               => \A a \in PnL : balance'[a] = 0]_officeVars
  BY TimelySpoilsNothing
<1>q. QED
  BY <1>1, <1>2, <1>3, PTL DEF Spec, OnlyLateWritesSpoil

--------------------------------------------------------------------------------
(* What a document brings about.                                            *)

\* The same for one document whose row says s, c and e.
Brought(d, s, c, e) ==
    /\ e \in {<<>>, <<c>>}
    /\ e # <<>> => s \in Agreed
    /\ s \in Agreed /\ Type[d] \in {"AGENT_ONBOARDING", "EXPENSE_REQUEST"} => e # <<>>

AgentsOnce == \A d \in Doc : Type[d] = "AGENT_ONBOARDING" => Len(effects[d]) <= 1
BroughtOnce == \A d \in Doc \ raced : Brought(d, status[d], cost[d], effects[d])

EffectInv == DeedInv /\ AgentsOnce /\ BroughtOnce /\ PublishersOK

LEMMA EffectInvSuffices == EffectInv => EffectsOnce
BY DEF EffectInv, AgentsOnce, BroughtOnce, Brought, EffectsOnce

PublishersNarrow ==
    \A k \in Handler : job'[k].at = "publish" =>
        job[k].at = "publish" /\ job'[k].doc = job[k].doc /\ job'[k].cost = job[k].cost

\* Where nothing is published and nothing agreed upon.
LEMMA EffectsRest ==
    ASSUME EffectInv, DeedInv', PublishersNarrow, UNCHANGED effects, raced \subseteq raced',
           \A d \in Doc \ raced' : \/ status'[d] = status[d] /\ cost'[d] = cost[d]
                                   \/ status[d] \notin Agreed /\ status'[d] \notin Agreed
    PROVE  EffectInv'
<1>1. AgentsOnce'
  BY DEF EffectInv, AgentsOnce
<1>2. BroughtOnce'
  BY DEF EffectInv, BroughtOnce, Brought
<1>3. PublishersOK'
  <2> SUFFICES ASSUME NEW d \in Doc \ raced', NEW h \in Handler, Publisher(job'[h], d)
               PROVE  /\ effects[d] = <<>> /\ status'[d] \in Agreed /\ job'[h].cost = cost'[d]
                      /\ \A k \in Handler : Publisher(job'[k], d) => k = h
    BY DEF PublishersOK
  <2>1. Publisher(job[h], d) /\ job'[h].cost = job[h].cost
    BY DEF PublishersNarrow, Publisher
  <2>2. /\ effects[d] = <<>> /\ status[d] \in Agreed /\ job[h].cost = cost[d]
        /\ \A k \in Handler : Publisher(job[k], d) => k = h
    BY <2>1 DEF EffectInv, PublishersOK
  <2>3. \A k \in Handler : Publisher(job'[k], d) => Publisher(job[k], d)
    BY DEF PublishersNarrow, Publisher
  <2>q. QED
    BY <2>1, <2>2, <2>3
<1>q. QED
  BY <1>1, <1>2, <1>3 DEF EffectInv

LEMMA OnePublisherFewer ==
    ASSUME OfficeTypeOK, NEW h \in Handler, NEW q, q.at # "publish", job' = [job EXCEPT ![h] = q]
    PROVE  PublishersNarrow /\ job'[h].at # "publish" /\ \A k \in Handler \ {h} : job'[k] = job[k]
<1>1. job'[h] = q /\ \A k \in Handler \ {h} : job'[k] = job[k]
  BY JobStepEffect
<1>q. QED
  BY <1>1 DEF PublishersNarrow

\* An amount that goes out.
LEMMA PublishKeepsEffects ==
    ASSUME EffectInv, DeedInv', NEW h \in Handler, job[h].at = "publish",
           effects' = [effects EXCEPT ![job[h].doc] = Append(@, job[h].cost)],
           job' = [job EXCEPT ![h] = Idle], UNCHANGED <<status, cost, raced>>
    PROVE  EffectInv'
<1>0. /\ OfficeTypeOK /\ JobOK(job[h]) /\ job[h].doc \in Doc
      /\ \A d \in Doc \ {job[h].doc} : effects'[d] = effects[d]
      /\ effects'[job[h].doc] = Append(effects[job[h].doc], job[h].cost)
  BY OfficeTypes DEF EffectInv, DeedInv, FieldInv, FieldTypeOK, JobsOK
<1>1. PublishersNarrow /\ job'[h].at # "publish" /\ \A k \in Handler \ {h} : job'[k] = job[k]
  <2>1. Idle.at # "publish"
    BY IdleType
  <2>q. QED
    BY <1>0, <2>1, OnePublisherFewer
<1>2. AgentsOnce'
  <2>1. Type[job[h].doc] # "AGENT_ONBOARDING"
    BY <1>0 DEF JobOK
  <2>q. QED
    BY <1>0, <2>1 DEF EffectInv, AgentsOnce
<1>3. ASSUME job[h].doc \notin raced
      PROVE  /\ effects[job[h].doc] = <<>> /\ status[job[h].doc] \in Agreed
             /\ job[h].cost = cost[job[h].doc]
             /\ \A k \in Handler : Publisher(job[k], job[h].doc) => k = h
  <2>1. Publisher(job[h], job[h].doc)
    BY DEF Publisher
  <2>q. QED
    BY <1>0, <1>3, <2>1 DEF EffectInv, PublishersOK
<1>4. BroughtOnce'
  <2> SUFFICES ASSUME NEW d \in Doc \ raced
               PROVE  Brought(d, status[d], cost[d], effects'[d])
    BY DEF BroughtOnce
  <2>1. CASE d # job[h].doc
    BY <1>0, <2>1 DEF EffectInv, BroughtOnce
  <2>2. CASE d = job[h].doc
    <3>1. effects'[d] = Append(<<>>, cost[d])
      BY <1>0, <1>3, <2>2
    <3>2. Append(<<>>, cost[d]) = <<cost[d]>> /\ <<cost[d]>> # <<>>
      OBVIOUS
    <3>q. QED
      BY <1>3, <2>2, <3>1, <3>2 DEF Brought
  <2>q. QED
    BY <2>1, <2>2
<1>5. PublishersOK'
  <2> SUFFICES ASSUME NEW d \in Doc \ raced, NEW k \in Handler, Publisher(job'[k], d)
               PROVE  /\ effects'[d] = <<>> /\ status[d] \in Agreed /\ job'[k].cost = cost[d]
                      /\ \A g \in Handler : Publisher(job'[g], d) => g = k
    BY DEF PublishersOK
  <2>1. k # h /\ job'[k] = job[k] /\ Publisher(job[k], d)
    BY <1>1 DEF Publisher
  <2>2. /\ effects[d] = <<>> /\ status[d] \in Agreed /\ job[k].cost = cost[d]
        /\ \A g \in Handler : Publisher(job[g], d) => g = k
    BY <2>1 DEF EffectInv, PublishersOK
  <2>3. d # job[h].doc
    BY <2>1, <2>2 DEF Publisher
  <2>4. \A g \in Handler : Publisher(job'[g], d) => Publisher(job[g], d)
    BY <1>1 DEF Publisher
  <2>q. QED
    BY <1>0, <2>1, <2>2, <2>3, <2>4
<1>q. QED
  BY <1>2, <1>4, <1>5 DEF EffectInv

LEMMA AppendOnce == \A x : Append(<<>>, x) = <<x>> /\ <<x>> # <<>> /\ Len(<<x>>) = 1 /\ Len(<<>>) = 0
OBVIOUS

\* A document that is written.
LEMMA WriteKeepsEffects ==
    ASSUME EffectInv, DeedInv', NEW h \in Handler, NEW books \in BOOLEAN,
           NEW s, NEW g, NEW c, NEW e, NEW next,
           Write(h, s, g, c, e, books, next), Writable(h, s, g, c, e, books, next)
    PROVE  EffectInv'
<1>0. OfficeTypeOK /\ JobsOK /\ DeedInv
  BY DEF EffectInv, DeedInv, FieldInv, FieldTypeOK
<1>1. PICK d : d = job[h].doc
  OBVIOUS
<1>2. /\ d \in Doc
      /\ \A x \in Doc \ {d} : status'[x] = status[x] /\ cost'[x] = cost[x] /\ effects'[x] = effects[x]
      /\ status'[d] = s /\ cost'[d] = c /\ effects'[d] = e
      /\ raced \subseteq raced'
  BY <1>0, <1>1, OfficeTypes DEF Write
<1>3. /\ job'[h] = next
      /\ \A k \in Handler \ {h} : Spared(job'[k], job[k], job[h].doc, books)
  <2>1. Overtake(h, job[h].doc, books, next)
    BY DEF Write
  <2>q. QED
    BY <1>0, <2>1, OvertakeEffect
<1>4. \A k \in Handler \ {h} : \A x : Publisher(job'[k], x) <=> Publisher(job[k], x)
  BY <1>3 DEF Spared, Same, Publisher
<1>5. \A k \in Handler \ {h} : job'[k].cost = job[k].cost
  BY <1>3 DEF Spared, Same
<1>6. \/ next = Idle
      \/ Moved(next, job[h], "publish") /\ job[h].at = "write"
  <2>1. /\ s = status[job[h].doc] \/ s \in Past
        /\ g \in Level /\ c \in Int /\ e \in Seq(Int)
        /\ next \in Jobs
        /\ \/ next = Idle
           \/ Moved(next, job[h], "publish") /\ job[h].at = "write"
        /\ job[h].at \in {"write", "insert", "submit"}
    BY <1>0, WritableType
  <2>q. QED
    BY <2>1
<1>7. \A x \in Doc \ {d} : ~Publisher(job'[h], x)
  BY <1>1, <1>3, <1>6, IdleType DEF Moved, Publisher
<1>8. AgentsOnce'
  <2>1. Type[d] = "AGENT_ONBOARDING" => e = effects[d] \/ (effects[d] = <<>> /\ e = Append(<<>>, job[h].cost))
    BY <1>1 DEF Writable
  <2>2. Type[d] = "AGENT_ONBOARDING" => Len(e) <= 1
    BY <1>2, <2>1, AppendOnce DEF EffectInv, AgentsOnce
  <2>q. QED
    BY <1>2, <2>2 DEF EffectInv, AgentsOnce
<1>9. ASSUME d \notin raced'
      PROVE  /\ Brought(d, s, c, e)
             /\ \A k \in Handler : Publisher(job'[k], d) =>
                   /\ e = <<>> /\ s \in Agreed /\ job'[k].cost = c
                   /\ \A i \in Handler : Publisher(job'[i], d) => i = k
  <2>1. /\ d \notin raced /\ status[d] \notin Final
        /\ \/ job[h].at = "insert" \/ job[h].at = "submit"
           \/ job[h].at = "write" /\ (Deciding(job[h]) \/ Closing(job[h]) \/ job[h].act = "post")
        /\ Deciding(job[h]) => status[d] \in Pending /\ job[h].cost = cost[d]
        /\ job[h].act = "post" /\ job[h].at = "write" => job[h].cost = cost[d]
    BY <1>0, <1>1, <1>9, TimelyWrite
  <2>2. status[d] \notin Agreed
    BY <2>1, StatusFacts
  <2>3. effects[d] = <<>> /\ \A k \in Handler : ~Publisher(job[k], d)
    BY <1>2, <2>1, <2>2 DEF EffectInv, BroughtOnce, Brought, PublishersOK
  <2>4. \A k \in Handler \ {h} : ~Publisher(job'[k], d)
    BY <1>4, <2>3
  <2>5. JobOK(job[h])
    BY <1>0 DEF JobsOK
  <2>6. \/ s \notin Agreed /\ e = <<>> /\ next = Idle
        \/ s \in Agreed /\ e = <<>> /\ next = Idle /\ Type[d] \notin {"AGENT_ONBOARDING", "EXPENSE_REQUEST"}
        \/ s \in Agreed /\ e = Append(<<>>, c) /\ next = Idle
        \/ /\ s \in Agreed /\ e = <<>> /\ next = [job[h] EXCEPT !.at = "publish"] /\ job[h].cost = c
           /\ Type[d] \notin {"AGENT_ONBOARDING", "EXPENSE_REQUEST"}
    <3>1. "PENDING_APPROVAL" \notin Agreed /\ "REJECTED" \notin Agreed /\ "POSTED" \in Agreed
      BY StatusFacts
    <3>2. CASE job[h].at = "write" /\ job[h].act = "approve"
      BY <1>1, <2>1, <2>2, <2>3, <3>2, Zenon DEF Writable, Deciding
    <3>3. CASE \/ job[h].at = "write" /\ job[h].act = "reject"
               \/ job[h].at \in {"insert", "submit"}
      BY <1>1, <2>1, <2>3, <3>1, <3>3 DEF Writable
    <3>4. CASE job[h].at = "write" /\ job[h].act = "post"
      <4>1. Type[d] = "PAYROLL_RUN"
        BY <1>1, <2>5, <3>4 DEF JobOK
      <4>q. QED
        BY <1>1, <2>1, <2>3, <3>1, <3>4, <4>1 DEF Writable
    <3>5. CASE job[h].at = "write" /\ job[h].act = "close"
      <4>1. Type[d] = "PERIOD_CLOSE"
        BY <1>1, <2>5, <3>5 DEF JobOK
      <4>q. QED
        BY <1>1, <2>1, <2>3, <3>1, <3>5, <4>1 DEF Writable
    <3>q. QED
      BY <2>1, <3>2, <3>3, <3>4, <3>5 DEF Deciding, Closing
  <2>7. Brought(d, s, c, e)
    BY <2>6, AppendOnce DEF Brought
  <2>8. Publisher(job'[h], d) => e = <<>> /\ s \in Agreed /\ job'[h].cost = c
    <3>1. CASE next = Idle
      BY <1>3, <3>1, IdleType DEF Publisher
    <3>2. CASE next # Idle
      <4>1. job'[h].cost = job[h].cost
        BY <1>3, <1>6, <3>2 DEF Moved
      <4>q. QED
        BY <2>6, <3>2, <4>1
    <3>q. QED
      BY <3>1, <3>2
  <2>q. QED
    BY <2>4, <2>7, <2>8
<1>10. BroughtOnce'
  BY <1>2, <1>9 DEF EffectInv, BroughtOnce
<1>11. PublishersOK'
  <2> SUFFICES ASSUME NEW x \in Doc \ raced', NEW k \in Handler, Publisher(job'[k], x)
               PROVE  /\ effects'[x] = <<>> /\ status'[x] \in Agreed /\ job'[k].cost = cost'[x]
                      /\ \A i \in Handler : Publisher(job'[i], x) => i = k
    BY DEF PublishersOK
  <2>1. CASE x = d
    BY <1>2, <1>9, <2>1
  <2>2. CASE x # d
    <3>1. k # h /\ Publisher(job[k], x)
      BY <1>4, <1>7, <2>2
    <3>2. /\ effects[x] = <<>> /\ status[x] \in Agreed /\ job[k].cost = cost[x]
          /\ \A i \in Handler : Publisher(job[i], x) => i = k
      BY <1>2, <3>1 DEF EffectInv, PublishersOK
    <3>3. \A i \in Handler : Publisher(job'[i], x) => i # h /\ Publisher(job[i], x)
      BY <1>4, <1>7, <2>2
    <3>q. QED
      BY <1>2, <1>5, <2>2, <3>1, <3>2, <3>3
  <2>q. QED
    BY <2>1, <2>2
<1>q. QED
  BY <1>8, <1>10, <1>11 DEF EffectInv


\* The effects as a step leaves rows and what is published alone.
LEMMA EffectsUntouched ==
    ASSUME EffectInv, DeedInv', PublishersNarrow, UNCHANGED <<status, cost, effects, raced>>
    PROVE  EffectInv'
BY EffectsRest

\* The office brings about once what it brings about.
LEMMA OfficeKeepsEffects ==
    ASSUME EffectInv, DeedInv', OfficeMove
    PROVE  EffectInv'
<1>0. OfficeTypeOK /\ JobsOK /\ ChainOK /\ DeedInv
  BY DEF EffectInv, DeedInv, FieldInv, FieldTypeOK
<1>1. ASSUME NEW h \in Handler, NEW q, q.at # "publish", JobStep(h, q)
      PROVE  EffectInv'
  <2>1. job' = [job EXCEPT ![h] = q] /\ UNCHANGED <<status, cost, effects, raced>>
    BY <1>1 DEF JobStep
  <2>2. PublishersNarrow /\ job'[h].at # "publish" /\ \A k \in Handler \ {h} : job'[k] = job[k]
    BY <1>0, <1>1, <2>1, OnePublisherFewer
  <2>q. QED
    BY <2>1, <2>2, EffectsUntouched
<1>2. CASE Begins
  <2>1. PICK h \in Handler : \E q : Starting(q) /\ JobStep(h, q)
    BY <1>2 DEF Begins
  <2>2. PICK q : Starting(q) /\ JobStep(h, q)
    BY <2>1
  <2>3. q.at # "publish"
    BY <2>2 DEF Starting
  <2>q. QED
    BY <1>1, <2>2, <2>3
<1>3. CASE Drops
  <2>1. PICK h \in Handler : JobStep(h, Idle)
    BY <1>3 DEF Drops
  <2>2. Idle.at # "publish"
    BY IdleType
  <2>q. QED
    BY <1>1, <2>1, <2>2
<1>4. CASE Finds
  <2>1. PICK h \in Handler : JobStep(h, [job[h] EXCEPT !.at = "write", !.old = FALSE])
    BY <1>4 DEF Finds
  <2>2. PICK q : q = [job[h] EXCEPT !.at = "write", !.old = FALSE]
    OBVIOUS
  <2>3. Moved(q, job[h], "write")
    BY <1>0, <2>2, FoundType, OfficeTypes
  <2>4. q.at # "publish" /\ JobStep(h, q)
    BY <2>1, <2>2, <2>3 DEF Moved
  <2>q. QED
    BY <1>1, <2>4
<1>5. CASE Writes
  <2>1. PICK h \in Handler, books \in BOOLEAN : \E s, g, c, e, next :
           Write(h, s, g, c, e, books, next) /\ Writable(h, s, g, c, e, books, next)
    BY <1>5 DEF Writes
  <2>2. PICK s, g, c, e, next :
           Write(h, s, g, c, e, books, next) /\ Writable(h, s, g, c, e, books, next)
    BY <2>1
  <2>q. QED
    BY <2>2, WriteKeepsEffects
<1>6. CASE Publishes
  BY <1>6, PublishKeepsEffects DEF Publishes
<1>7. CASE LedgerPosts
  <2>1. /\ \E p : job' = [h \in Handler |-> Outdated(job[h], p, TRUE)]
        /\ UNCHANGED <<status, cost, effects, raced>>
    BY <1>7 DEF LedgerPosts
  <2>2. PICK p : job' = [h \in Handler |-> Outdated(job[h], p, TRUE)]
    BY <2>1
  <2>3. \A k \in Handler : Spared(job'[k], job[k], p, TRUE)
    BY <1>0, <2>2, OutdatedSpared, OfficeTypes
  <2>4. PublishersNarrow
    BY <2>3 DEF Spared, Same, PublishersNarrow
  <2>q. QED
    BY <2>1, <2>4, EffectsUntouched
<1>8. CASE Creates
  <2>1. PICK x \in Doc : \E s, c : Create(x, s, c)
    BY <1>8 DEF Creates
  <2>2. PICK s, c : Create(x, s, c)
    BY <2>1
  <2>3. /\ status[x] \notin Agreed /\ s \notin Agreed
        /\ \A d \in Doc \ {x} : status'[d] = status[d] /\ cost'[d] = cost[d]
        /\ status'[x] = s /\ UNCHANGED <<effects, job, raced>>
    BY <1>0, <2>2, OfficeTypes, StatusFacts DEF Create
  <2>4. PublishersNarrow
    BY <2>3 DEF PublishersNarrow
  <2>q. QED
    BY <2>3, <2>4, EffectsRest
<1>9. CASE Rests
  BY <1>9, EffectsUntouched DEF Rests, PublishersNarrow
<1>10. ASSUME NEW h \in Handler, Decide(h)
       PROVE  EffectInv'
  <2>1. PICK q \in Jobs : q.at = "record" /\ JobStep(h, q)
    BY <1>0, <1>10, DecideEffect
  <2>q. QED
    BY <1>1, <2>1
<1>11. ASSUME NEW h \in Handler, Record(h)
       PROVE  EffectInv'
  <2>1. PICK r : r = [prev |-> job[h].last, doc |-> job[h].doc, stage |-> job[h].stage,
                      amount |-> job[h].cost, by |-> job[h].by, ok |-> job[h].ok]
    OBVIOUS
  <2>2. /\ job[h].at = "record"
        /\ \/ job'[h] = Idle
           \/ /\ job[h].ok /\ job[h].act = "post"
              /\ Moved(job'[h], job[h], "find") /\ job'[h].old = job[h].old
           \/ /\ job[h].ok /\ job[h].act # "post"
              /\ Moved(job'[h], job[h], "write") /\ job'[h].old = job[h].old
        /\ \A k \in Handler \ {h} :
              /\ Same(job'[k], job[k]) /\ job'[k].last = job[k].last
              /\ job'[k].old = job[k].old
              /\ job[k].at = "record" => job'[k].behind
        /\ UNCHANGED <<status, stage, cost, effects, raced, balance>>
    BY <1>0, <1>11, <2>1, RecordEffect
  <2>3. job'[h].at # "publish"
    BY <2>2, IdleType DEF Moved
  <2>4. PublishersNarrow
    BY <2>2, <2>3 DEF PublishersNarrow, Same
  <2>q. QED
    BY <2>2, <2>4, EffectsUntouched
<1>q. QED
  BY <1>2, <1>3, <1>4, <1>5, <1>6, <1>7, <1>8, <1>9, <1>10, <1>11 DEF OfficeMove

LEMMA EffectsStay ==
    ASSUME EffectInv, [Next]_vars
    PROVE  EffectInv'
<1>0. OfficeTypeOK /\ JobsOK /\ FieldInv /\ DeedInv
  BY DEF EffectInv, DeedInv, FieldInv, FieldTypeOK
<1>1. DeedInv'
  BY <1>0, DeedsStay
<1>2. CASE OfficeStep
  <2>1. OfficeMove
    BY <1>0, <1>2, OfficeMoves DEF OfficeStep
  <2>q. QED
    BY <1>1, <2>1, OfficeKeepsEffects
<1>3. CASE FieldStep
  <2>1. Touches /\ UNCHANGED <<cost, effects, job, raced>>
    BY <1>0, <1>3, FieldTouches DEF FieldStep, FieldStays, KeepsOffice
  <2>2. ASSUME NEW d \in Doc, status'[d] # status[d]
        PROVE  status[d] \notin Agreed /\ status'[d] \notin Agreed
    <3>1. PICK c \in Capture : BroughtAbout(c, d)
      BY <2>1, <2>2 DEF Touches
    <3>2. ~Stored(c)
      BY <3>1 DEF BroughtAbout, Stored
    <3>3. status[d] \in {"absent", "none"}
      BY <1>0, <3>1, <3>2 DEF BroughtAbout, DeedInv, RowsAhead
    <3>q. QED
      BY <3>1, <3>3, StatusFacts DEF BroughtAbout
  <2>3. PublishersNarrow
    BY <2>1 DEF PublishersNarrow
  <2>q. QED
    BY <1>1, <2>1, <2>2, <2>3, EffectsRest
<1>4. CASE UNCHANGED vars
  <2>1. UNCHANGED <<status, cost, effects, raced, job>>
    BY <1>4 DEF vars, officeVars
  <2>q. QED
    BY <1>1, <2>1, EffectsUntouched DEF PublishersNarrow
<1>q. QED
  BY <1>0, <1>2, <1>3, <1>4, StepKinds

LEMMA EffectsBegin ==
    ASSUME Init
    PROVE  EffectInv
<1>1. PICK scene \in Scenes : OfficeInit(scene)
  BY DEF Init
<1>2. /\ \A d \in Doc : status[d] \in {"absent", "none", "PENDING"} /\ effects[d] = <<>>
      /\ \A h \in Handler : job[h] = Idle
  BY <1>1 DEF OfficeInit, FirstStatus
<1>3. \A d \in Doc : status[d] \notin Agreed
  BY <1>2 DEF Agreed
<1>4. AgentsOnce /\ BroughtOnce
  BY <1>2, <1>3, AppendOnce DEF AgentsOnce, BroughtOnce, Brought
<1>5. PublishersOK
  BY <1>2, IdleType DEF PublishersOK, Publisher
<1>q. QED
  BY <1>4, <1>5, DeedsBegin DEF EffectInv

\* What a document brings about happens once, for the amount on its row: an
\* agent is provisioned once whatever happens, the entry of an expense and the
\* events of a repair or a payroll run as long as no write on a stale read
\* intervened (EffectsOnce).
THEOREM EffectsHappenOnce == Spec => []EffectsOnce
<1>1. Init => EffectInv
  BY EffectsBegin
<1>2. EffectInv /\ [Next]_vars => EffectInv'
  BY EffectsStay
<1>3. EffectInv => EffectsOnce
  BY EffectInvSuffices
<1>q. QED
  BY <1>1, <1>2, <1>3, PTL DEF Spec

--------------------------------------------------------------------------------
(* The stages that were granted.                                            *)

\* The stages up to n of a document that costs c are granted in the log.
GrantIn(log, d, n, role) ==
    \E i \in DOMAIN log : /\ log[i].doc = d /\ log[i].ok /\ log[i].stage = n
                          /\ RoleOf[log[i].by] = role
BandsOf(d, c) == BandsFor(Type[d], PlantOf[d], c)
Through(log, d, c, n) ==
    /\ BandsOf(d, c) # {}
    /\ \A b \in BandsOf(d, c) : \A m \in 1 .. n : GrantIn(log, d, m, b.levels[m])
ThroughAll(log, d, c) ==
    /\ BandsOf(d, c) # {}
    /\ \A b \in BandsOf(d, c) : \A n \in StagesOf(b) : GrantIn(log, d, n, b.levels[n])

Exempt(d, late) == Type[d] = "MAINTENANCE_COMPLETION" /\ d \in late

\* A grant is one of a band, which also says whether a stage follows.
GrantOK(j) ==
    j.at \in {"record", "write"} /\ j.act = "approve" /\ j.ok =>
        \E b \in BandsOf(j.doc, j.cost) :
            /\ Authorized(b, j.stage, j.by)
            /\ j.more <=> HasNextStage(b, j.stage)
JobThrough(log, j) ==
    /\ Deciding(j) /\ j.act = "approve" /\ j.stage # 1 => Through(log, j.doc, j.cost, j.stage - 1)
    /\ j.at = "write" /\ j.act = "approve" => Through(log, j.doc, j.cost, j.stage)
DocThrough(log, d, s, g, c, e) ==
    /\ g # 1 => Through(log, d, c, g - 1)
    /\ s \in Agreed \/ e # <<>> => ThroughAll(log, d, c)

JobsThrough == \A h \in Handler : GrantOK(job[h]) /\ (~Exempt(job[h].doc, raced) => JobThrough(chain, job[h]))
DocsThrough ==
    \A d \in Doc : Type[d] \in Approvable /\ ~Exempt(d, raced) =>
        DocThrough(chain, d, status[d], stage[d], cost[d], effects[d])

\* Whichever row of the matrix governance finds, it asks for the same roles.
LEMMA OneMatrix ==
    ASSUME BandsAgree, NEW d \in Doc, NEW c \in Int,
           NEW a \in BandsOf(d, c), NEW b \in BandsOf(d, c)
    PROVE  a.levels = b.levels
<1>1. /\ a \in Bands /\ b \in Bands /\ a.type = b.type /\ a.plant = b.plant
      /\ a.min <= c /\ (a.max = NoMax \/ c < a.max)
      /\ b.min <= c /\ (b.max = NoMax \/ c < b.max)
  BY DEF BandsOf, BandsFor
<1>2. /\ a.min \in Nat /\ a.max \in Nat \cup {NoMax}
      /\ b.min \in Nat /\ b.max \in Nat \cup {NoMax}
  BY <1>1, GovernanceAssumption
<1>3. Overlap(a, b)
  BY <1>1, <1>2 DEF Overlap, NoMax
<1>q. QED
  BY <1>1, <1>3 DEF BandsAgree

GrantInv == BandsAgree /\ EffectInv /\ JobsThrough /\ DocsThrough

LEMMA GrantInvSuffices == GrantInv => GrantedStageByStage
<1> SUFFICES ASSUME GrantInv, NEW d \in Doc, Type[d] \in Approvable,
                    status[d] \in Agreed \/ effects[d] # <<>>,
                    Type[d] # "MAINTENANCE_COMPLETION" \/ d \notin raced
             PROVE  \E b \in BandsFor(Type[d], PlantOf[d], cost[d]) : GrantedBy(d, b)
  BY DEF GrantedStageByStage
<1>1. ThroughAll(chain, d, cost[d])
  BY DEF GrantInv, DocsThrough, DocThrough, Exempt
<1>2. PICK b \in BandsOf(d, cost[d]) : \A n \in StagesOf(b) : GrantIn(chain, d, n, b.levels[n])
  BY <1>1 DEF ThroughAll
<1>q. QED
  BY <1>2 DEF BandsOf, GrantedBy, GrantIn

\* What is granted stays granted.
Longer(a, b) == \A d, n, role : GrantIn(a, d, n, role) => GrantIn(b, d, n, role)

LEMMA ThroughLonger ==
    ASSUME NEW a, NEW b, Longer(a, b)
    PROVE  /\ \A d, c, n : Through(a, d, c, n) => Through(b, d, c, n)
           /\ \A d, c : ThroughAll(a, d, c) => ThroughAll(b, d, c)
           /\ \A j : JobThrough(a, j) => JobThrough(b, j)
           /\ \A d, s, g, c, e : DocThrough(a, d, s, g, c, e) => DocThrough(b, d, s, g, c, e)
<1>1. \A d, c, n : Through(a, d, c, n) => Through(b, d, c, n)
  BY DEF Through, Longer
<1>2. \A d, c : ThroughAll(a, d, c) => ThroughAll(b, d, c)
  BY DEF ThroughAll, Longer
<1>3. \A j : JobThrough(a, j) => JobThrough(b, j)
  BY <1>1 DEF JobThrough
<1>4. \A d, s, g, c, e : DocThrough(a, d, s, g, c, e) => DocThrough(b, d, s, g, c, e)
  BY <1>1, <1>2 DEF DocThrough
<1>q. QED
  BY <1>1, <1>2, <1>3, <1>4

LEMMA AppendGrants ==
    ASSUME NEW log \in Seq(Entries), NEW r \in Entries, NEW more, more = Append(log, r)
    PROVE  Longer(log, more) /\ (r.ok => GrantIn(more, r.doc, r.stage, RoleOf[r.by]))
<1>1. /\ DOMAIN log = 1 .. Len(log) /\ DOMAIN more = 1 .. Len(log) + 1 /\ Len(log) \in Nat
      /\ \A i \in 1 .. Len(log) : more[i] = log[i]
      /\ more[Len(log) + 1] = r
  BY AppendProperties, LenProperties
<1>2. \A i \in DOMAIN log : i \in DOMAIN more /\ more[i] = log[i]
  BY <1>1
<1>3. Len(log) + 1 \in DOMAIN more
  BY <1>1
<1>4. Longer(log, more)
  BY <1>2 DEF Longer, GrantIn
<1>q. QED
  BY <1>1, <1>3, <1>4 DEF GrantIn

\* The stage that a request is granted joins the ones before it.
LEMMA NextGrant ==
    ASSUME BandsAgree, NEW log \in Seq(Entries), NEW j \in Jobs, JobThrough(log, j), GrantOK(j),
           j.at = "record", j.act = "approve", j.ok,
           NEW r \in Entries, r.doc = j.doc, r.stage = j.stage, r.by = j.by, r.ok,
           NEW more, more = Append(log, r)
    PROVE  Through(more, j.doc, j.cost, j.stage)
<1>1. PICK b \in BandsOf(j.doc, j.cost) : Authorized(b, j.stage, j.by)
  BY DEF GrantOK
<1>2. j.stage \in Level
  BY DEF Jobs
<1>3. RoleOf[j.by] = b.levels[j.stage]
  BY <1>1, <1>2 DEF Authorized, RoleIdForStage
<1>4. GrantIn(more, j.doc, j.stage, b.levels[j.stage]) /\ Longer(log, more)
  BY <1>3, AppendGrants
<1>5. \A a \in BandsOf(j.doc, j.cost) : a.levels = b.levels
  BY OneMatrix DEF Jobs
<1>6. j.stage # 1 => Through(more, j.doc, j.cost, j.stage - 1)
  <2>1. Deciding(j)
    BY DEF Deciding
  <2>2. j.stage # 1 => Through(log, j.doc, j.cost, j.stage - 1)
    BY <2>1 DEF JobThrough
  <2>q. QED
    BY <1>4, <2>2, ThroughLonger
<1>7. ASSUME NEW a \in BandsOf(j.doc, j.cost), NEW m \in 1 .. j.stage
      PROVE  GrantIn(more, j.doc, m, a.levels[m])
  <2>1. CASE m = j.stage
    BY <1>4, <1>5, <2>1
  <2>2. CASE m # j.stage
    <3>1. j.stage # 1 /\ m \in 1 .. j.stage - 1
      BY <1>2, <2>2 DEF Level
    <3>q. QED
      BY <1>6, <3>1 DEF Through
  <2>q. QED
    BY <2>1, <2>2
<1>q. QED
  BY <1>1, <1>7 DEF Through

\* After the last stage of its band nothing is left to grant.
LEMMA LastGrant ==
    ASSUME BandsAgree, NEW log, NEW j \in Jobs, GrantOK(j), j.at = "write", j.act = "approve",
           j.ok, ~j.more, Through(log, j.doc, j.cost, j.stage)
    PROVE  ThroughAll(log, j.doc, j.cost)
<1>1. PICK b \in BandsOf(j.doc, j.cost) : ~HasNextStage(b, j.stage)
  BY DEF GrantOK
<1>2. j.stage \in Level
  BY DEF Jobs
<1>3. ASSUME NEW a \in BandsOf(j.doc, j.cost), NEW n \in StagesOf(a)
      PROVE  GrantIn(log, j.doc, n, a.levels[n])
  <2>1. a.levels = b.levels
    BY OneMatrix DEF Jobs
  <2>2. n \in Level /\ \A m \in 1 .. n : a.levels[m] # NoRole
    BY DEF StagesOf
  <2>3. n \in 1 .. j.stage
    <3>1. CASE n > j.stage
      <4>1. j.stage < 3 /\ j.stage + 1 \in Level /\ j.stage + 1 \in 1 .. n
        BY <1>2, <2>2, <3>1 DEF Level
      <4>2. b.levels[j.stage + 1] # NoRole
        BY <2>1, <2>2, <4>1
      <4>q. QED
        BY <1>1, <4>1, <4>2 DEF HasNextStage, RoleIdForStage
    <3>q. QED
      BY <1>2, <2>2, <3>1 DEF Level
  <2>q. QED
    BY <2>3 DEF Through
<1>q. QED
  BY <1>1, <1>3 DEF ThroughAll

\* A request is through what it was through as long as it is the same.
LEMMA SameThrough ==
    ASSUME NEW i, NEW j, Same(i, j)
    PROVE  /\ GrantOK(j) => GrantOK(i)
           /\ \A log : JobThrough(log, j) => JobThrough(log, i)
BY DEF Same, GrantOK, JobThrough, Deciding

\* Requests to which no stage matters.
LEMMA NoStage ==
    ASSUME NEW j, j.at \notin {"ask", "record", "write"} \/ j.act # "approve"
    PROVE  GrantOK(j) /\ \A log : JobThrough(log, j)
BY DEF GrantOK, JobThrough, Deciding

LEMMA ExemptStays ==
    ASSUME raced \subseteq raced'
    PROVE  \A d \in Doc : Exempt(d, raced) => Exempt(d, raced')
BY DEF Exempt

\* One request moves and no row changes.
LEMMA StepKeepsGrants ==
    ASSUME GrantInv, EffectInv', NEW h \in Handler, NEW q, JobStep(h, q), q.doc \in Doc, GrantOK(q),
           ~Exempt(q.doc, raced) => JobThrough(chain, q)
    PROVE  GrantInv'
<1>0. OfficeTypeOK
  BY DEF GrantInv, EffectInv, DeedInv, FieldInv, FieldTypeOK
<1>1. /\ job' = [job EXCEPT ![h] = q]
      /\ UNCHANGED <<status, stage, cost, effects, raced, chain>>
  BY DEF JobStep
<1>2. job'[h] = q /\ \A k \in Handler \ {h} : job'[k] = job[k]
  BY <1>0, <1>1, JobStepEffect
<1>4. DocsThrough'
  BY <1>1 DEF GrantInv, DocsThrough
<1>5. ASSUME NEW k \in Handler
      PROVE  GrantOK(job'[k]) /\ (~Exempt(job'[k].doc, raced) => JobThrough(chain, job'[k]))
  <2>1. CASE k = h
    BY <1>2, <2>1
  <2>2. CASE k # h
    BY <1>2, <2>2 DEF GrantInv, JobsThrough
  <2>q. QED
    BY <2>1, <2>2
<1>6. JobsThrough'
  BY <1>1, <1>5 DEF JobsThrough
<1>q. QED
  BY <1>4, <1>6 DEF GrantInv

\* The requests stay what they are, and rows change where nothing is decided.
LEMMA RowsKeepGrants ==
    ASSUME GrantInv, EffectInv', raced \subseteq raced', UNCHANGED chain,
           \A k \in Handler : Same(job'[k], job[k]),
           \A d \in Doc : Type[d] \in Approvable /\ ~Exempt(d, raced') /\ ~Exempt(d, raced) =>
               DocThrough(chain, d, status'[d], stage'[d], cost'[d], effects'[d])
    PROVE  GrantInv'
<1>0. OfficeTypeOK
  BY DEF GrantInv, EffectInv, DeedInv, FieldInv, FieldTypeOK
<1>1. \A d \in Doc : Exempt(d, raced) => Exempt(d, raced')
  BY ExemptStays
<1>2. DocsThrough'
  BY <1>1 DEF DocsThrough
<1>3. ASSUME NEW k \in Handler
      PROVE  GrantOK(job'[k]) /\ (~Exempt(job'[k].doc, raced') => JobThrough(chain, job'[k]))
  <2>1. job[k].doc \in Doc /\ job'[k].doc = job[k].doc
    BY <1>0, OfficeTypes DEF Same
  <2>2. GrantOK(job[k]) /\ (~Exempt(job[k].doc, raced) => JobThrough(chain, job[k]))
    BY DEF GrantInv, JobsThrough
  <2>3. ~Exempt(job'[k].doc, raced') => ~Exempt(job[k].doc, raced)
    BY <2>1 DEF Exempt
  <2>q. QED
    BY <2>2, <2>3, SameThrough
<1>4. JobsThrough'
  BY <1>3 DEF JobsThrough
<1>q. QED
  BY <1>2, <1>4 DEF GrantInv

\* governance-service grants a stage of one band.
LEMMA DecideKeepsGrants ==
    ASSUME GrantInv, EffectInv', NEW h \in Handler, Decide(h)
    PROVE  GrantInv'
<1>0. OfficeTypeOK /\ JobsOK /\ ChainOK
  BY DEF GrantInv, EffectInv, DeedInv, FieldInv, FieldTypeOK
<1>1. /\ job[h].at = "ask"
      /\ \E answer \in Answers(job[h]) : \E q \in Jobs :
            /\ answer.more => job[h].stage < 3
            /\ q.at = "record" /\ q.act = job[h].act /\ q.doc = job[h].doc /\ q.by = job[h].by
            /\ q.stage = job[h].stage /\ q.cost = job[h].cost /\ q.read = job[h].read
            /\ q.ok = answer.ok /\ q.more = answer.more /\ q.last = LastRow
            /\ q.old = job[h].old /\ q.behind = FALSE
            /\ JobStep(h, q)
  BY <1>0, DecideEffect
<1>2. PICK answer \in Answers(job[h]), q \in Jobs :
         /\ q.at = "record" /\ q.act = job[h].act /\ q.doc = job[h].doc /\ q.by = job[h].by
         /\ q.stage = job[h].stage /\ q.cost = job[h].cost
         /\ q.ok = answer.ok /\ q.more = answer.more /\ JobStep(h, q)
  BY <1>1
<1>3. q.doc \in Doc /\ JobOK(job[h]) /\ GrantOK(job[h])
      /\ (~Exempt(job[h].doc, raced) => JobThrough(chain, job[h]))
  BY <1>0, <1>2, OfficeTypes DEF JobsOK, GrantInv, JobsThrough
<1>4. ASSUME q.act = "approve", q.ok
      PROVE  \E b \in BandsOf(q.doc, q.cost) : /\ Authorized(b, q.stage, q.by)
                                               /\ q.more <=> HasNextStage(b, q.stage)
  <2>1. Type[job[h].doc] \in Approvable
    BY <1>1, <1>2, <1>3, <1>4 DEF JobOK
  <2>2. answer \in ApprovalAnswers(Type[q.doc], PlantOf[q.doc], q.cost, q.stage, q.by)
    BY <1>2, <2>1 DEF Answers
  <2>3. answer.ok
    BY <1>2, <1>4
  <2>4. PICK b \in BandsOf(q.doc, q.cost) :
           answer = [ok |-> Authorized(b, q.stage, q.by),
                     more |-> Authorized(b, q.stage, q.by) /\ HasNextStage(b, q.stage)]
    BY <2>2, <2>3 DEF ApprovalAnswers, BandsOf
  <2>5. Authorized(b, q.stage, q.by) /\ (answer.more <=> HasNextStage(b, q.stage))
    BY <2>3, <2>4
  <2>q. QED
    BY <1>2, <2>5
<1>5. GrantOK(q)
  BY <1>4 DEF GrantOK
<1>6. JobThrough(chain, job[h]) => JobThrough(chain, q)
  BY <1>1, <1>2 DEF JobThrough, Deciding
<1>q. QED
  BY <1>2, <1>3, <1>5, <1>6, StepKeepsGrants

\* The answer is recorded, and with it the stage.
LEMMA RecordKeepsGrants ==
    ASSUME GrantInv, EffectInv', NEW h \in Handler, Record(h)
    PROVE  GrantInv'
<1>0. OfficeTypeOK /\ JobsOK /\ ChainOK
  BY DEF GrantInv, EffectInv, DeedInv, FieldInv, FieldTypeOK
<1>1. PICK r : r = [prev |-> job[h].last, doc |-> job[h].doc, stage |-> job[h].stage,
                    amount |-> job[h].cost, by |-> job[h].by, ok |-> job[h].ok]
  OBVIOUS
<1>2. /\ job[h].at = "record" /\ r \in Entries /\ chain' = Append(chain, r)
      /\ \/ job'[h] = Idle
         \/ /\ job[h].ok /\ job[h].act = "post"
            /\ Moved(job'[h], job[h], "find") /\ job'[h].old = job[h].old
         \/ /\ job[h].ok /\ job[h].act # "post"
            /\ Moved(job'[h], job[h], "write") /\ job'[h].old = job[h].old
      /\ \A k \in Handler \ {h} :
            /\ Same(job'[k], job[k]) /\ job'[k].last = job[k].last
            /\ job'[k].old = job[k].old
            /\ job[k].at = "record" => job'[k].behind
      /\ UNCHANGED <<status, stage, cost, effects, raced, balance>>
  BY <1>0, <1>1, RecordEffect
<1>3. Longer(chain, chain')
  BY <1>0, <1>2, AppendGrants DEF ChainOK
<1>4. DocsThrough'
  <2> SUFFICES ASSUME NEW d \in Doc, Type[d] \in Approvable, ~Exempt(d, raced')
               PROVE  DocThrough(chain', d, status'[d], stage'[d], cost'[d], effects'[d])
    BY DEF DocsThrough
  <2>1. DocThrough(chain, d, status[d], stage[d], cost[d], effects[d])
    BY <1>2 DEF GrantInv, DocsThrough
  <2>2. DocThrough(chain', d, status[d], stage[d], cost[d], effects[d])
    BY <1>3, <2>1, ThroughLonger
  <2>q. QED
    BY <1>2, <2>2
<1>5. ASSUME NEW k \in Handler, k # h
      PROVE  GrantOK(job'[k]) /\ (~Exempt(job'[k].doc, raced) => JobThrough(chain', job'[k]))
  <2>1. Same(job'[k], job[k]) /\ job'[k].doc = job[k].doc
    BY <1>2, <1>5 DEF Same
  <2>2. GrantOK(job[k]) /\ (~Exempt(job[k].doc, raced) => JobThrough(chain, job[k]))
    BY DEF GrantInv, JobsThrough
  <2>3. GrantOK(job'[k]) /\ (JobThrough(chain, job[k]) => JobThrough(chain, job'[k]))
    BY <2>1, <2>2, SameThrough
  <2>4. JobThrough(chain, job'[k]) => JobThrough(chain', job'[k])
    BY <1>3, ThroughLonger
  <2>q. QED
    BY <2>1, <2>2, <2>3, <2>4
<1>6. GrantOK(job'[h]) /\ (~Exempt(job'[h].doc, raced) => JobThrough(chain', job'[h]))
  <2>1. CASE job'[h].at \notin {"ask", "record", "write"} \/ job'[h].act # "approve"
    BY <2>1, NoStage
  <2>2. CASE job'[h].at \in {"ask", "record", "write"} /\ job'[h].act = "approve"
    <3>1. Moved(job'[h], job[h], "write") /\ job[h].ok
      BY <1>2, <2>2, IdleType DEF Moved
    <3>2. /\ job'[h].at = "write" /\ job'[h].doc = job[h].doc /\ job'[h].stage = job[h].stage
          /\ job'[h].cost = job[h].cost /\ job'[h].by = job[h].by /\ job'[h].more = job[h].more
          /\ job[h].act = "approve"
      BY <2>2, <3>1 DEF Moved
    <3>3. GrantOK(job[h]) /\ (~Exempt(job[h].doc, raced) => JobThrough(chain, job[h]))
      BY DEF GrantInv, JobsThrough
    <3>4. GrantOK(job'[h])
      BY <1>2, <3>1, <3>2, <3>3 DEF GrantOK
    <3>5. /\ r.doc = job[h].doc /\ r.stage = job[h].stage /\ r.by = job[h].by /\ r.ok = job[h].ok
          /\ job[h] \in Jobs /\ chain \in Seq(Entries)
      BY <1>0, <1>1, OfficeTypes DEF ChainOK
    <3>6. ASSUME ~Exempt(job'[h].doc, raced)
          PROVE  Through(chain', job[h].doc, job[h].cost, job[h].stage) /\ JobThrough(chain, job[h])
      <4>1. JobThrough(chain, job[h])
        BY <3>2, <3>3, <3>6
      <4>2. PICK j, more : j = job[h] /\ more = chain'
        OBVIOUS
      <4>3. Through(more, j.doc, j.cost, j.stage)
        BY <1>2, <3>1, <3>2, <3>3, <3>5, <4>1, <4>2, NextGrant DEF GrantInv
      <4>q. QED
        BY <4>1, <4>2, <4>3
    <3>7. ASSUME ~Exempt(job'[h].doc, raced), job[h].stage # 1
          PROVE  Through(chain', job[h].doc, job[h].cost, job[h].stage - 1)
      <4>1. Through(chain, job[h].doc, job[h].cost, job[h].stage - 1)
        BY <1>2, <3>2, <3>6, <3>7 DEF JobThrough, Deciding
      <4>q. QED
        BY <1>3, <4>1, ThroughLonger
    <3>q. QED
      BY <3>2, <3>4, <3>6, <3>7 DEF JobThrough
  <2>q. QED
    BY <2>1, <2>2
<1>7. JobsThrough'
  <2>1. \A k \in Handler : GrantOK(job'[k]) /\ (~Exempt(job'[k].doc, raced) => JobThrough(chain', job'[k]))
    BY <1>5, <1>6
  <2>q. QED
    BY <1>2, <2>1 DEF JobsThrough
<1>q. QED
  BY <1>4, <1>7 DEF GrantInv

\* What is written of a document that is approved or asked about.
LEMMA WriteThrough ==
    ASSUME GrantInv, NEW h \in Handler, NEW books \in BOOLEAN,
           NEW s, NEW g, NEW c, NEW e, NEW next, NEW d, d = job[h].doc,
           Write(h, s, g, c, e, books, next), Writable(h, s, g, c, e, books, next),
           Type[d] \in Approvable, ~Exempt(d, raced')
    PROVE  DocThrough(chain, d, s, g, c, e)
<1>0. /\ OfficeTypeOK /\ JobsOK /\ DeedInv /\ job[h] \in Jobs /\ d \in Doc
      /\ Standing(job[h], status[d], stage[d], cost[d], balance) /\ JobOK(job[h])
  BY OfficeTypes DEF GrantInv, EffectInv, DeedInv, Standings, FieldInv, FieldTypeOK, JobsOK
<1>1. ~Exempt(d, raced) /\ (Type[d] = "MAINTENANCE_COMPLETION" => ~job[h].old)
  BY DEF Write, Exempt
<1>2. /\ DocThrough(chain, d, status[d], stage[d], cost[d], effects[d])
      /\ GrantOK(job[h]) /\ JobThrough(chain, job[h])
  BY <1>0, <1>1 DEF GrantInv, DocsThrough, JobsThrough
<1>3. "PENDING_APPROVAL" \notin Agreed /\ "REJECTED" \notin Agreed /\ "OPEN" \notin Past
  BY StatusFacts
<1>4. /\ "PAYROLL_RUN" \notin Approvable /\ "PERIOD_CLOSE" \notin Approvable
  BY DEF Approvable
<1>5. CASE /\ job[h].at = "write" /\ job[h].act = "approve"
           /\ c = cost[d]
           /\ \/ job[h].more /\ s = status[d] /\ g = job[h].stage + 1 /\ e = effects[d]
              \/ ~job[h].more /\ g = stage[d]
  <2>1. job[h].cost = c
    BY <1>0, <1>1, <1>5 DEF Standing, Deciding
  <2>2. Through(chain, d, c, job[h].stage)
    BY <1>2, <1>5, <2>1 DEF JobThrough
  <2>3. CASE job[h].more
    <3>1. g - 1 = job[h].stage
      BY <1>0, <1>5, <2>3 DEF Jobs, Level
    <3>q. QED
      BY <1>2, <1>5, <2>2, <2>3, <3>1 DEF DocThrough
  <2>4. CASE ~job[h].more
    <3>1. job[h].ok
      BY <1>0, <1>5 DEF JobOK
    <3>2. PICK j : j = job[h]
      OBVIOUS
    <3>3. ThroughAll(chain, j.doc, j.cost)
      BY <1>0, <1>2, <1>5, <2>1, <2>2, <2>4, <3>1, <3>2, LastGrant DEF GrantInv
    <3>q. QED
      BY <1>2, <1>5, <2>1, <2>4, <3>2, <3>3 DEF DocThrough
  <2>q. QED
    BY <2>3, <2>4
<1>6. CASE s \notin Agreed /\ g = stage[d] /\ c = cost[d] /\ e = effects[d]
  BY <1>2, <1>6 DEF DocThrough
<1>7. CASE job[h].at = "submit" /\ s = "PENDING_APPROVAL" /\ g = stage[d] /\ e = effects[d]
  <2>1. status[d] = "OPEN"
    BY <1>0, <1>1, <1>7 DEF JobOK, Standing
  <2>2. stage[d] = 1 /\ effects[d] = <<>>
    BY <1>0, <1>3, <2>1 DEF DeedInv, Asked
  <2>q. QED
    BY <1>3, <1>7, <2>2 DEF DocThrough
<1>8. CASE job[h].at = "write" /\ job[h].act \in {"post", "close"}
  BY <1>0, <1>4, <1>8 DEF JobOK
<1>9. \/ /\ job[h].at = "write" /\ job[h].act = "approve"
         /\ c = cost[d]
         /\ \/ job[h].more /\ s = status[d] /\ g = job[h].stage + 1 /\ e = effects[d]
            \/ ~job[h].more /\ g = stage[d]
      \/ s \in {"REJECTED", "PENDING_APPROVAL"} /\ g = stage[d] /\ c = cost[d] /\ e = effects[d]
      \/ job[h].at = "submit" /\ s = "PENDING_APPROVAL" /\ g = stage[d] /\ e = effects[d]
      \/ job[h].at = "write" /\ job[h].act \in {"post", "close"}
  BY Zenon DEF Writable
<1>q. QED
  BY <1>3, <1>5, <1>6, <1>7, <1>8, <1>9

LEMMA WriteKeepsGrants ==
    ASSUME GrantInv, EffectInv', NEW h \in Handler, NEW books \in BOOLEAN,
           NEW s, NEW g, NEW c, NEW e, NEW next,
           Write(h, s, g, c, e, books, next), Writable(h, s, g, c, e, books, next)
    PROVE  GrantInv'
<1>0. OfficeTypeOK /\ JobsOK
  BY DEF GrantInv, EffectInv, DeedInv, FieldInv, FieldTypeOK
<1>1. PICK d : d = job[h].doc
  OBVIOUS
<1>2. /\ d \in Doc
      /\ \A x \in Doc \ {d} : /\ status'[x] = status[x] /\ stage'[x] = stage[x]
                              /\ cost'[x] = cost[x] /\ effects'[x] = effects[x]
      /\ status'[d] = s /\ stage'[d] = g /\ cost'[d] = c /\ effects'[d] = e
      /\ raced \subseteq raced' /\ chain' = chain
  BY <1>0, <1>1, OfficeTypes DEF Write
<1>3. /\ job'[h] = next
      /\ \A k \in Handler \ {h} : Spared(job'[k], job[k], job[h].doc, books)
  <2>1. Overtake(h, job[h].doc, books, next)
    BY DEF Write
  <2>q. QED
    BY <1>0, <2>1, OvertakeEffect
<1>4. \A x \in Doc : Exempt(x, raced) => Exempt(x, raced')
  BY <1>2, ExemptStays
<1>5. next.at \notin {"ask", "record", "write"}
  <2>1. /\ s = status[job[h].doc] \/ s \in Past
        /\ g \in Level /\ c \in Int /\ e \in Seq(Int)
        /\ next \in Jobs
        /\ \/ next = Idle
           \/ Moved(next, job[h], "publish") /\ job[h].at = "write"
        /\ job[h].at \in {"write", "insert", "submit"}
    BY <1>0, WritableType
  <2>q. QED
    BY <2>1, IdleType DEF Moved
<1>6. DocsThrough'
  <2> SUFFICES ASSUME NEW x \in Doc, Type[x] \in Approvable, ~Exempt(x, raced')
               PROVE  DocThrough(chain, x, status'[x], stage'[x], cost'[x], effects'[x])
    BY <1>2 DEF DocsThrough
  <2>1. CASE x = d
    <3>1. DocThrough(chain, d, s, g, c, e)
      BY <1>1, <2>1, WriteThrough
    <3>q. QED
      BY <1>2, <2>1, <3>1
  <2>2. CASE x # d
    <3>1. DocThrough(chain, x, status[x], stage[x], cost[x], effects[x])
      BY <1>4 DEF GrantInv, DocsThrough
    <3>q. QED
      BY <1>2, <2>2, <3>1
  <2>q. QED
    BY <2>1, <2>2
<1>7. ASSUME NEW k \in Handler
      PROVE  GrantOK(job'[k]) /\ (~Exempt(job'[k].doc, raced') => JobThrough(chain, job'[k]))
  <2>1. CASE k = h
    BY <1>3, <1>5, <2>1, NoStage
  <2>2. CASE k # h
    <3>1. Same(job'[k], job[k]) /\ job'[k].doc = job[k].doc /\ job[k].doc \in Doc
      BY <1>0, <1>3, <2>2, OfficeTypes DEF Spared, Same
    <3>2. GrantOK(job[k]) /\ (~Exempt(job[k].doc, raced) => JobThrough(chain, job[k]))
      BY DEF GrantInv, JobsThrough
    <3>3. GrantOK(job'[k]) /\ (JobThrough(chain, job[k]) => JobThrough(chain, job'[k]))
      BY <3>1, <3>2, SameThrough
    <3>q. QED
      BY <1>4, <3>1, <3>2, <3>3
  <2>q. QED
    BY <2>1, <2>2
<1>8. JobsThrough'
  BY <1>2, <1>7 DEF JobsThrough
<1>q. QED
  BY <1>6, <1>8 DEF GrantInv

\* What goes out was agreed upon.
LEMMA PublishKeepsGrants ==
    ASSUME GrantInv, EffectInv', NEW h \in Handler, job[h].at = "publish",
           effects' = [effects EXCEPT ![job[h].doc] = Append(@, job[h].cost)],
           job' = [job EXCEPT ![h] = Idle], UNCHANGED <<status, stage, cost, raced, chain>>
    PROVE  GrantInv'
<1>0. OfficeTypeOK /\ JobOK(job[h]) /\ job[h].doc \in Doc
  BY OfficeTypes DEF GrantInv, EffectInv, DeedInv, FieldInv, FieldTypeOK, JobsOK
<1>1. \A d \in Doc \ {job[h].doc} : effects'[d] = effects[d]
  BY <1>0, OfficeTypes
<1>2. DocsThrough'
  <2> SUFFICES ASSUME NEW d \in Doc, Type[d] \in Approvable, ~Exempt(d, raced)
               PROVE  DocThrough(chain, d, status[d], stage[d], cost[d], effects'[d])
    BY DEF DocsThrough
  <2>1. DocThrough(chain, d, status[d], stage[d], cost[d], effects[d])
    BY DEF GrantInv, DocsThrough
  <2>2. CASE d = job[h].doc
    <3>1. Type[d] = "MAINTENANCE_COMPLETION"
      BY <1>0, <2>2 DEF JobOK, Approvable
    <3>2. d \in Doc \ raced /\ Publisher(job[h], d)
      BY <2>2, <3>1 DEF Exempt, Publisher
    <3>3. status[d] \in Agreed
      BY <3>2 DEF GrantInv, EffectInv, PublishersOK
    <3>q. QED
      BY <2>1, <3>3 DEF DocThrough
  <2>q. QED
    BY <1>1, <2>1, <2>2
<1>3. job'[h] = Idle /\ \A k \in Handler \ {h} : job'[k] = job[k]
  BY <1>0, JobStepEffect
<1>4. ASSUME NEW k \in Handler
      PROVE  GrantOK(job'[k]) /\ (~Exempt(job'[k].doc, raced) => JobThrough(chain, job'[k]))
  <2>1. CASE k = h
    BY <1>3, <2>1, IdleType, NoStage
  <2>2. CASE k # h
    BY <1>3, <2>2 DEF GrantInv, JobsThrough
  <2>q. QED
    BY <2>1, <2>2
<1>5. JobsThrough'
  BY <1>4 DEF JobsThrough
<1>q. QED
  BY <1>2, <1>5 DEF GrantInv

LEMMA SameAsBefore == \A j : Same(j, j)
BY DEF Same

\* Where a document comes about, nothing has been granted.
LEMMA NewDocument ==
    ASSUME DeedInv, NEW d \in Doc, Type[d] \in Approvable, status[d] \notin Past, NEW s, s \notin Agreed,
           NEW c
    PROVE  DocThrough(chain, d, s, stage[d], c, effects[d])
BY DEF DeedInv, Asked, DocThrough

LEMMA OfficeKeepsGrants ==
    ASSUME GrantInv, EffectInv', OfficeMove
    PROVE  GrantInv'
<1>0. OfficeTypeOK /\ JobsOK /\ ChainOK /\ DeedInv
  BY DEF GrantInv, EffectInv, DeedInv, FieldInv, FieldTypeOK
<1>1. \A d \in Doc : Type[d] \in Approvable /\ ~Exempt(d, raced) =>
         DocThrough(chain, d, status[d], stage[d], cost[d], effects[d])
  BY DEF GrantInv, DocsThrough
<1>2. CASE Begins
  <2>1. PICK h \in Handler : \E q : Starting(q) /\ JobStep(h, q)
    BY <1>2 DEF Begins
  <2>2. PICK q : Starting(q) /\ JobStep(h, q)
    BY <2>1
  <2>3. q \in Jobs /\ q.doc \in Doc
    BY <2>2 DEF Starting, Jobs
  <2>4. CASE q.act # "approve" \/ q.at # "ask"
    <3>1. q.at \notin {"ask", "record", "write"} \/ q.act # "approve"
      BY <2>2, <2>4 DEF Starting
    <3>q. QED
      BY <2>2, <2>3, <3>1, NoStage, StepKeepsGrants
  <2>5. CASE q.act = "approve" /\ q.at = "ask"
    <3>1. Type[q.doc] \in Approvable /\ q.cost = cost[q.doc] /\ q.stage = stage[q.doc]
      BY <2>2, <2>5 DEF Starting
    <3>2. GrantOK(q)
      BY <2>5 DEF GrantOK
    <3>3. ~Exempt(q.doc, raced) => JobThrough(chain, q)
      BY <1>1, <2>3, <2>5, <3>1 DEF DocThrough, JobThrough
    <3>q. QED
      BY <2>2, <2>3, <3>2, <3>3, StepKeepsGrants
  <2>q. QED
    BY <2>4, <2>5
<1>3. CASE Drops
  <2>1. PICK h \in Handler : JobStep(h, Idle)
    BY <1>3 DEF Drops
  <2>2. Idle.at = "idle" /\ Idle.doc \in Doc
    BY IdleType
  <2>3. GrantOK(Idle) /\ JobThrough(chain, Idle)
    BY <2>2, NoStage
  <2>q. QED
    BY <2>1, <2>2, <2>3, StepKeepsGrants
<1>4. CASE Finds
  <2>1. PICK h \in Handler : /\ job[h].at = "find"
                             /\ JobStep(h, [job[h] EXCEPT !.at = "write", !.old = FALSE])
    BY <1>4 DEF Finds
  <2>2. PICK q : q = [job[h] EXCEPT !.at = "write", !.old = FALSE]
    OBVIOUS
  <2>3. Moved(q, job[h], "write")
    BY <1>0, <2>2, FoundType, OfficeTypes
  <2>4. job[h].act = "post"
    BY <1>0, <2>1 DEF JobsOK, JobOK
  <2>5. q.act # "approve" /\ q.doc \in Doc /\ JobStep(h, q)
    BY <1>0, <2>1, <2>2, <2>3, <2>4, OfficeTypes DEF Moved
  <2>q. QED
    BY <2>5, NoStage, StepKeepsGrants
<1>5. CASE Writes
  <2>1. PICK h \in Handler, books \in BOOLEAN : \E s, g, c, e, next :
           Write(h, s, g, c, e, books, next) /\ Writable(h, s, g, c, e, books, next)
    BY <1>5 DEF Writes
  <2>2. PICK s, g, c, e, next :
           Write(h, s, g, c, e, books, next) /\ Writable(h, s, g, c, e, books, next)
    BY <2>1
  <2>q. QED
    BY <2>2, WriteKeepsGrants
<1>6. CASE Publishes
  BY <1>6, PublishKeepsGrants DEF Publishes
<1>7. CASE LedgerPosts
  <2>1. /\ \E p : job' = [h \in Handler |-> Outdated(job[h], p, TRUE)]
        /\ UNCHANGED <<status, stage, cost, effects, raced, chain>>
    BY <1>7 DEF LedgerPosts
  <2>2. PICK p : job' = [h \in Handler |-> Outdated(job[h], p, TRUE)]
    BY <2>1
  <2>3. ASSUME NEW k \in Handler
        PROVE  Same(job'[k], job[k])
    <3>1. Spared(job'[k], job[k], p, TRUE)
      BY <1>0, <2>2, OutdatedSpared, OfficeTypes
    <3>q. QED
      BY <3>1 DEF Spared
  <2>q. QED
    BY <1>1, <2>1, <2>3, RowsKeepGrants
<1>8. CASE Creates
  <2>1. PICK x \in Doc : \E s, c : Create(x, s, c)
    BY <1>8 DEF Creates
  <2>2. PICK s, c : Create(x, s, c)
    BY <2>1
  <2>3. /\ status[x] \notin Past /\ s \notin Agreed
        /\ \A d \in Doc \ {x} : status'[d] = status[d] /\ cost'[d] = cost[d]
        /\ status'[x] = s /\ UNCHANGED <<stage, effects, job, raced, chain>>
    BY <1>0, <2>2, OfficeTypes, StatusFacts DEF Create
  <2>4. ASSUME NEW d \in Doc, Type[d] \in Approvable, ~Exempt(d, raced)
        PROVE  DocThrough(chain, d, status'[d], stage'[d], cost'[d], effects'[d])
    <3>1. CASE d = x
      BY <1>0, <2>3, <2>4, <3>1, NewDocument
    <3>2. CASE d # x
      BY <1>1, <2>3, <2>4, <3>2
    <3>q. QED
      BY <3>1, <3>2
  <2>q. QED
    BY <2>3, <2>4, SameAsBefore, RowsKeepGrants
<1>9. CASE Rests
  BY <1>1, <1>9, SameAsBefore, RowsKeepGrants DEF Rests
<1>10. ASSUME NEW h \in Handler, Decide(h) \/ Record(h)
       PROVE  GrantInv'
  BY <1>10, DecideKeepsGrants, RecordKeepsGrants
<1>q. QED
  BY <1>2, <1>3, <1>4, <1>5, <1>6, <1>7, <1>8, <1>9, <1>10 DEF OfficeMove

LEMMA GrantsStay ==
    ASSUME GrantInv, [Next]_vars
    PROVE  GrantInv'
<1>0. OfficeTypeOK /\ JobsOK /\ FieldInv /\ DeedInv
  BY DEF GrantInv, EffectInv, DeedInv, FieldInv, FieldTypeOK
<1>1. EffectInv'
  BY EffectsStay DEF GrantInv
<1>2. \A d \in Doc : Type[d] \in Approvable /\ ~Exempt(d, raced) =>
         DocThrough(chain, d, status[d], stage[d], cost[d], effects[d])
  BY DEF GrantInv, DocsThrough
<1>3. CASE OfficeStep
  <2>1. OfficeMove
    BY <1>0, <1>3, OfficeMoves DEF OfficeStep
  <2>q. QED
    BY <1>1, <2>1, OfficeKeepsGrants
<1>4. CASE FieldStep
  <2>1. Touches /\ UNCHANGED <<stage, cost, effects, job, raced, chain>>
    BY <1>0, <1>4, FieldTouches DEF FieldStep, FieldStays, KeepsOffice
  <2>2. ASSUME NEW d \in Doc, status'[d] # status[d]
        PROVE  status[d] \notin Past /\ status'[d] \notin Agreed
    <3>1. PICK c \in Capture : BroughtAbout(c, d)
      BY <2>1, <2>2 DEF Touches
    <3>2. ~Stored(c)
      BY <3>1 DEF BroughtAbout, Stored
    <3>3. status[d] \in {"absent", "none"}
      BY <1>0, <3>1, <3>2 DEF BroughtAbout, DeedInv, RowsAhead
    <3>q. QED
      BY <3>1, <3>3, StatusFacts DEF BroughtAbout
  <2>3. ASSUME NEW d \in Doc, Type[d] \in Approvable, ~Exempt(d, raced)
        PROVE  DocThrough(chain, d, status'[d], stage'[d], cost'[d], effects'[d])
    <3>1. CASE status'[d] = status[d]
      BY <1>2, <2>1, <2>3, <3>1
    <3>2. CASE status'[d] # status[d]
      BY <1>0, <2>1, <2>2, <2>3, <3>2, NewDocument
    <3>q. QED
      BY <3>1, <3>2
  <2>q. QED
    BY <1>1, <2>1, <2>3, SameAsBefore, RowsKeepGrants
<1>5. CASE UNCHANGED vars
  <2>1. UNCHANGED <<status, stage, cost, effects, raced, job, chain>>
    BY <1>5 DEF vars, officeVars
  <2>q. QED
    BY <1>1, <1>2, <2>1, SameAsBefore, RowsKeepGrants
<1>q. QED
  BY <1>0, <1>3, <1>4, <1>5, StepKinds

LEMMA GrantsBegin ==
    ASSUME BandsAgree, Init
    PROVE  GrantInv
<1>1. PICK scene \in Scenes : OfficeInit(scene)
  BY DEF Init
<1>2. /\ \A d \in Doc : /\ status[d] \in {"absent", "none", "PENDING"} /\ effects[d] = <<>>
                        /\ stage[d] = 1
      /\ \A h \in Handler : job[h] = Idle
  BY <1>1 DEF OfficeInit, FirstStatus
<1>3. \A d \in Doc : status[d] \notin Agreed
  BY <1>2 DEF Agreed
<1>4. DocsThrough
  BY <1>2, <1>3 DEF DocsThrough, DocThrough
<1>5. JobsThrough
  BY <1>2, IdleType, NoStage DEF JobsThrough
<1>q. QED
  BY <1>4, <1>5, EffectsBegin DEF GrantInv

\* No document takes effect before the log holds the grant of every stage of
\* its band, each by that stage's role, provided the rows of the matrix that
\* cover a common amount ask for the same roles: without that a request may be
\* granted one stage by one row and the next by another (GrantedStageByStage,
\* checkApprovalAuthority's findFirst).
THEOREM StagesAreGranted == BandsAgree /\ Spec => []GrantedStageByStage
<1>1. BandsAgree /\ Init => GrantInv
  BY GrantsBegin
<1>2. GrantInv /\ [Next]_vars => GrantInv'
  BY GrantsStay
<1>3. GrantInv => GrantedStageByStage
  BY GrantInvSuffices
<1>q. QED
  BY <1>1, <1>2, <1>3, PTL DEF Spec

--------------------------------------------------------------------------------
(* The answers to a capture.                                                *)

\* An answer c may get while the rows are r.
Fits(a, c, r) ==
    /\ r[a.row] \in Outcomes /\ a.status = r[a.row]
    /\ \/ a.row = c
       \/ /\ Kind[c] = "attendance_log" /\ Kind[a.row] = "attendance_log"
          /\ Fact[a.row].bucket = Fact[c].bucket
AnswersFit == \A c \in Capture : \A a \in answers[c] : Fits(a, c, row)

\* One clock event of an employee, type and hour has a row.
ClocksApart ==
    \A c, d \in KindOf("attendance_log") :
        Stored(c) /\ Stored(d) /\ Fact[c].bucket = Fact[d].bucket => c = d

AnswerInv == FieldInv /\ AnswersFit /\ ClocksApart

LEMMA AtMostOne ==
    ASSUME NEW S, \A x, y \in S : x = y
    PROVE  Cardinality(S) <= 1
<1>1. CASE S = {}
  <2>1. Cardinality(S) = 0
    BY <1>1, FS_EmptySet
  <2>q. QED
    BY <2>1
<1>2. CASE S # {}
  <2>1. PICK x : x \in S
    BY <1>2
  <2>2. S = {x}
    BY <2>1
  <2>3. Cardinality({x}) = 1
    BY FS_Singleton
  <2>q. QED
    BY <2>2, <2>3
<1>q. QED
  BY <1>1, <1>2

LEMMA AnswerInvSuffices == AnswerInv => OneAnswerPerCapture
<1> SUFFICES ASSUME AnswerInv, NEW c \in Capture
             PROVE  /\ Cardinality(answers[c]) <= 1
                    /\ \A a \in answers[c] : Stored(a.row) /\ a.status = row[a.row]
                    /\ Kind[c] = "attendance_log" => Cardinality(Claiming(c)) <= 1
  BY DEF OneAnswerPerCapture
<1>1. CaptureOK
  BY FieldTypeParts DEF AnswerInv, FieldInv
<1>2. \A a \in answers[c] : Stored(a.row) /\ a.status = row[a.row] /\ a.row \in Capture
  BY <1>1 DEF AnswerInv, AnswersFit, Fits, Stored, Outcomes, CaptureOK
<1>3. ASSUME NEW a \in answers[c], NEW b \in answers[c]
      PROVE  a = b
  <2>1. /\ a.row \in Capture /\ b.row \in Capture /\ Stored(a.row) /\ Stored(b.row)
        /\ a.status = row[a.row] /\ b.status = row[b.row]
        /\ Fits(a, c, row) /\ Fits(b, c, row)
    BY <1>2 DEF AnswerInv, AnswersFit
  <2>2. a.row = b.row
    <3>1. CASE a.row = c /\ b.row = c
      BY <3>1
    <3>2. CASE a.row # c \/ b.row # c
      <4>1. /\ a.row \in KindOf("attendance_log") /\ b.row \in KindOf("attendance_log")
            /\ Fact[a.row].bucket = Fact[b.row].bucket
        BY <2>1, <3>2 DEF Fits, KindOf
      <4>q. QED
        BY <2>1, <4>1 DEF AnswerInv, ClocksApart
    <3>q. QED
      BY <3>1, <3>2
  <2>3. a \in [status : Outcomes, row : Capture] /\ b \in [status : Outcomes, row : Capture]
    BY <1>1 DEF CaptureOK
  <2>q. QED
    BY <2>1, <2>2, <2>3
<1>4. \A d, e \in Claiming(c) : d = e
  BY DEF AnswerInv, ClocksApart, Claiming
<1>q. QED
  BY <1>2, <1>3, <1>4, AtMostOne

\* A step that leaves the stored rows alone and gives answers that fit.
LEMMA AnswersStep ==
    ASSUME AnswerInv, FieldInv', \A c \in Capture : Stored(c) => row'[c] = row[c],
           \A c \in Capture : \A a \in answers'[c] : a \in answers[c] \/ Fits(a, c, row'),
           ClocksApart'
    PROVE  AnswerInv'
<1>1. CaptureOK
  BY FieldTypeParts DEF AnswerInv, FieldInv
<1>2. ASSUME NEW c \in Capture, NEW a \in answers[c]
      PROVE  Fits(a, c, row')
  <2>1. Fits(a, c, row) /\ a.row \in Capture
    BY <1>1 DEF AnswerInv, AnswersFit, CaptureOK
  <2>2. row'[a.row] = row[a.row]
    BY <2>1 DEF Fits, Stored, Outcomes
  <2>q. QED
    BY <2>1, <2>2 DEF Fits
<1>3. AnswersFit'
  BY <1>2 DEF AnswersFit
<1>q. QED
  BY <1>3 DEF AnswerInv

\* The same where no row is new.
LEMMA AnswersOnly ==
    ASSUME AnswerInv, FieldInv', UNCHANGED row,
           \A c \in Capture : \A a \in answers'[c] : a \in answers[c] \/ Fits(a, c, row)
    PROVE  AnswerInv'
<1>1. ClocksApart'
  BY DEF AnswerInv, ClocksApart, Stored
<1>q. QED
  BY <1>1, AnswersStep

\* One answer more.
LEMMA OneAnswerMore ==
    ASSUME CaptureOK, NEW c \in Capture, NEW d \in Capture, NEW r, NEW rows,
           rows[d] = r, r \in Outcomes, d = c \/ /\ Kind[c] = "attendance_log" /\ Kind[d] = "attendance_log"
                                                 /\ Fact[d].bucket = Fact[c].bucket,
           answers' = [answers EXCEPT ![c] = @ \cup {[status |-> r, row |-> d]}]
    PROVE  \A x \in Capture : \A a \in answers'[x] : a \in answers[x] \/ Fits(a, x, rows)
<1>1. PICK b : b = [status |-> r, row |-> d]
  OBVIOUS
<1>2. b.status = r /\ b.row = d
  BY <1>1
<1>3. Fits(b, c, rows)
  BY <1>2 DEF Fits
<1>4. ASSUME NEW x \in Capture, NEW a \in answers'[x]
      PROVE  a \in answers[x] \/ (x = c /\ a = b)
  BY <1>1 DEF CaptureOK
<1>q. QED
  BY <1>3, <1>4

\* A row that is new.
LEMMA NewRow ==
    ASSUME CaptureOK, NEW c \in Capture, NEW r \in Outcomes, row[c] = "none",
           row' = [row EXCEPT ![c] = r]
    PROVE  /\ row'[c] = r /\ ~Stored(c) /\ Stored(c)'
           /\ \A x \in Capture \ {c} : row'[x] = row[x] /\ (Stored(x)' <=> Stored(x))
           /\ \A x \in Capture : Stored(x) => row'[x] = row[x]
<1>1. row'[c] = r /\ \A x \in Capture \ {c} : row'[x] = row[x]
  BY DEF CaptureOK
<1>q. QED
  BY <1>1 DEF Stored, Outcomes

LEMMA PutsKeepAnswers ==
    ASSUME AnswerInv, FieldInv', NEW f \in Field, NEW r \in Outcomes, Puts(f, r)
    PROVE  AnswerInv'
<1>0. CaptureOK /\ TasksOK
  BY FieldTypeParts DEF AnswerInv, FieldInv
<1>1. PICK c : c = task[f].of
  OBVIOUS
<1>2. c \in Capture
  BY <1>0, <1>1 DEF TasksOK, Tasks
<1>3. /\ row[c] = "none" /\ row' = [row EXCEPT ![c] = r]
      /\ Kind[c] = "attendance_log" => Claiming(c) = {}
      /\ UNCHANGED answers \/ answers' = [answers EXCEPT ![c] = @ \cup {[status |-> r, row |-> c]}]
  BY <1>1 DEF Puts
<1>4. /\ row'[c] = r /\ ~Stored(c) /\ Stored(c)'
      /\ \A x \in Capture \ {c} : row'[x] = row[x] /\ (Stored(x)' <=> Stored(x))
      /\ \A x \in Capture : Stored(x) => row'[x] = row[x]
  BY <1>0, <1>2, <1>3, NewRow
<1>5. \A x \in Capture : \A a \in answers'[x] : a \in answers[x] \/ Fits(a, x, row')
  <2>1. CASE UNCHANGED answers
    BY <2>1
  <2>2. CASE answers' = [answers EXCEPT ![c] = @ \cup {[status |-> r, row |-> c]}]
    BY <1>0, <1>2, <1>4, <2>2, OneAnswerMore
  <2>q. QED
    BY <1>3, <2>1, <2>2
<1>6. ClocksApart'
  <2> SUFFICES ASSUME NEW x \in KindOf("attendance_log"), NEW y \in KindOf("attendance_log"),
                      Stored(x)', Stored(y)', Fact[x].bucket = Fact[y].bucket
               PROVE  x = y
    BY DEF ClocksApart
  <2>1. x \in Capture /\ y \in Capture
    BY DEF KindOf
  <2>2. CASE x # c /\ y # c
    BY <1>4, <2>1, <2>2 DEF AnswerInv, ClocksApart
  <2>3. CASE x = c \/ y = c
    <3>1. Claiming(c) = {}
      BY <1>3, <2>3 DEF KindOf
    <3>2. \A z \in KindOf("attendance_log") : Stored(z) => Fact[z].bucket # Fact[c].bucket
      BY <3>1 DEF Claiming
    <3>q. QED
      BY <1>4, <2>1, <2>3, <3>2
  <2>q. QED
    BY <2>2, <2>3
<1>q. QED
  BY <1>4, <1>5, <1>6, AnswersStep

LEMMA TripKeepsAnswers ==
    ASSUME AnswerInv, FieldInv', NEW f \in Field, CreateTripLog(f)
    PROVE  AnswerInv'
<1>0. CaptureOK /\ TasksOK
  BY FieldTypeParts DEF AnswerInv, FieldInv
<1>1. PICK c \in Capture, v \in Vehicle, km \in Nat : Trips(f, c, v, km)
  BY <1>0, TripEffect
<1>2. /\ row[c] = "none" /\ row' = [row EXCEPT ![c] = "ACKED"] /\ "ACKED" \in Outcomes
      /\ answers' = [answers EXCEPT ![c] = @ \cup {[status |-> "ACKED", row |-> c]}]
      /\ Kind[c] = "trip_log"
  <2>1. Kind[task[f].of] = "trip_log"
    BY <1>0, TripEffect
  <2>q. QED
    BY <1>1, <2>1 DEF Trips, Outcomes
<1>4. /\ row'[c] = "ACKED" /\ ~Stored(c) /\ Stored(c)'
      /\ \A x \in Capture \ {c} : row'[x] = row[x] /\ (Stored(x)' <=> Stored(x))
      /\ \A x \in Capture : Stored(x) => row'[x] = row[x]
  BY <1>0, <1>2, NewRow
<1>5. \A x \in Capture : \A a \in answers'[x] : a \in answers[x] \/ Fits(a, x, row')
  BY <1>0, <1>2, <1>4, OneAnswerMore
<1>6. ClocksApart'
  <2>1. \A x \in KindOf("attendance_log") : x \in Capture \ {c}
    BY <1>2 DEF KindOf
  <2>q. QED
    BY <1>4, <2>1 DEF AnswerInv, ClocksApart
<1>q. QED
  BY <1>4, <1>5, <1>6, AnswersStep

LEMMA FieldKeepsAnswers ==
    ASSUME AnswerInv, FieldInv', FieldMove
    PROVE  AnswerInv'
<1>0. CaptureOK /\ TasksOK
  BY FieldTypeParts DEF AnswerInv, FieldInv
<1>1. CASE UNCHANGED <<row, answers>>
  BY <1>1, AnswersOnly
<1>2. ASSUME NEW c \in Capture, NEW d \in Capture, Stored(d), UNCHANGED row,
             d = c \/ /\ Kind[c] = "attendance_log" /\ Kind[d] = "attendance_log"
                      /\ Fact[d].bucket = Fact[c].bucket,
             answers' = [answers EXCEPT ![c] = @ \cup {[status |-> row[d], row |-> d]}]
      PROVE  AnswerInv'
  <2>1. row[d] \in Outcomes
    BY <1>2 DEF Stored, Outcomes
  <2>2. \A x \in Capture : \A a \in answers'[x] : a \in answers[x] \/ Fits(a, x, row)
    BY <1>0, <1>2, <2>1, OneAnswerMore
  <2>q. QED
    BY <1>2, <2>2, AnswersOnly
<1>3. ASSUME NEW f \in Field, NEW c \in Capture, Looks(f, c)
      PROVE  AnswerInv'
  <2>1. /\ UNCHANGED row
        /\ \/ UNCHANGED answers
           \/ Stored(c) /\ answers' = [answers EXCEPT ![c] = @ \cup {[status |-> row[c], row |-> c]}]
    BY <1>3 DEF Looks
  <2>q. QED
    BY <1>1, <1>2, <2>1
<1>4. ASSUME NEW f \in Field, Claims(f)
      PROVE  AnswerInv'
  <2>1. PICK c : c = task[f].of
    OBVIOUS
  <2>2. c \in Capture /\ Kind[c] = "attendance_log"
    BY <1>0, <1>4, <2>1 DEF TasksOK, Tasks, Claims, At
  <2>3. PICK d \in Claiming(c) : answers' = [answers EXCEPT ![c] = @ \cup {[status |-> row[d], row |-> d]}]
    BY <1>4, <2>1 DEF Claims
  <2>4. d \in Capture /\ Stored(d) /\ Kind[d] = "attendance_log" /\ Fact[d].bucket = Fact[c].bucket
    BY <2>3 DEF Claiming, KindOf
  <2>q. QED
    BY <1>2, <1>4, <2>2, <2>3, <2>4 DEF Claims
<1>5. ASSUME NEW f \in Field, PublishNext(f)
      PROVE  AnswerInv'
  <2>1. PICK c : c = task[f].of
    OBVIOUS
  <2>2. c \in Capture /\ Stored(c) /\ UNCHANGED row
    BY <1>0, <1>5, <2>1 DEF TasksOK, TaskOK, Tasks, PublishNext
  <2>3. UNCHANGED answers \/ answers' = [answers EXCEPT ![c] = @ \cup {[status |-> row[c], row |-> c]}]
    BY <1>5, <2>1, <2>2 DEF PublishNext, Answer
  <2>q. QED
    BY <1>1, <1>2, <2>2, <2>3
<1>6. CASE Others \/ \E f \in Field : ReadVehicle(f) \/ Fail(f)
  BY <1>1, <1>6 DEF Others, ReadVehicle, Fail
<1>7. ASSUME NEW f \in Field, (\E r \in {"ACKED", "NEEDS_REVIEW"} : Puts(f, r)) \/ CreateTripLog(f)
      PROVE  AnswerInv'
  BY <1>7, PutsKeepAnswers, TripKeepsAnswers DEF Outcomes
<1>q. QED
  BY <1>3, <1>4, <1>5, <1>6, <1>7 DEF FieldMove

LEMMA AnswersStay ==
    ASSUME AnswerInv, [Next]_vars
    PROVE  AnswerInv'
<1>1. FieldInv /\ FieldInv'
  BY NextTyped DEF AnswerInv
<1>2. CASE OfficeStep \/ UNCHANGED vars
  <2>1. UNCHANGED <<row, answers>>
    BY <1>2 DEF OfficeStep, vars, fieldVars
  <2>q. QED
    BY <1>1, <2>1, AnswersOnly
<1>3. CASE FieldStep
  BY <1>1, <1>3, FieldKeepsAnswers DEF FieldStep
<1>q. QED
  BY <1>1, <1>2, <1>3, StepKinds

\* However often a capture is pushed, it is answered with one outcome and one
\* row, that of the row, and the clock events of one employee, type and hour
\* share a row (OneAnswerPerCapture).
THEOREM CaptureAnsweredOnce == Spec => []OneAnswerPerCapture
<1>1. Init => AnswerInv
  <2> SUFFICES ASSUME Init PROVE AnswerInv
    OBVIOUS
  <2>1. PICK scene \in Scenes : FieldInit(scene)
    BY DEF Init
  <2>2. \A c \in Capture : answers[c] = {} /\ ~Stored(c)
    BY <2>1 DEF FieldInit, Stored
  <2>q. QED
    BY <2>2, InitTyped DEF AnswerInv, AnswersFit, ClocksApart, KindOf
<1>2. AnswerInv /\ [Next]_vars => AnswerInv'
  BY AnswersStay
<1>3. AnswerInv => OneAnswerPerCapture
  BY AnswerInvSuffices
<1>q. QED
  BY <1>1, <1>2, <1>3, PTL DEF Spec

--------------------------------------------------------------------------------
(* The events of a capture.                                                 *)

LEMMA PrefixOfConcat ==
    ASSUME NEW S, NEW s \in Seq(S), NEW t \in Seq(S)
    PROVE  IsPrefix(s, s \o t)
<1>1. Len(s) \in Nat /\ Len(t) \in Nat /\ Len(s \o t) = Len(s) + Len(t)
  BY LenProperties, ConcatProperties
<1>2. CASE Len(s) = 0
  BY <1>1, <1>2, SubSeqEmpty DEF IsPrefix
<1>3. CASE Len(s) # 0
  BY <1>1, <1>3, SubSeqOfConcat1 DEF IsPrefix
<1>q. QED
  BY <1>2, <1>3

\* The first of what is left moves to what is done.
LEMMA Shift ==
    ASSUME NEW S, NEW s \in Seq(S), NEW t \in Seq(S), t # <<>>
    PROVE  /\ Append(s, Head(t)) \in Seq(S) /\ Tail(t) \in Seq(S)
           /\ s \o t = Append(s, Head(t)) \o Tail(t)
           /\ Len(t) = 1 <=> Tail(t) = <<>>
           /\ Len(t) = 1 => s \o t = Append(s, Head(t))
<1>1. /\ Head(t) \in S /\ Tail(t) \in Seq(S) /\ Len(Tail(t)) = Len(t) - 1
      /\ \A i \in 1 .. Len(Tail(t)) : Tail(t)[i] = t[i + 1]
      /\ Head(t) = t[1] /\ Len(s) \in Nat /\ Len(t) \in Nat \ {0}
  BY HeadTailProperties, LenProperties, EmptySeq
<1>2. PICK a : a = Append(s, Head(t))
  OBVIOUS
<1>3. /\ a \in Seq(S) /\ Len(a) = Len(s) + 1 /\ a[Len(s) + 1] = t[1]
      /\ \A i \in 1 .. Len(s) : a[i] = s[i]
  BY <1>1, <1>2, AppendProperties
<1>4. PICK u : u = Tail(t)
  OBVIOUS
<1>5. u \in Seq(S) /\ Len(u) = Len(t) - 1 /\ \A i \in 1 .. Len(t) - 1 : u[i] = t[i + 1]
  BY <1>1, <1>4
<1>6. /\ s \o t \in Seq(S) /\ Len(s \o t) = Len(s) + Len(t)
      /\ \A i \in 1 .. Len(s) + Len(t) : (s \o t)[i] = IF i <= Len(s) THEN s[i] ELSE t[i - Len(s)]
  BY ConcatProperties
<1>7. /\ a \o u \in Seq(S) /\ Len(a \o u) = Len(a) + Len(u)
      /\ \A i \in 1 .. Len(a) + Len(u) : (a \o u)[i] = IF i <= Len(a) THEN a[i] ELSE u[i - Len(a)]
  BY <1>3, <1>5, ConcatProperties
<1>8. PICK n, k : n = Len(s) /\ k = Len(t)
  OBVIOUS
<1>9. ASSUME NEW i \in 1 .. n + k
      PROVE  (s \o t)[i] = (a \o u)[i]
  <2>1. CASE i <= n
    BY <1>1, <1>3, <1>5, <1>6, <1>7, <1>8, <2>1
  <2>2. CASE i = n + 1
    BY <1>1, <1>3, <1>5, <1>6, <1>7, <1>8, <2>2
  <2>3. CASE i > n + 1
    <3>1. (s \o t)[i] = t[i - n]
      BY <1>1, <1>6, <1>8, <2>3
    <3>2. (a \o u)[i] = u[i - (n + 1)]
      BY <1>1, <1>3, <1>5, <1>7, <1>8, <2>3
    <3>3. i - (n + 1) \in 1 .. k - 1 /\ (i - (n + 1)) + 1 = i - n
      BY <1>1, <1>8, <2>3
    <3>q. QED
      BY <1>5, <1>8, <3>1, <3>2, <3>3
  <2>4. n \in Nat /\ k \in Nat
    BY <1>1, <1>8
  <2>5. i <= n \/ i = n + 1 \/ i > n + 1
    BY <2>4
  <2>q. QED
    BY <2>1, <2>2, <2>3, <2>5
<1>10. s \o t = a \o u
  <2>1. Len(a \o u) = n + k /\ Len(s \o t) = n + k
    BY <1>1, <1>3, <1>5, <1>6, <1>7, <1>8
  <2>q. QED
    BY <1>6, <1>7, <1>9, <2>1, SeqEqual
<1>11. Len(t) = 1 <=> u = <<>>
  BY <1>1, <1>5, EmptySeq
<1>12. a \o <<>> = a
  BY <1>3, ConcatEmptySeq
<1>q. QED
  BY <1>2, <1>3, <1>4, <1>5, <1>10, <1>11, <1>12

\* A request that still owes events of c.
Sends(t, c) == t.at = "publish" /\ t.of = c

\* Every event of c is out or with the one request that stored it, or the
\* rest was lost with that request.
Told(c) ==
    /\ ~Stored(c) => events[c] = <<>>
    /\ \A f \in Field : Sends(task[f], c) =>
          /\ Owed(c) = events[c] \o task[f].owes
          /\ \A g \in Field : Sends(task[g], c) => g = f
    /\ IsPrefix(events[c], Owed(c))
    /\ events[c] = Owed(c) \/ c \in lost \/ \E f \in Field : Sends(task[f], c)

TellInv == FieldInv /\ \A c \in Capture : Told(c)

LEMMA TellInvSuffices == TellInv => AnnouncedAsOwed
BY DEF TellInv, Told, Sends, AnnouncedAsOwed

\* Nothing happens to the events of c and to who sends them.
Quiet(c) ==
    /\ Stored(c)' <=> Stored(c)
    /\ Owed(c)' = Owed(c) /\ events'[c] = events[c] /\ (c \in lost => c \in lost')
    /\ \A f \in Field : /\ Sends(task'[f], c) <=> Sends(task[f], c)
                        /\ Sends(task[f], c) => task'[f].owes = task[f].owes

LEMMA ToldStays ==
    ASSUME NEW c \in Capture, Told(c), Quiet(c)
    PROVE  Told(c)'
<1>1. \A f \in Field : Sends(task'[f], c) =>
         /\ Owed(c)' = events'[c] \o task'[f].owes
         /\ \A g \in Field : Sends(task'[g], c) => g = f
  BY DEF Told, Quiet
<1>2. /\ ~Stored(c)' => events'[c] = <<>>
      /\ IsPrefix(events'[c], Owed(c)')
      /\ events'[c] = Owed(c)' \/ c \in lost' \/ \E f \in Field : Sends(task'[f], c)
  BY DEF Told, Quiet
<1>q. QED
  BY <1>1, <1>2 DEF Told, Sends

\* One request moves, and with it at most one capture.
LEMMA OthersQuiet ==
    ASSUME CaptureOK, TasksOK, NEW f \in Field, NEW c \in Capture, NEW q, c = task[f].of,
           task' = [task EXCEPT ![f] = q], q.at = "publish" => q.of = c,
           \A x \in Capture \ {c} : row'[x] = row[x] /\ events'[x] = events[x],
           lost \subseteq lost'
    PROVE  \A x \in Capture \ {c} : Quiet(x)
<1> SUFFICES ASSUME NEW x \in Capture \ {c} PROVE Quiet(x)
  OBVIOUS
<1>1. \A g \in Field : task'[g] = IF g = f THEN q ELSE task[g]
  BY DEF TasksOK
<1>2. ~Sends(q, x) /\ ~Sends(task[f], x)
  BY DEF Sends
<1>q. QED
  BY <1>1, <1>2, OwedIsOwedIf DEF Quiet, Stored, Owed

\* A row is stored, and owes what its outcome says.
LEMMA PutsTell ==
    ASSUME TellInv, FieldInv', NEW f \in Field, NEW r \in Outcomes, Puts(f, r)
    PROVE  TellInv'
<1>0. CaptureOK /\ TasksOK
  BY FieldTypeParts DEF TellInv, FieldInv
<1>1. PICK c : c = task[f].of
  OBVIOUS
<1>2. c \in Capture /\ task[f] \in Tasks
  BY <1>0, <1>1 DEF TasksOK, Tasks
<1>3. /\ task[f].at = "write" /\ row[c] = "none" /\ row' = [row EXCEPT ![c] = r]
      /\ \/ OwedIf(c, r) = <<>> /\ task' = [task EXCEPT ![f] = Free]
         \/ \E q : /\ q = [task[f] EXCEPT !.at = "publish", !.owes = OwedIf(c, r)]
                   /\ task' = [task EXCEPT ![f] = q]
      /\ UNCHANGED <<events, lost>>
  BY <1>1 DEF Puts, NoOther
<1>4. /\ row'[c] = r /\ ~Stored(c) /\ Stored(c)'
      /\ \A x \in Capture \ {c} : row'[x] = row[x] /\ (Stored(x)' <=> Stored(x))
  BY <1>0, <1>2, <1>3, NewRow
<1>5. /\ events[c] = <<>> /\ \A g \in Field : ~Sends(task[g], c)
      /\ Owed(c)' = OwedIf(c, r) /\ OwedIf(c, r) \in Seq(EventNames)
  <2>1. \A g \in Field : ~Sends(task[g], c)
    BY <1>0, <1>4 DEF TasksOK, TaskOK, Sends
  <2>2. Owed(c)' = OwedIf(c, r)
    BY <1>4 DEF Owed, OwedIf
  <2>q. QED
    BY <1>2, <1>4, <2>1, <2>2, OwedType DEF TellInv, Told
<1>6. PICK q : /\ task' = [task EXCEPT ![f] = q]
               /\ \/ OwedIf(c, r) = <<>> /\ q.at = "idle"
                  \/ q.at = "publish" /\ q.of = c /\ q.owes = OwedIf(c, r)
  <2>1. CASE OwedIf(c, r) = <<>> /\ task' = [task EXCEPT ![f] = Free]
    BY <2>1, FreeType
  <2>2. ASSUME NEW q, q = [task[f] EXCEPT !.at = "publish", !.owes = OwedIf(c, r)],
               task' = [task EXCEPT ![f] = q]
        PROVE  task' = [task EXCEPT ![f] = q] /\ q.at = "publish" /\ q.of = c /\ q.owes = OwedIf(c, r)
    BY <1>1, <1>2, <2>2 DEF Tasks
  <2>q. QED
    BY <1>3, <2>1, <2>2
<1>7. \A x \in Capture \ {c} : Quiet(x)
  BY <1>0, <1>1, <1>2, <1>3, <1>4, <1>6, OthersQuiet
<1>8. Told(c)'
  <2>1. \A g \in Field : task'[g] = IF g = f THEN q ELSE task[g]
    BY <1>0, <1>6 DEF TasksOK
  <2>2. \A g \in Field : Sends(task'[g], c) => g = f /\ q.owes = OwedIf(c, r)
    BY <1>5, <1>6, <2>1 DEF Sends
  <2>3. <<>> \o OwedIf(c, r) = OwedIf(c, r) /\ IsPrefix(<<>>, <<>> \o OwedIf(c, r))
    <3>1. <<>> \in Seq(EventNames)
      BY EmptySeq
    <3>q. QED
      BY <1>5, <3>1, ConcatEmptySeq, PrefixOfConcat
  <2>4. OwedIf(c, r) = <<>> \/ Sends(task'[f], c)
    BY <1>6, <2>1 DEF Sends
  <2>5. events'[c] = <<>>
    BY <1>3, <1>5
  <2>q. QED
    BY <1>4, <1>5, <2>1, <2>2, <2>3, <2>4, <2>5 DEF Told, Sends
<1>q. QED
  BY <1>2, <1>7, <1>8, ToldStays DEF TellInv

\* The next event is out.
LEMMA PublishTells ==
    ASSUME TellInv, FieldInv', NEW f \in Field, PublishNext(f) \/ Fail(f)
    PROVE  TellInv'
<1>0. CaptureOK /\ TasksOK
  BY FieldTypeParts DEF TellInv, FieldInv
<1>1. PICK c, es, ow : c = task[f].of /\ es = events[c] /\ ow = task[f].owes
  OBVIOUS
<1>2. c \in Capture /\ task[f] \in Tasks /\ es \in Seq(EventNames) /\ ow \in Seq(EventNames)
  BY <1>0, <1>1 DEF TasksOK, Tasks, CaptureOK
<1>3. PICK q, new :
        /\ UNCHANGED row /\ task' = [task EXCEPT ![f] = q]
        /\ events' = [events EXCEPT ![c] = new]
        /\ \/ /\ task[f].at = "publish" /\ new = Append(es, Head(ow)) /\ UNCHANGED lost
              /\ \/ Len(ow) = 1 /\ q.at = "idle"
                 \/ Len(ow) # 1 /\ q.at = "publish" /\ q.of = c /\ q.owes = Tail(ow)
           \/ /\ q.at = "idle" /\ new = es /\ lost' = lost \cup {x \in {c} : task[f].at = "publish"}
           \/ /\ q.at = "idle" /\ task[f].at = "publish" /\ new = Append(es, Head(ow))
              /\ lost' = lost \cup {c}
  <2>1. CASE PublishNext(f)
    <3>1. /\ task[f].at = "publish" /\ events' = [events EXCEPT ![c] = Append(es, Head(ow))]
          /\ UNCHANGED <<row, lost>>
      BY <1>1, <2>1 DEF PublishNext
    <3>2. CASE Len(ow) = 1
      <4>1. task' = [task EXCEPT ![f] = Free] /\ Free.at = "idle"
        BY <1>1, <2>1, <3>2 DEF PublishNext, Free
      <4>q. QED
        BY <3>1, <3>2, <4>1
    <3>3. CASE Len(ow) # 1
      <4>1. PICK q : q = [task[f] EXCEPT !.owes = Tail(ow)]
        OBVIOUS
      <4>2. task' = [task EXCEPT ![f] = q]
        BY <1>0, <1>1, <2>1, <3>3, <4>1 DEF PublishNext, TasksOK
      <4>3. q.at = "publish" /\ q.of = c /\ q.owes = Tail(ow)
        BY <1>1, <1>2, <3>1, <4>1 DEF Tasks
      <4>q. QED
        BY <3>1, <3>3, <4>2, <4>3
    <3>q. QED
      BY <3>2, <3>3
  <2>2. CASE Fail(f)
    <3>1. /\ UNCHANGED row /\ task' = [task EXCEPT ![f] = Free] /\ Free.at = "idle"
          /\ lost' = lost \cup {x \in {c} : task[f].at = "publish"}
      BY <1>1, <2>2 DEF Fail, Free
    <3>2. CASE UNCHANGED events
      <4>1. events' = [events EXCEPT ![c] = es]
        BY <1>0, <1>1, <3>2 DEF CaptureOK
      <4>q. QED
        BY <3>1, <4>1
    <3>3. CASE task[f].at = "publish" /\ events' = [events EXCEPT ![c] = Append(es, Head(ow))]
      <4>1. lost' = lost \cup {c}
        BY <3>1, <3>3
      <4>q. QED
        BY <3>1, <3>3, <4>1
    <3>q. QED
      BY <1>1, <2>2, <3>2, <3>3 DEF Fail
  <2>q. QED
    BY <2>1, <2>2
<1>4. /\ events'[c] = new /\ \A x \in Capture \ {c} : events'[x] = events[x]
      /\ \A g \in Field : task'[g] = IF g = f THEN q ELSE task[g]
      /\ lost \subseteq lost' /\ (q.at = "publish" => q.of = c)
  BY <1>0, <1>2, <1>3 DEF CaptureOK, TasksOK
<1>5. \A x \in Capture \ {c} : Quiet(x)
  BY <1>0, <1>1, <1>2, <1>3, <1>4, OthersQuiet
<1>6. Told(c) /\ Owed(c)' = Owed(c) /\ (Stored(c)' <=> Stored(c)) /\ Owed(c) \in Seq(EventNames)
  BY <1>2, <1>3, OwedType, OwedIsOwedIf DEF TellInv, Owed, Stored
<1>7. ASSUME task[f].at = "publish" PROVE Told(c)'
  <2>1. /\ Sends(task[f], c) /\ Owed(c) = es \o ow /\ ow # <<>> /\ Stored(c)
        /\ \A g \in Field : Sends(task[g], c) => g = f
    BY <1>0, <1>1, <1>6, <1>7 DEF Sends, Told, TasksOK, TaskOK
  <2>2. /\ Append(es, Head(ow)) \in Seq(EventNames) /\ Tail(ow) \in Seq(EventNames)
        /\ es \o ow = Append(es, Head(ow)) \o Tail(ow)
        /\ Len(ow) = 1 => es \o ow = Append(es, Head(ow))
    BY <1>2, <2>1, Shift
  <2>3. /\ IsPrefix(es, es \o ow)
        /\ IsPrefix(Append(es, Head(ow)), Append(es, Head(ow)) \o Tail(ow))
    BY <1>2, <2>2, PrefixOfConcat
  <2>4. \A g \in Field : Sends(task'[g], c) => g = f /\ q.at = "publish"
    BY <1>4, <2>1 DEF Sends
  <2>5. IsPrefix(new, Owed(c)) /\ (c \in lost' \/ q.at = "publish" \/ new = Owed(c))
    BY <1>3, <1>7, <2>1, <2>2, <2>3
  <2>6. q.at = "publish" => Sends(task'[f], c) /\ Owed(c) = new \o q.owes
    BY <1>3, <1>4, <2>1, <2>2 DEF Sends
  <2>q. QED
    BY <1>4, <1>6, <2>1, <2>4, <2>5, <2>6 DEF Told, Sends
<1>8. ASSUME task[f].at # "publish" PROVE Told(c)'
  <2>1. /\ q.at = "idle" /\ new = es
    BY <1>3, <1>8
  <2>2. Quiet(c)
    BY <1>1, <1>4, <1>6, <1>8, <2>1 DEF Quiet, Sends
  <2>q. QED
    BY <1>2, <1>6, <2>2, ToldStays
<1>q. QED
  BY <1>2, <1>5, <1>6, <1>7, <1>8, ToldStays DEF TellInv

\* A step that changes neither events nor who sends them, nor what is owed.
LEMMA QuietTells ==
    ASSUME TellInv, FieldInv', UNCHANGED <<row, events, lost>>,
           \A f \in Field : task'[f] = task[f] \/ (task[f].at # "publish" /\ task'[f].at # "publish")
    PROVE  TellInv'
<1>1. \A c \in Capture : Quiet(c)
  BY DEF Quiet, Sends, Owed, Stored
<1>q. QED
  BY <1>1, ToldStays DEF TellInv

\* A trip owes nothing.
LEMMA TripTells ==
    ASSUME TellInv, FieldInv', NEW f \in Field, CreateTripLog(f)
    PROVE  TellInv'
<1>0. CaptureOK /\ TasksOK
  BY FieldTypeParts DEF TellInv, FieldInv
<1>1. PICK c \in Capture, v \in Vehicle, km \in Nat : Trips(f, c, v, km)
  BY <1>0, TripEffect
<1>2. /\ task[f].at = "trip" /\ c = task[f].of /\ UNCHANGED <<events, lost>> /\ Kind[c] = "trip_log"
      /\ row[c] = "none" /\ row' = [row EXCEPT ![c] = "ACKED"] /\ TripTasks(f, v)
  BY <1>0, <1>1, TripEffect DEF Trips
<1>3. /\ ~Stored(c) /\ Stored(c)'
      /\ \A x \in Capture \ {c} : row'[x] = row[x] /\ (Stored(x)' <=> Stored(x))
  BY <1>0, <1>2, NewRow DEF Outcomes
<1>4. /\ task'[f].at = "idle"
      /\ \A g \in Field \ {f} : /\ task'[g].at = task[g].at /\ task'[g].of = task[g].of
                               /\ task'[g].owes = task[g].owes
  BY <1>2, FreeType DEF TripTasks, Alike
<1>5. \A x \in Capture \ {c} : Quiet(x)
  BY <1>2, <1>3, <1>4 DEF Quiet, Sends, Owed
<1>6. Told(c)'
  <2>1. Owed(c)' = <<>> /\ events'[c] = <<>>
    BY <1>2, <1>3 DEF Owed, TellInv, Told
  <2>2. \A g \in Field : ~Sends(task'[g], c)
    BY <1>0, <1>2, <1>3, <1>4 DEF Sends, TasksOK, TaskOK
  <2>3. IsPrefix(<<>>, <<>>)
    BY DEF IsPrefix
  <2>q. QED
    BY <1>3, <2>1, <2>2, <2>3 DEF Told, Sends
<1>q. QED
  BY <1>1, <1>5, <1>6, ToldStays DEF TellInv

LEMMA FieldTells ==
    ASSUME TellInv, FieldInv', FieldMove
    PROVE  TellInv'
<1>0. CaptureOK /\ TasksOK
  BY FieldTypeParts DEF TellInv, FieldInv
<1>1. CASE Others
  BY <1>1, QuietTells DEF Others
<1>2. ASSUME NEW f \in Field, NEW q, NEW at, task[f].at = at, at \in {"idle", "write"}, q.at # "publish",
             task' = [task EXCEPT ![f] = q], UNCHANGED <<row, events, lost>>
      PROVE  TellInv'
  <2>1. \A g \in Field : task'[g] = IF g = f THEN q ELSE task[g]
    BY <1>0, <1>2 DEF TasksOK
  <2>q. QED
    BY <1>2, <2>1, QuietTells
<1>3. ASSUME NEW f \in Field, NEW c \in Capture, Looks(f, c)
      PROVE  TellInv'
  <2>1. /\ task[f].at = "idle" /\ UNCHANGED <<row, events, lost>>
        /\ UNCHANGED task \/ \E q : q = [Free EXCEPT !.at = "write", !.of = c] /\ task' = [task EXCEPT ![f] = q]
    BY <1>3 DEF Looks, NoOther
  <2>2. CASE UNCHANGED task
    BY <2>1, <2>2, QuietTells
  <2>3. ASSUME NEW q, q = [Free EXCEPT !.at = "write", !.of = c], task' = [task EXCEPT ![f] = q]
        PROVE  TellInv'
    <3>1. q.at = "write"
      BY <2>3, LookedUpType
    <3>q. QED
      BY <1>2, <2>1, <2>3, <3>1
  <2>q. QED
    BY <2>1, <2>2, <2>3
<1>4. ASSUME NEW f \in Field, Claims(f)
      PROVE  TellInv'
  <2>1. /\ task[f].at = "write" /\ UNCHANGED <<row, events, lost>>
        /\ task' = [task EXCEPT ![f] = Free]
    BY <1>4 DEF Claims, At, NoOther
  <2>q. QED
    BY <1>2, <2>1, FreeType
<1>5. ASSUME NEW f \in Field, ReadVehicle(f)
      PROVE  TellInv'
  <2>1. /\ task[f].at = "write" /\ UNCHANGED <<row, events, lost>>
        /\ task' = [task EXCEPT ![f].at = "trip", ![f].seen = mileage[Fact[task[f].of].vehicle]]
    BY <1>5 DEF ReadVehicle, At
  <2>2. PICK q : q = [task[f] EXCEPT !.at = "trip", !.seen = mileage[Fact[task[f].of].vehicle]]
    OBVIOUS
  <2>3. task' = [task EXCEPT ![f] = q]
    BY <1>0, <2>1, <2>2 DEF TasksOK
  <2>4. q.at = "trip"
    BY <1>0, <2>2 DEF TasksOK, Tasks
  <2>q. QED
    BY <1>2, <2>1, <2>3, <2>4
<1>6. ASSUME NEW f \in Field, \/ \E r \in {"ACKED", "NEEDS_REVIEW"} : Puts(f, r)
                              \/ CreateTripLog(f) \/ PublishNext(f) \/ Fail(f)
      PROVE  TellInv'
  BY <1>6, PutsTell, TripTells, PublishTells DEF Outcomes
<1>q. QED
  BY <1>1, <1>3, <1>4, <1>5, <1>6 DEF FieldMove

LEMMA TellingStays ==
    ASSUME TellInv, [Next]_vars
    PROVE  TellInv'
<1>1. FieldInv /\ FieldInv'
  BY NextTyped DEF TellInv
<1>2. CASE OfficeStep \/ UNCHANGED vars
  <2>1. UNCHANGED <<row, events, lost, task>>
    BY <1>2 DEF OfficeStep, vars, fieldVars
  <2>q. QED
    BY <1>1, <2>1, QuietTells
<1>3. CASE FieldStep
  BY <1>1, <1>3, FieldTells DEF FieldStep
<1>q. QED
  BY <1>1, <1>2, <1>3, StepKinds

\* The ledger hears of a capture what its row owes, in order and once, however
\* often it is pushed: short of that only while the request that stored it is
\* still publishing, or after that request died (AnnouncedAsOwed).
THEOREM CaptureAnnounced == Spec => []AnnouncedAsOwed
<1>1. Init => TellInv
  <2> SUFFICES ASSUME Init, NEW c \in Capture PROVE Told(c)
    BY InitTyped DEF TellInv
  <2>1. PICK scene \in Scenes : FieldInit(scene)
    BY DEF Init
  <2>2. /\ events[c] = <<>> /\ row[c] \in {"absent", "none"}
        /\ \A f \in Field : task[f].at = "idle"
    BY <2>1, FreeType DEF FieldInit
  <2>3. Owed(c) = <<>>
    BY <2>2 DEF Owed
  <2>4. IsPrefix(<<>>, <<>>)
    BY DEF IsPrefix
  <2>q. QED
    BY <2>2, <2>3, <2>4 DEF Told, Sends, Stored
<1>2. TellInv /\ [Next]_vars => TellInv'
  BY TellingStays
<1>3. TellInv => AnnouncedAsOwed
  BY TellInvSuffices
<1>q. QED
  BY <1>1, <1>2, <1>3, PTL DEF Spec

--------------------------------------------------------------------------------
(* The vehicles.                                                            *)

TripsOf(v) == {c \in KindOf("trip_log") : Stored(c) /\ Fact[c].vehicle = v}

\* What a request has read of its vehicle is the mileage, or old.
FreshlyRead(t, km) == t.at = "trip" /\ ~t.old => t.seen = km[Fact[t.of].vehicle]
SeenOK == \A f \in Field : FreshlyRead(task[f], mileage)

Watched(v) ==
    /\ \A c, d \in OpenRequests(v) : c = d
    /\ (\E c \in TripsOf(v) : Fact[c].end >= ServiceThreshold[v])
       => \E c \in TripsOf(v) : status[DocOf[c]] \notin {"absent", "none"}
    /\ v \in overrun \/ \A c \in TripsOf(v) : mileage[v] >= Fact[c].end

WatchInv == DeedInv /\ SeenOK /\ \A v \in Vehicle : Watched(v)

LEMMA WatchInvSuffices == WatchInv => VehicleIsWatched
<1> SUFFICES ASSUME WatchInv, NEW v \in Vehicle
             PROVE  /\ Cardinality(OpenRequests(v)) <= 1
                    /\ (\E c \in TripsOf(v) : Fact[c].end >= ServiceThreshold[v])
                       => \E c \in TripsOf(v) : status[DocOf[c]] \notin {"absent", "none"}
                    /\ v \in overrun \/ \A c \in TripsOf(v) : mileage[v] >= Fact[c].end
  BY DEF VehicleIsWatched, TripsOf
<1>1. Watched(v)
  BY DEF WatchInv
<1>2. Cardinality(OpenRequests(v)) <= 1
  BY <1>1, AtMostOne DEF Watched
<1>q. QED
  BY <1>1, <1>2 DEF Watched

LEMMA TripFacts ==
    \A c \in KindOf("trip_log") :
       /\ c \in Capture /\ c \in DOMAIN DocOf /\ DocOf[c] \in Doc
       /\ Type[DocOf[c]] = "MAINTENANCE_COMPLETION"
       /\ Fact[c].vehicle \in Vehicle /\ Fact[c].end \in Nat
BY FieldAssumption DEF KindOf

\* A step that stores no trip and opens no request for one.
Calm ==
    /\ \A c \in KindOf("trip_log") :
          /\ Stored(c)' <=> Stored(c)
          /\ status'[DocOf[c]] = status[DocOf[c]] \/ status'[DocOf[c]] \in Past
    /\ UNCHANGED <<mileage, overrun>>
    /\ \A f \in Field : FreshlyRead(task'[f], mileage)

LEMMA CalmWatches ==
    ASSUME WatchInv, DeedInv', Calm
    PROVE  WatchInv'
<1>1. SeenOK'
  BY DEF Calm, SeenOK
<1>2. ASSUME NEW v \in Vehicle
      PROVE  Watched(v)'
  <2>1. Watched(v)
    BY DEF WatchInv
  <2>2. /\ \A c \in TripsOf(v)' : c \in TripsOf(v)
        /\ \A x \in TripsOf(v) : x \in TripsOf(v)'
    BY DEF Calm, TripsOf
  <2>3. \A c \in OpenRequests(v)' : c \in OpenRequests(v)
    BY StatusFacts DEF Calm, OpenRequests
  <2>4. \A c \in TripsOf(v) : status[DocOf[c]] \notin {"absent", "none"}
                              => status'[DocOf[c]] \notin {"absent", "none"}
    BY StatusFacts DEF Calm, TripsOf
  <2>q. QED
    BY <2>1, <2>2, <2>3, <2>4 DEF Calm, Watched
<1>q. QED
  BY <1>1, <1>2 DEF WatchInv

LEMMA TripWatches ==
    ASSUME WatchInv, DeedInv', NEW f \in Field, CreateTripLog(f)
    PROVE  WatchInv'
<1>0. CaptureOK /\ TasksOK /\ OfficeTypeOK
  BY FieldTypeParts DEF WatchInv, DeedInv, FieldInv
<1>1. PICK c \in Capture, v \in Vehicle, km \in Nat : Trips(f, c, v, km)
  BY <1>0, TripEffect
<1>2. /\ c \in KindOf("trip_log") /\ v = Fact[c].vehicle /\ DocOf[c] \in Doc
      /\ task[f].seen \in Nat /\ Fact[c].end \in Nat
  <2>1. c \in KindOf("trip_log") /\ v = Fact[c].vehicle
    BY <1>0, <1>1, TripEffect DEF Trips, KindOf
  <2>q. QED
    BY <1>0, <2>1, TripFacts DEF TasksOK, Tasks
<1>3. /\ Stored(c)' /\ ~Stored(c)
      /\ \A x \in Capture \ {c} : Stored(x)' <=> Stored(x)
  BY <1>0, <1>1, NewRow DEF Trips, Outcomes
<1>4. /\ mileage'[v] = km /\ \A u \in Vehicle \ {v} : mileage'[u] = mileage[u]
      /\ km >= Fact[c].end /\ km >= task[f].seen
      /\ overrun \subseteq overrun' /\ (task[f].old => v \in overrun')
  <2>1. /\ mileage' = [mileage EXCEPT ![v] = km] /\ km = AtLeast(task[f].seen, Fact[c].end)
        /\ overrun' = overrun \cup {x \in {v} : task[f].old}
    BY <1>1 DEF Trips
  <2>2. mileage'[v] = km /\ \A u \in Vehicle \ {v} : mileage'[u] = mileage[u]
    BY <1>0, <2>1 DEF CaptureOK
  <2>3. km >= Fact[c].end /\ km >= task[f].seen
    BY <1>2, <2>1 DEF AtLeast
  <2>q. QED
    BY <2>1, <2>2, <2>3
<1>5. /\ \A d \in Doc \ {DocOf[c]} : status'[d] = status[d]
      /\ \/ NeedsService(v, km) /\ status'[DocOf[c]] = "OPEN"
         \/ ~NeedsService(v, km) /\ UNCHANGED status
  BY <1>0, <1>1, <1>2 DEF Trips, OfficeTypeOK
<1>6. ~task[f].old => task[f].seen = mileage[v]
  BY <1>1 DEF Trips, WatchInv, SeenOK, FreshlyRead
<1>7. SeenOK'
  <2> SUFFICES ASSUME NEW g \in Field, task'[g].at = "trip", ~task'[g].old
               PROVE  task'[g].seen = mileage'[Fact[task'[g].of].vehicle]
    BY DEF SeenOK, FreshlyRead
  <2>1. g # f /\ TripTasks(f, v)
    BY <1>1, FreeType DEF Trips, TripTasks
  <2>2. /\ task[g].at = "trip" /\ ~task[g].old /\ Fact[task[g].of].vehicle # v
        /\ task'[g].of = task[g].of /\ task'[g].seen = task[g].seen
    BY <2>1 DEF TripTasks, Alike
  <2>3. task[g].seen = mileage[Fact[task[g].of].vehicle]
    BY <2>2 DEF WatchInv, SeenOK, FreshlyRead
  <2>4. Fact[task[g].of].vehicle \in Vehicle
    BY <1>0, <2>2, TripFacts DEF TasksOK, TaskOK, Tasks, KindOf
  <2>q. QED
    BY <1>4, <2>2, <2>3, <2>4
<1>8. ASSUME NEW u \in Vehicle
      PROVE  Watched(u)'
  <2>0. Watched(u)
    BY DEF WatchInv
  <2>1. \A x \in TripsOf(u)' : x = c \/ x \in TripsOf(u)
    BY <1>3 DEF TripsOf, KindOf
  <2>2. \A x \in TripsOf(u) : x \in TripsOf(u)' /\ x # c /\ status'[DocOf[x]] = status[DocOf[x]]
    BY <1>2, <1>3, <1>5, TripFacts, FieldDocuments DEF TripsOf, KindOf
  <2>3. u = v => c \in TripsOf(u)'
    BY <1>2, <1>3 DEF TripsOf
  <2>4. \A x \in OpenRequests(u)' : \/ x \in OpenRequests(u)
                                    \/ x = c /\ u = v /\ OpenRequests(u) = {}
    BY <1>2, <1>5, TripFacts, FieldDocuments DEF OpenRequests, NeedsService
  <2>5. \A x, y \in OpenRequests(u)' : x = y
    BY <2>0, <2>4 DEF Watched
  <2>6. (\E x \in TripsOf(u)' : Fact[x].end >= ServiceThreshold[u])
        => \E x \in TripsOf(u)' : status'[DocOf[x]] \notin {"absent", "none"}
    <3>1. CASE \E x \in TripsOf(u) : Fact[x].end >= ServiceThreshold[u]
      BY <2>0, <2>2, <3>1 DEF Watched
    <3>2. CASE u = v /\ Fact[c].end >= ServiceThreshold[u]
      <4>1. ServiceThreshold[u] \in Nat /\ km >= ServiceThreshold[u]
        BY <1>2, <1>4, <3>2, FieldAssumption
      <4>2. CASE OpenRequests(v) = {}
        BY <1>5, <2>3, <3>2, <4>1, <4>2 DEF NeedsService
      <4>3. ASSUME NEW x \in OpenRequests(v)
            PROVE  \E y \in TripsOf(u)' : status'[DocOf[y]] \notin {"absent", "none"}
        <5>1. x \in KindOf("trip_log") /\ status[DocOf[x]] = "OPEN" /\ Fact[x].vehicle = v
          BY DEF OpenRequests
        <5>2. x \in TripsOf(u)
          BY <3>2, <5>1, TripFacts DEF WatchInv, DeedInv, RowsAhead, TripsOf
        <5>q. QED
          BY <2>2, <5>1, <5>2
      <4>q. QED
        BY <4>2, <4>3
    <3>3. \A x \in TripsOf(u)' : Fact[x].vehicle = u
      BY DEF TripsOf
    <3>4. \A x \in TripsOf(u)' : x \in TripsOf(u) \/ (u = v /\ x = c)
      BY <1>2, <2>1, <3>3, Zenon
    <3>q. QED
      BY <3>1, <3>2, <3>4
  <2>7. u \in overrun' \/ \A x \in TripsOf(u)' : mileage'[u] >= Fact[x].end
    <3>1. CASE u # v
      <4>1. mileage'[u] = mileage[u] /\ \A x \in TripsOf(u)' : x \in TripsOf(u)
        BY <1>2, <1>4, <2>1, <3>1 DEF TripsOf
      <4>q. QED
        BY <1>4, <2>0, <4>1 DEF Watched
    <3>2. CASE u = v /\ ~task[f].old /\ v \notin overrun
      <4>1. mileage[v] \in Nat /\ \A x \in TripsOf(v) : mileage[v] >= Fact[x].end /\ Fact[x].end \in Nat
        BY <1>0, <2>0, <3>2, TripFacts DEF Watched, CaptureOK, TripsOf
      <4>2. \A x \in TripsOf(v) : km >= Fact[x].end
        BY <1>4, <1>6, <3>2, <4>1
      <4>q. QED
        BY <1>4, <2>1, <3>2, <4>2
    <3>q. QED
      BY <1>4, <3>1, <3>2
  <2>q. QED
    BY <2>5, <2>6, <2>7 DEF Watched
<1>q. QED
  BY <1>7, <1>8 DEF WatchInv

\* The office moves the request of a repair on, never back.
LEMMA OfficeIsCalm ==
    ASSUME WatchInv, OfficeMove, UNCHANGED fieldVars
    PROVE  Calm
<1>1. ASSUME NEW c \in KindOf("trip_log")
      PROVE  status'[DocOf[c]] = status[DocOf[c]] \/ status'[DocOf[c]] \in Past
  <2>1. DocOf[c] \in Doc /\ Type[DocOf[c]] = "MAINTENANCE_COMPLETION"
    BY TripFacts
  <2>q. QED
    BY <2>1, OfficeChanges DEF WatchInv
<1>2. UNCHANGED <<row, mileage, overrun, task>>
  BY DEF fieldVars
<1>q. QED
  BY <1>1, <1>2 DEF Calm, WatchInv, SeenOK, Stored

\* What the field does to other captures than trips.
LEMMA FieldWatches ==
    ASSUME WatchInv, DeedInv', FieldMove
    PROVE  WatchInv'
<1>0. CaptureOK /\ TasksOK /\ OfficeTypeOK
  BY FieldTypeParts DEF WatchInv, DeedInv, FieldInv
<1>1. ASSUME UNCHANGED <<row, status, mileage, overrun>>,
             \A f \in Field : task'[f] = task[f] \/ FreshlyRead(task'[f], mileage)
      PROVE  WatchInv'
  <2>1. Calm
    BY <1>1 DEF Calm, WatchInv, SeenOK, Stored
  <2>q. QED
    BY <2>1, CalmWatches
<1>2. ASSUME NEW f \in Field, NEW q, task' = [task EXCEPT ![f] = q], FreshlyRead(q, mileage)
      PROVE  \A g \in Field : task'[g] = task[g] \/ FreshlyRead(task'[g], mileage)
  BY <1>0, <1>2 DEF TasksOK
<1>3. FreshlyRead(Free, mileage)
  BY FreeType DEF FreshlyRead
<1>4. CASE Others
  BY <1>1, <1>4 DEF Others, officeVars
<1>5. ASSUME NEW f \in Field, NEW c \in Capture, Looks(f, c)
      PROVE  WatchInv'
  <2>1. /\ UNCHANGED <<row, status, mileage, overrun>>
        /\ UNCHANGED task \/ \E q : q = [Free EXCEPT !.at = "write", !.of = c] /\ task' = [task EXCEPT ![f] = q]
    BY <1>5 DEF Looks, NoOther, officeVars
  <2>2. \A q : q = [Free EXCEPT !.at = "write", !.of = c] => FreshlyRead(q, mileage)
    BY LookedUpType DEF FreshlyRead
  <2>q. QED
    BY <1>1, <1>2, <2>1, <2>2
<1>6. ASSUME NEW f \in Field, Claims(f) \/ Fail(f)
      PROVE  WatchInv'
  <2>1. /\ UNCHANGED <<row, status, mileage, overrun>> /\ task' = [task EXCEPT ![f] = Free]
    BY <1>6 DEF Claims, Fail, NoOther, officeVars
  <2>q. QED
    BY <1>1, <1>2, <1>3, <2>1
<1>7. ASSUME NEW f \in Field, ReadVehicle(f)
      PROVE  WatchInv'
  <2>1. PICK v, q : /\ v = Fact[task[f].of].vehicle
                    /\ q = [task[f] EXCEPT !.at = "trip", !.seen = mileage[v]]
    OBVIOUS
  <2>2. UNCHANGED <<row, status, mileage, overrun>> /\ task' = [task EXCEPT ![f] = q]
    BY <1>0, <1>7, <2>1 DEF ReadVehicle, officeVars, TasksOK
  <2>3. q.of = task[f].of /\ q.seen = mileage[v]
    BY <1>0, <2>1 DEF TasksOK, Tasks
  <2>4. FreshlyRead(q, mileage)
    BY <2>1, <2>3 DEF FreshlyRead
  <2>q. QED
    BY <1>1, <1>2, <2>2, <2>4
<1>8. ASSUME NEW f \in Field, PublishNext(f)
      PROVE  WatchInv'
  <2>1. PICK q : /\ task' = [task EXCEPT ![f] = q] /\ q.at # "trip"
    <3>1. CASE Len(task[f].owes) = 1
      BY <1>8, <3>1, FreeType DEF PublishNext
    <3>2. CASE Len(task[f].owes) # 1
      <4>1. PICK q : q = [task[f] EXCEPT !.owes = Tail(task[f].owes)]
        OBVIOUS
      <4>2. task' = [task EXCEPT ![f] = q] /\ task[f].at = "publish"
        BY <1>0, <1>8, <3>2, <4>1 DEF PublishNext, TasksOK
      <4>3. q.at = task[f].at
        BY <1>0, <4>1 DEF TasksOK, Tasks
      <4>q. QED
        BY <4>2, <4>3
    <3>q. QED
      BY <3>1, <3>2
  <2>2. UNCHANGED <<row, status, mileage, overrun>>
    BY <1>8 DEF PublishNext, officeVars
  <2>q. QED
    BY <1>1, <1>2, <2>1, <2>2 DEF FreshlyRead
<1>9. ASSUME NEW f \in Field, NEW r \in {"ACKED", "NEEDS_REVIEW"}, Puts(f, r)
      PROVE  WatchInv'
  <2>1. PICK c : c = task[f].of
    OBVIOUS
  <2>2. /\ c \in Capture /\ task[f] \in Tasks /\ task[f].at = "write"
        /\ row[c] = "none" /\ row' = [row EXCEPT ![c] = r]
        /\ Kind[c] \in {"production_batch", "fuel_record", "attendance_log", "activity"}
        /\ UNCHANGED <<mileage, overrun>>
        /\ \/ UNCHANGED status
           \/ /\ Kind[c] \in {"production_batch", "fuel_record"}
              /\ \E s : status' = [status EXCEPT ![DocOf[c]] = s]
        /\ \/ task' = [task EXCEPT ![f] = Free]
           \/ \E q : /\ q = [task[f] EXCEPT !.at = "publish", !.owes = OwedIf(c, r)]
                     /\ task' = [task EXCEPT ![f] = q]
    BY <1>0, <1>9, <2>1 DEF Puts, NoOther, TasksOK, Tasks
  <2>3. \A g \in Field : task'[g] = task[g] \/ FreshlyRead(task'[g], mileage)
    <3>1. CASE task' = [task EXCEPT ![f] = Free]
      BY <1>2, <1>3, <3>1
    <3>2. ASSUME NEW q, q = [task[f] EXCEPT !.at = "publish", !.owes = OwedIf(c, r)],
                 task' = [task EXCEPT ![f] = q]
          PROVE  \A g \in Field : task'[g] = task[g] \/ FreshlyRead(task'[g], mileage)
      <4>1. OwedIf(c, r) \in Seq(EventNames)
        BY <2>2, OwedType
      <4>2. Turned(q, task[f], "publish", task[f].seen, OwedIf(c, r))
        BY <2>2, <3>2, <4>1, OwingType
      <4>3. q.at = "publish"
        BY <4>2, Zenon DEF Turned
      <4>q. QED
        BY <1>2, <3>2, <4>3 DEF FreshlyRead
    <3>q. QED
      BY <2>2, <3>1, <3>2
  <2>4. \A x \in KindOf("trip_log") : x # c /\ x \in Capture
    BY <2>2 DEF KindOf
  <2>5. \A x \in KindOf("trip_log") : Stored(x)' <=> Stored(x)
    BY <1>0, <2>2, <2>4, NewRow DEF Outcomes
  <2>6. \A x \in KindOf("trip_log") : status'[DocOf[x]] = status[DocOf[x]]
    <3>1. CASE UNCHANGED status
      BY <3>1
    <3>2. ASSUME NEW s, Kind[c] \in {"production_batch", "fuel_record"},
                 status' = [status EXCEPT ![DocOf[c]] = s], NEW x \in KindOf("trip_log")
          PROVE  status'[DocOf[x]] = status[DocOf[x]]
      <4>1. DocOf[x] # DocOf[c] /\ DocOf[x] \in Doc
        BY <2>2, <2>4, <3>2, DocOfType, TripFacts, FieldDocuments
      <4>q. QED
        BY <1>0, <3>2, <4>1 DEF OfficeTypeOK
    <3>q. QED
      BY <2>2, <3>1, <3>2
  <2>7. Calm
    BY <2>2, <2>3, <2>5, <2>6 DEF Calm, WatchInv, SeenOK
  <2>q. QED
    BY <2>7, CalmWatches
<1>q. QED
  BY <1>4, <1>5, <1>6, <1>7, <1>8, <1>9, TripWatches DEF FieldMove

LEMMA WatchStays ==
    ASSUME WatchInv, [Next]_vars
    PROVE  WatchInv'
<1>1. FieldInv /\ DeedInv'
  BY DeedsStay DEF WatchInv, DeedInv
<1>2. CASE OfficeStep
  <2>1. OfficeMove
    BY <1>1, <1>2, OfficeMoves DEF FieldInv, FieldTypeOK, OfficeStep
  <2>q. QED
    BY <1>1, <1>2, <2>1, OfficeIsCalm, CalmWatches DEF OfficeStep
<1>3. CASE FieldStep
  BY <1>1, <1>3, FieldWatches DEF FieldStep
<1>4. CASE UNCHANGED vars
  <2>1. Calm
    BY <1>4 DEF vars, officeVars, fieldVars, Calm, WatchInv, SeenOK, Stored
  <2>q. QED
    BY <1>1, <2>1, CalmWatches
<1>q. QED
  BY <1>1, <1>2, <1>3, <1>4, StepKinds

\* A vehicle past its threshold has had a service requested and never two at
\* once, whatever trips overtake each other; its mileage covers every trip
\* unless one was written on a read another trip had outdated
\* (VehicleIsWatched, createTripLog).
THEOREM VehiclesAreWatched == Spec => []VehicleIsWatched
<1>1. Init => WatchInv
  <2> SUFFICES ASSUME Init PROVE WatchInv
    OBVIOUS
  <2>1. PICK scene \in Scenes : OfficeInit(scene) /\ FieldInit(scene)
    BY DEF Init
  <2>2. DeedInv
    BY DeedsBegin
  <2>3. SeenOK
    BY <2>1, FreeType DEF FieldInit, SeenOK, FreshlyRead
  <2>4. \A c \in KindOf("trip_log") : ~Stored(c) /\ status[DocOf[c]] # "OPEN"
    <3>1. \A c \in Capture : ~Stored(c)
      BY <2>1 DEF FieldInit, Stored
    <3>q. QED
      BY <2>2, <3>1, TripFacts DEF DeedInv, RowsAhead
  <2>q. QED
    BY <2>2, <2>3, <2>4 DEF WatchInv, Watched, TripsOf, OpenRequests
<1>2. WatchInv /\ [Next]_vars => WatchInv'
  BY WatchStays
<1>3. WatchInv => VehicleIsWatched
  BY WatchInvSuffices
<1>q. QED
  BY <1>1, <1>2, <1>3, PTL DEF Spec

--------------------------------------------------------------------------------
(* The books.                                                               *)

\* All entries of the balances, summed.
Net(b) == SumFunctionOnSet(b, Account)

LEMMA NetIsSum ==
    ASSUME NEW b \in [Account -> Int]
    PROVE  SumOf(b) = Net(b) /\ Net(b) \in Int
BY BooksAssumption, SumIsInteger DEF Net

\* What is added to the balances is added to their sum.
LEMMA NetMoves ==
    ASSUME NEW b \in [Account -> Int], NEW e \in [Account -> Int]
    PROVE  SumOf(Plus(b, e)) = SumOf(b) + SumOf(e) /\ SumOf(Minus(b, e)) = SumOf(b) - SumOf(e)
<1>1. PICK p, m : p = Plus(b, e) /\ m = Minus(b, e)
  OBVIOUS
<1>2. p \in [Account -> Int] /\ m \in [Account -> Int]
  BY <1>1, BalanceTypes
<1>3. \A a \in Account : p[a] = b[a] + e[a] /\ b[a] = m[a] + e[a]
  BY <1>1 DEF Plus, Minus
<1>4. \A a \in Account : b[a] \in Int /\ e[a] \in Int /\ m[a] \in Int
  BY <1>2
<1>5. Net(p) = Net(b) + Net(e)
  BY <1>3, <1>4, BooksAssumption, SumPlus DEF Net
<1>6. Net(b) = Net(m) + Net(e)
  BY <1>3, <1>4, BooksAssumption, SumPlus DEF Net
<1>7. /\ SumOf(p) = Net(p) /\ SumOf(m) = Net(m) /\ SumOf(b) = Net(b) /\ SumOf(e) = Net(e)
      /\ Net(p) \in Int /\ Net(m) \in Int /\ Net(b) \in Int /\ Net(e) \in Int
  BY <1>2, NetIsSum
<1>q. QED
  BY <1>1, <1>5, <1>6, <1>7

\* An expense is balanced, if it is not booked to the payables.
LEMMA ExpenseBalances ==
    ASSUME NEW a \in Account, a # AccountsPayable, NEW n \in Int
    PROVE  SumOf(ExpenseEffect(a, n)) = 0
<1>1. PICK e : e = ExpenseEffect(a, n)
  OBVIOUS
<1>2. e \in [Account -> Int]
  BY <1>1, BalanceTypes
<1>3. /\ e[a] = n /\ e[AccountsPayable] = -n
      /\ \A x \in Account \ {a, AccountsPayable} : e[x] = 0
  BY <1>1, BooksAssumption DEF ExpenseEffect
<1>4. SumFunctionOnSet(e, Account) = e[a] + e[AccountsPayable]
  BY <1>2, <1>3, BooksAssumption, SumOfTwo
<1>q. QED
  BY <1>1, <1>2, <1>3, <1>4, NetIsSum DEF Net

\* A close is balanced, whatever it has read.
LEMMA CloseBalances ==
    ASSUME NEW r \in [Account -> Int]
    PROVE  SumOf(ClosingEffect(r)) = 0
<1>1. PICK e, g : e = ClosingEffect(r) /\ g = [b \in PnL |-> r[b]]
  OBVIOUS
<1>2. /\ e \in [Account -> Int] /\ g \in [PnL -> Int] /\ PnL \subseteq Account
      /\ IsFiniteSet(PnL) /\ IsFiniteSet(Account \ PnL)
  <2>1. PnL \subseteq Account
    BY DEF PnL
  <2>q. QED
    BY <1>1, <2>1, BalanceTypes, BooksAssumption, FS_Subset
<1>3. RetainedEarnings \in Account \ PnL
  BY BooksAssumption DEF PnL
<1>4. /\ \A a \in PnL : e[a] = -g[a]
      /\ e[RetainedEarnings] = SumOf(g)
      /\ \A a \in (Account \ PnL) \ {RetainedEarnings} : e[a] = 0
  BY <1>1, <1>2, <1>3 DEF ClosingEffect
<1>5. SumOf(g) \in Int /\ SumOf(g) = SumFunctionOnSet(g, PnL)
  BY <1>2, SumIsInteger
<1>6. SumFunctionOnSet(e, PnL) = -SumOf(g)
  <2>1. PICK z : z = [a \in PnL |-> 0]
    OBVIOUS
  <2>2. \A a \in PnL : e[a] \in Int /\ g[a] \in Int /\ z[a] = e[a] + g[a] /\ z[a] = 0
    BY <1>2, <1>4, <2>1
  <2>3. SumFunctionOnSet(z, PnL) = SumFunctionOnSet(e, PnL) + SumFunctionOnSet(g, PnL)
    BY <1>2, <2>2, SumPlus
  <2>4. SumFunctionOnSet(z, PnL) = 0
    BY <1>2, <2>2, SumZero
  <2>5. SumFunctionOnSet(e, PnL) \in Int
    BY <1>2, <2>2, SumInteger
  <2>q. QED
    BY <1>5, <2>3, <2>4, <2>5
<1>7. SumFunctionOnSet(e, Account \ PnL) = SumOf(g)
  <2>1. \A a \in Account \ PnL : e[a] \in Int
    BY <1>2
  <2>2. SumFunctionOnSet(e, Account \ PnL)
          = e[RetainedEarnings] + SumFunctionOnSet(e, (Account \ PnL) \ {RetainedEarnings})
    BY <1>2, <1>3, <2>1, SumSplit
  <2>3. SumFunctionOnSet(e, (Account \ PnL) \ {RetainedEarnings}) = 0
    <3>1. IsFiniteSet((Account \ PnL) \ {RetainedEarnings})
      BY <1>2, FS_RemoveElement
    <3>q. QED
      BY <1>4, <3>1, SumZero
  <2>q. QED
    BY <1>4, <1>5, <2>2, <2>3
<1>8. SumFunctionOnSet(e, Account) = SumFunctionOnSet(e, PnL) + SumFunctionOnSet(e, Account \ PnL)
  <2>1. PnL \cup (Account \ PnL) = Account /\ PnL \cap (Account \ PnL) = {}
    BY <1>2
  <2>2. \A a \in PnL \cup (Account \ PnL) : e[a] \in Int
    BY <1>2, <2>1
  <2>3. SumFunctionOnSet(e, PnL \cup (Account \ PnL))
          = SumFunctionOnSet(e, PnL) + SumFunctionOnSet(e, Account \ PnL)
    BY <1>2, <2>1, <2>2, SumUnion
  <2>q. QED
    BY <2>1, <2>3
<1>q. QED
  BY <1>1, <1>2, <1>5, <1>6, <1>7, <1>8, NetIsSum DEF Net

\* The trial balance is the sum of its five sections.
LEMMA SectionsAddUp ==
    ASSUME balance \in [Account -> Int]
    PROVE  /\ TrialBalance = BalanceSheetGap - NetIncome
           /\ TrialBalance \in Int /\ BalanceSheetGap \in Int /\ NetIncome \in Int
<1> DEFINE Of(type) == {a \in Account : TypeOf[a] = type}
           In(S) == SumFunctionOnSet(balance, S)
<1>1. \A S \in SUBSET Account : IsFiniteSet(S) /\ In(S) \in Int /\ \A a \in S : balance[a] \in Int
  BY BooksAssumption, FS_Subset, SumInteger
<1>2. ASSUME NEW type
      PROVE  TotalOf(type) = In(Of(type)) /\ Of(type) \in SUBSET Account
  <2>1. Of(type) \in SUBSET Account
    OBVIOUS
  <2>2. PICK S, f : S = Of(type) /\ f = [a \in S |-> balance[a]]
    OBVIOUS
  <2>3. TotalOf(type) = SumOf(f)
    BY <2>2 DEF TotalOf
  <2>4. IsFiniteSet(S) /\ f \in [S -> Int] /\ \A a \in S : f[a] = balance[a]
    BY <1>1, <2>1, <2>2
  <2> HIDE DEF Of
  <2>5. SumOf(f) = SumFunctionOnSet(f, S)
    BY <2>4, SumIsInteger
  <2>6. SumFunctionOnSet(f, S) = SumFunctionOnSet(balance, S)
    BY <2>4, SumSame
  <2>q. QED
    BY <2>1, <2>2, <2>3, <2>5, <2>6
<1>3. ASSUME NEW S \in SUBSET Account, NEW T \in SUBSET Account, S \cap T = {}
      PROVE  In(S \cup T) = In(S) + In(T) /\ S \cup T \in SUBSET Account
  <2>1. IsFiniteSet(S) /\ IsFiniteSet(T) /\ \A a \in S \cup T : balance[a] \in Int
    BY <1>1
  <2>q. QED
    BY <1>3, <2>1, SumUnion
<1> DEFINE A == Of("ASSET")
           L == Of("LIABILITY")
           E == Of("EQUITY")
           R == Of("REVENUE")
           X == Of("EXPENSE")
<1>4. /\ A \in SUBSET Account /\ L \in SUBSET Account /\ E \in SUBSET Account
      /\ R \in SUBSET Account /\ X \in SUBSET Account
      /\ A \cap L = {} /\ (A \cup L) \cap E = {} /\ ((A \cup L) \cup E) \cap R = {}
      /\ (((A \cup L) \cup E) \cup R) \cap X = {}
      /\ (((A \cup L) \cup E) \cup R) \cup X = Account
  BY BooksAssumption
<1> HIDE DEF Of, A, L, E, R, X
<1>5. /\ In(A \cup L) = In(A) + In(L) /\ A \cup L \in SUBSET Account
  BY <1>3, <1>4
<1>6. /\ In((A \cup L) \cup E) = In(A \cup L) + In(E) /\ (A \cup L) \cup E \in SUBSET Account
  BY <1>3, <1>4, <1>5
<1>7. /\ In(((A \cup L) \cup E) \cup R) = In((A \cup L) \cup E) + In(R)
      /\ ((A \cup L) \cup E) \cup R \in SUBSET Account
  BY <1>3, <1>4, <1>6
<1>8. In((((A \cup L) \cup E) \cup R) \cup X) = In(((A \cup L) \cup E) \cup R) + In(X)
  BY <1>3, <1>4, <1>7
<1>9. TrialBalance = In(Account)
  BY NetIsSum DEF TrialBalance, Net
<1>10. /\ In(A) \in Int /\ In(L) \in Int /\ In(E) \in Int /\ In(R) \in Int /\ In(X) \in Int
  BY <1>1, <1>4
<1>11. /\ TotalOf("ASSET") = In(A) /\ TotalOf("LIABILITY") = In(L) /\ TotalOf("EQUITY") = In(E)
       /\ TotalOf("REVENUE") = In(R) /\ TotalOf("EXPENSE") = In(X)
  BY <1>2 DEF A, L, E, R, X
<1> HIDE DEF In
<1>12. TrialBalance = In(A) + In(L) + In(E) + In(R) + In(X)
  BY <1>4, <1>5, <1>6, <1>7, <1>8, <1>9, <1>10
<1>q. QED
  BY <1>10, <1>11, <1>12 DEF BalanceSheetGap, NetIncome

\* The entries that count for the reports, and the cents each of them lost.
Journals == {d \in DocsOf("MANUAL_JOURNAL_ENTRY") : status[d] = "POSTED"}
Loss == [d \in DocsOf("MANUAL_JOURNAL_ENTRY") |-> RoundingLoss(d)]

LEMMA LossType ==
    ASSUME NEW d \in DocsOf("MANUAL_JOURNAL_ENTRY")
    PROVE  /\ Effect(LinesOf[d]) \in [Account -> Int]
           /\ Loss[d] = SumOf(Effect(LinesOf[d])) /\ Loss[d] \in Int
<1>1. LinesOf[d] \in Lines
  BY OfficeAssumption
<1>2. Effect(LinesOf[d]) \in [Account -> Int]
  BY <1>1, EffectType
<1>q. QED
  BY <1>2, NetIsSum DEF Loss, RoundingLoss

\* What one entry more or less does to the loss.
LEMMA LossMoves ==
    ASSUME NEW J \in SUBSET DocsOf("MANUAL_JOURNAL_ENTRY"), IsFiniteSet(J),
           NEW d \in DocsOf("MANUAL_JOURNAL_ENTRY")
    PROVE  /\ IsFiniteSet(J \cup {d}) /\ IsFiniteSet(J \ {d})
           /\ SumFunctionOnSet(Loss, J) \in Int
           /\ d \notin J => SumFunctionOnSet(Loss, J \cup {d}) = SumFunctionOnSet(Loss, J) + Loss[d]
           /\ d \in J => SumFunctionOnSet(Loss, J \ {d}) = SumFunctionOnSet(Loss, J) - Loss[d]
<1>1. IsFiniteSet(J \cup {d}) /\ IsFiniteSet(J \ {d})
  BY FS_AddElement, FS_RemoveElement
<1>2. \A x \in J \cup {d} : Loss[x] \in Int
  BY LossType
<1>3. ASSUME NEW S \in SUBSET (J \cup {d}), IsFiniteSet(S)
      PROVE  SumFunctionOnSet(Loss, S) \in Int
  BY <1>2, <1>3, SumInteger
<1>4. ASSUME d \notin J
      PROVE  SumFunctionOnSet(Loss, J \cup {d}) = SumFunctionOnSet(Loss, J) + Loss[d]
  <2>1. PICK K : K = J \cup {d}
    OBVIOUS
  <2>2. K \ {d} = J /\ d \in K /\ IsFiniteSet(K) /\ \A x \in K : Loss[x] \in Int
    BY <1>1, <1>2, <1>4, <2>1
  <2>4. SumFunctionOnSet(Loss, K) = Loss[d] + SumFunctionOnSet(Loss, K \ {d})
    BY <2>2, SumSplit
  <2>3. SumFunctionOnSet(Loss, J) \in Int /\ Loss[d] \in Int
    BY <1>2, <1>3
  <2>5. SumFunctionOnSet(Loss, K) = Loss[d] + SumFunctionOnSet(Loss, J)
    BY <2>2, <2>4
  <2>6. SumFunctionOnSet(Loss, K) = SumFunctionOnSet(Loss, J) + Loss[d]
    BY <2>3, <2>5
  <2>q. QED
    BY <2>1, <2>6
<1>5. ASSUME d \in J
      PROVE  SumFunctionOnSet(Loss, J \ {d}) = SumFunctionOnSet(Loss, J) - Loss[d]
  <2>1. SumFunctionOnSet(Loss, J) = Loss[d] + SumFunctionOnSet(Loss, J \ {d})
    BY <1>2, <1>5, SumSplit
  <2>q. QED
    BY <1>1, <1>2, <1>3, <2>1
<1>q. QED
  BY <1>1, <1>3, <1>4, <1>5

\* The category books to an expense account once it is there, and no expense
\* is requested before.
CategoryOK ==
    /\ category.state # "none" => TypeOf[category.account] = "EXPENSE"
    /\ category.state = "none" => /\ \A d \in DocsOf("EXPENSE_REQUEST") : status[d] \in {"absent", "none"}
                                  /\ \A h \in Handler : job[h].at # "insert"

BookInv ==
    /\ DeedInv /\ CategoryOK /\ IsFiniteSet(Journals)
    /\ TrialBalance = SumFunctionOnSet(Loss, Journals)

LEMMA BookInvSuffices == BookInv => BalanceSheetExplained
<1> SUFFICES ASSUME BookInv PROVE BalanceSheetExplained
  OBVIOUS
<1>1. PICK f : f = [d \in Journals |-> RoundingLoss(d)]
  OBVIOUS
<1>2. \A d \in Journals : f[d] = Loss[d] /\ f[d] \in Int
  <2> SUFFICES ASSUME NEW d \in Journals PROVE f[d] = Loss[d] /\ f[d] \in Int
    OBVIOUS
  <2>1. d \in DocsOf("MANUAL_JOURNAL_ENTRY")
    BY DEF Journals
  <2>q. QED
    BY <1>1, <2>1, LossType DEF Loss
<1>3. f \in [Journals -> Int] /\ IsFiniteSet(Journals)
  BY <1>1, <1>2 DEF BookInv
<1>4. SumOf(f) = SumFunctionOnSet(Loss, Journals) /\ SumOf(f) \in Int
  BY <1>2, <1>3, SumIsInteger, SumSame
<1>5. balance \in [Account -> Int]
  BY OfficeTypes DEF BookInv, DeedInv, FieldInv, FieldTypeOK
<1>6. /\ TrialBalance = BalanceSheetGap - NetIncome
      /\ TrialBalance \in Int /\ BalanceSheetGap \in Int /\ NetIncome \in Int
  BY <1>5, SectionsAddUp
<1>7. TrialBalance = SumOf(f)
  BY <1>4 DEF BookInv
<1>8. TrialBalance = SumOf(f) /\ BalanceSheetGap = NetIncome + SumOf(f)
  BY <1>4, <1>6, <1>7
<1>q. QED
  BY <1>1, <1>8, Zenon DEF BalanceSheetExplained, Journals

\* What a step does to the books: nothing; what is balanced; the lines of an
\* entry that begins or ceases to count.
Booked ==
    \/ balance' = balance /\ Journals' = Journals
    \/ /\ Journals' = Journals
       /\ \E e \in [Account -> Int] : SumOf(e) = 0 /\ balance' = Plus(balance, e)
    \/ \E d \in DocsOf("MANUAL_JOURNAL_ENTRY") \ Journals :
          Journals' = Journals \cup {d} /\ balance' = Plus(balance, Effect(LinesOf[d]))
    \/ \E d \in Journals :
          Journals' = Journals \ {d} /\ balance' = Minus(balance, Effect(LinesOf[d]))

LEMMA BookedAddsUp ==
    ASSUME BookInv, Booked, OfficeTypeOK'
    PROVE  IsFiniteSet(Journals)' /\ (TrialBalance = SumFunctionOnSet(Loss, Journals))'
<1>1. /\ balance \in [Account -> Int] /\ IsFiniteSet(Journals)
      /\ Journals \in SUBSET DocsOf("MANUAL_JOURNAL_ENTRY")
      /\ SumOf(balance) = SumFunctionOnSet(Loss, Journals)
  BY OfficeTypes DEF BookInv, DeedInv, FieldInv, FieldTypeOK, TrialBalance, Journals
<1>2. SUFFICES IsFiniteSet(Journals') /\ SumOf(balance') = SumFunctionOnSet(Loss, Journals')
  BY DEF TrialBalance, Loss
<1>3. CASE balance' = balance /\ Journals' = Journals
  BY <1>1, <1>3
<1>4. ASSUME Journals' = Journals,
             NEW e \in [Account -> Int], SumOf(e) = 0, balance' = Plus(balance, e)
      PROVE  IsFiniteSet(Journals') /\ SumOf(balance') = SumFunctionOnSet(Loss, Journals')
  <2>1. SumOf(Plus(balance, e)) = SumOf(balance) + SumOf(e)
    BY <1>1, NetMoves
  <2>2. SumOf(balance) \in Int
    BY <1>1, NetIsSum
  <2>q. QED
    BY <1>1, <1>4, <2>1, <2>2
<1>5. ASSUME NEW d \in DocsOf("MANUAL_JOURNAL_ENTRY") \ Journals,
             Journals' = Journals \cup {d}, balance' = Plus(balance, Effect(LinesOf[d]))
      PROVE  IsFiniteSet(Journals') /\ SumOf(balance') = SumFunctionOnSet(Loss, Journals')
  <2>1. Effect(LinesOf[d]) \in [Account -> Int] /\ Loss[d] = SumOf(Effect(LinesOf[d]))
    BY LossType
  <2>2. SumOf(Plus(balance, Effect(LinesOf[d]))) = SumOf(balance) + SumOf(Effect(LinesOf[d]))
    BY <1>1, <2>1, NetMoves
  <2>3. /\ IsFiniteSet(Journals \cup {d})
        /\ SumFunctionOnSet(Loss, Journals \cup {d}) = SumFunctionOnSet(Loss, Journals) + Loss[d]
    BY <1>1, LossMoves
  <2>q. QED
    BY <1>1, <1>5, <2>1, <2>2, <2>3
<1>6. ASSUME NEW d \in Journals,
             Journals' = Journals \ {d}, balance' = Minus(balance, Effect(LinesOf[d]))
      PROVE  IsFiniteSet(Journals') /\ SumOf(balance') = SumFunctionOnSet(Loss, Journals')
  <2>0. d \in DocsOf("MANUAL_JOURNAL_ENTRY")
    BY <1>1
  <2>1. Effect(LinesOf[d]) \in [Account -> Int] /\ Loss[d] = SumOf(Effect(LinesOf[d]))
    BY <2>0, LossType
  <2>2. SumOf(Minus(balance, Effect(LinesOf[d]))) = SumOf(balance) - SumOf(Effect(LinesOf[d]))
    BY <1>1, <2>1, NetMoves
  <2>3. /\ IsFiniteSet(Journals \ {d})
        /\ SumFunctionOnSet(Loss, Journals \ {d}) = SumFunctionOnSet(Loss, Journals) - Loss[d]
    BY <1>1, <2>0, LossMoves
  <2>q. QED
    BY <1>1, <1>6, <2>1, <2>2, <2>3
<1>q. QED
  BY <1>3, <1>4, <1>5, <1>6 DEF Booked

CategoryMoves == category' = category \/ CreateCategory \/ DeactivateCategory

LEMMA JournalsRest ==
    ASSUME OfficeTypeOK, NEW x \in Doc, NEW s, status' = [status EXCEPT ![x] = s],
           Type[x] # "MANUAL_JOURNAL_ENTRY" \/ (status[x] # "POSTED" /\ s # "POSTED")
    PROVE  Journals' = Journals
<1>1. \A d \in Doc : status'[d] = IF d = x THEN s ELSE status[d]
  BY OfficeTypes
<1>q. QED
  BY <1>1 DEF Journals, DocsOf

\* A request that settles another kind of document.
LEMMA OthersRest ==
    ASSUME OfficeTypeOK, NEW h \in Handler, NEW s, NEW books, NEW next,
           Settle(h, s, books, next), Type[job[h].doc] # "MANUAL_JOURNAL_ENTRY"
    PROVE  Journals' = Journals /\ category' = category
<1>1. job[h].doc \in Doc
  BY OfficeTypes
<1>2. status' = [status EXCEPT ![job[h].doc] = s] /\ category' = category
  BY DEF Settle
<1>q. QED
  BY <1>1, <1>2, JournalsRest

\* A manual entry that is decided on.
LEMMA EntryBooked ==
    ASSUME OfficeTypeOK, NEW h \in Handler, NEW s \in {"POSTED", "REJECTED"}, NEW books, NEW next,
           Settle(h, s, books, next), Type[job[h].doc] = "MANUAL_JOURNAL_ENTRY",
           LET d == job[h].doc
           IN  /\ s = "POSTED" => balance' = IF status[d] = "POSTED" THEN balance
                                             ELSE Plus(balance, Effect(LinesOf[d]))
               /\ s = "REJECTED" => balance' = IF status[d] # "POSTED" THEN balance
                                               ELSE Minus(balance, Effect(LinesOf[d]))
    PROVE  Booked /\ category' = category
<1>1. PICK d : d = job[h].doc
  OBVIOUS
<1>2. d \in DocsOf("MANUAL_JOURNAL_ENTRY") /\ d \in Doc
  BY <1>1, OfficeTypes DEF DocsOf
<1>3. status' = [status EXCEPT ![d] = s] /\ category' = category
  BY <1>1 DEF Settle
<1>4. \A x \in Doc : status'[x] = IF x = d THEN s ELSE status[x]
  BY <1>2, <1>3, OfficeTypes
<1>5. d \in Journals <=> status[d] = "POSTED"
  BY <1>2 DEF Journals
<1>6. CASE s = "POSTED" /\ status[d] # "POSTED"
  <2>1. Journals' = Journals \cup {d}
    BY <1>2, <1>4, <1>6 DEF Journals, DocsOf
  <2>2. balance' = Plus(balance, Effect(LinesOf[d]))
    BY <1>1, <1>6
  <2>q. QED
    BY <1>2, <1>3, <1>5, <1>6, <2>1, <2>2 DEF Booked
<1>7. CASE s = "REJECTED" /\ status[d] = "POSTED"
  <2>1. Journals' = Journals \ {d}
    BY <1>2, <1>4, <1>7 DEF Journals, DocsOf
  <2>2. balance' = Minus(balance, Effect(LinesOf[d]))
    BY <1>1, <1>7
  <2>q. QED
    BY <1>3, <1>5, <1>7, <2>1, <2>2 DEF Booked
<1>8. CASE s = "POSTED" <=> status[d] = "POSTED"
  <2>1. Journals' = Journals
    BY <1>2, <1>4, <1>8 DEF Journals, DocsOf
  <2>2. balance' = balance
    BY <1>1, <1>8
  <2>q. QED
    BY <1>3, <2>1, <2>2 DEF Booked
<1>q. QED
  BY <1>6, <1>7, <1>8

\* An expense is approved only once its category is there.
LEMMA ExpenseBooked ==
    ASSUME DeedInv, CategoryOK, NEW h \in Handler, Approving(h, "EXPENSE_REQUEST")
    PROVE  LET e == ExpenseEffect(category.account, job[h].cost)
           IN  e \in [Account -> Int] /\ SumOf(e) = 0
<1>1. job[h].doc \in DocsOf("EXPENSE_REQUEST") /\ job[h].cost \in Int /\ category.account \in Account
  BY OfficeTypes DEF DeedInv, FieldInv, FieldTypeOK, OfficeTypeOK, Approving, Granted, DocsOf
<1>2. status[job[h].doc] \in Past
  BY DEF DeedInv, Standings, Standing, Deciding, Approving, Granted
<1>3. category.state # "none"
  BY <1>1, <1>2, StatusFacts DEF CategoryOK
<1>4. category.account # AccountsPayable
  BY <1>3, BooksAssumption DEF CategoryOK
<1>q. QED
  BY <1>1, <1>4, BalanceTypes, ExpenseBalances

LEMMA OfficeBooks ==
    ASSUME DeedInv, CategoryOK, OfficeNext
    PROVE  Booked /\ CategoryMoves
<1>0. /\ OfficeTypeOK /\ JobsOK
      /\ \A h \in Handler : \A act, type : Granted(h, act, type) => Type[job[h].doc] = type
  BY DEF DeedInv, FieldInv, FieldTypeOK, Granted
<1> DEFINE Goal == Booked /\ CategoryMoves
<1>1. ASSUME UNCHANGED <<status, category, balance>>
      PROVE  Goal
  BY <1>1 DEF Booked, CategoryMoves, Journals
<1>2. ASSUME balance' = balance, category' = category, Journals' = Journals
      PROVE  Goal
  BY <1>2 DEF Booked, CategoryMoves
<1>3. ASSUME NEW e \in [Account -> Int], SumOf(e) = 0, balance' = Plus(balance, e),
             category' = category, Journals' = Journals
      PROVE  Goal
  BY <1>3 DEF Booked, CategoryMoves
<1>4. ASSUME NEW h, NEW act, NEW type, Review(h, act, type)
      PROVE  Goal
  BY <1>1, <1>4 DEF Review, Accept, Start
<1>5. ASSUME NEW h, NEW type, Advance(h, type)
      PROVE  Goal
  BY <1>1, <1>5 DEF Advance
<1>6. ASSUME NEW h \in Handler, NEW s, NEW books, NEW next, Settle(h, s, books, next),
             NEW act, NEW type, Granted(h, act, type), type # "MANUAL_JOURNAL_ENTRY",
             balance' = balance
      PROVE  Goal
  BY <1>0, <1>2, <1>6, OthersRest
<1>7. ASSUME NEW h, NEW type, Publish(h, type)
      PROVE  Goal
  BY <1>1, <1>7 DEF Publish
<1>8. CASE SubmitOnboarding \/ CreateManualJournalEntry \/ CalculateRun
  <2>1. PICK d \in Doc, s \in {"PENDING_APPROVAL", "CALCULATED"} :
           /\ status[d] = "none" /\ status' = [status EXCEPT ![d] = s]
           /\ UNCHANGED <<category, balance>>
    BY <1>8 DEF SubmitOnboarding, CreateManualJournalEntry, CalculateRun, DocsOf
  <2>2. Journals' = Journals
    BY <1>0, <2>1, JournalsRest
  <2>q. QED
    BY <1>2, <2>1, <2>2
<1>9. CASE CreateCategory \/ DeactivateCategory
  <2>1. UNCHANGED <<status, balance>>
    BY <1>9 DEF CreateCategory, DeactivateCategory, SetCategory
  <2>q. QED
    BY <1>9, <2>1 DEF Booked, CategoryMoves, Journals
<1>10. CASE LedgerPosts
  <2>1. PICK p \in due : balance' = Plus(balance, PostingEffect[p]) /\ UNCHANGED <<category, status>>
    BY <1>10 DEF LedgerPosts
  <2>2. PostingEffect[p] \in [Account -> Int] /\ SumOf(PostingEffect[p]) = 0
    BY <1>0, <2>1, OfficeAssumption DEF OfficeTypeOK
  <2>3. Journals' = Journals
    BY <2>1 DEF Journals
  <2>q. QED
    BY <1>3, <2>1, <2>2, <2>3
<1> HIDE DEF Goal
<1>11. ASSUME NEW h \in Handler, NEW type, type # "MANUAL_JOURNAL_ENTRY", Reject(h, type)
       PROVE  Goal
  BY <1>4, <1>6, <1>11 DEF Reject
<1>12. ASSUME NEW h \in Handler, NEW type, type # "MANUAL_JOURNAL_ENTRY",
              NEW s, SettleOnly(h, type, s)
       PROVE  Goal
  BY <1>4, <1>5, <1>6, <1>12 DEF SettleOnly, Approving
<1>13. ASSUME NEW h \in Handler,
              \/ CreateExpenseRequest(h) \/ SubmitMaintenanceRequest(h)
              \/ Approve(h) \/ Refuse(h) \/ PostRun(h) \/ CloseBooks(h)
              \/ Decide(h) \/ Record(h) \/ Abandon(h)
       PROVE  Goal
  <2>1. CASE CreateExpenseRequest(h)
    <3>1. CASE UNCHANGED <<status, category, balance>>
      BY <1>1, <3>1
    <3>2. CASE /\ job[h].at = "insert" /\ Settle(h, "PENDING_APPROVAL", FALSE, Idle)
               /\ balance' = balance
      <4>1. Type[job[h].doc] # "MANUAL_JOURNAL_ENTRY"
        BY <1>0, <3>2 DEF JobsOK, JobOK
      <4>q. QED
        BY <1>0, <1>2, <3>2, <4>1, OthersRest
    <3>q. QED
      BY <2>1, <3>1, <3>2 DEF CreateExpenseRequest, Start
  <2>2. CASE SubmitMaintenanceRequest(h)
    <3>1. CASE UNCHANGED <<status, category, balance>>
      BY <1>1, <3>1
    <3>2. CASE /\ job[h].at = "submit" /\ status' = [status EXCEPT ![job[h].doc] = "PENDING_APPROVAL"]
               /\ UNCHANGED <<category, balance>>
      <4>1. Type[job[h].doc] # "MANUAL_JOURNAL_ENTRY" /\ job[h].doc \in Doc
        BY <1>0, <3>2, OfficeTypes DEF JobsOK, JobOK
      <4>2. Journals' = Journals
        BY <1>0, <3>2, <4>1, JournalsRest
      <4>q. QED
        BY <1>2, <3>2, <4>2
    <3>q. QED
      BY <2>2, <3>1, <3>2 DEF SubmitMaintenanceRequest, Start
  <2>3. CASE ApprovePurchaseOrder(h) \/ ApproveBatchCostReview(h)
    BY <1>12, <2>3 DEF ApprovePurchaseOrder, ApproveBatchCostReview
  <2>4. CASE ApproveOnboarding(h)
    BY <1>1, <1>4, <1>5, <1>6, <2>4 DEF ApproveOnboarding, Approving, Abandon
  <2>5. CASE ApproveExpenseRequest(h)
    <3>1. CASE /\ Approving(h, "EXPENSE_REQUEST") /\ Settle(h, "POSTED", TRUE, Idle)
               /\ balance' = Plus(balance, ExpenseEffect(category.account, job[h].cost))
      <4>1. PICK e : e = ExpenseEffect(category.account, job[h].cost)
        OBVIOUS
      <4>2. e \in [Account -> Int] /\ SumOf(e) = 0
        BY <3>1, <4>1, ExpenseBooked
      <4>3. Type[job[h].doc] # "MANUAL_JOURNAL_ENTRY"
        BY <1>0, <3>1 DEF Approving
      <4>4. Journals' = Journals /\ category' = category
        BY <1>0, <3>1, <4>3, OthersRest
      <4>q. QED
        BY <1>3, <3>1, <4>1, <4>2, <4>4
    <3>q. QED
      BY <1>4, <1>5, <2>5, <3>1 DEF ApproveExpenseRequest
  <2>6. CASE ApproveJournalEntry(h) \/ RejectJournalEntry(h)
    <3>1. CASE /\ Approving(h, "MANUAL_JOURNAL_ENTRY") /\ Settle(h, "POSTED", TRUE, Idle)
               /\ balance' = IF status[job[h].doc] = "POSTED" THEN balance
                             ELSE Plus(balance, Effect(LinesOf[job[h].doc]))
      <4>1. Type[job[h].doc] = "MANUAL_JOURNAL_ENTRY"
        BY <1>0, <3>1 DEF Approving
      <4>2. Booked /\ category' = category
        BY <1>0, <3>1, <4>1, EntryBooked
      <4>q. QED
        BY <4>2 DEF Goal, CategoryMoves
    <3>2. CASE /\ Granted(h, "reject", "MANUAL_JOURNAL_ENTRY") /\ Settle(h, "REJECTED", TRUE, Idle)
               /\ balance' = IF status[job[h].doc] # "POSTED" THEN balance
                             ELSE Minus(balance, Effect(LinesOf[job[h].doc]))
      <4>1. Type[job[h].doc] = "MANUAL_JOURNAL_ENTRY"
        BY <1>0, <3>2
      <4>2. Booked /\ category' = category
        BY <1>0, <3>2, <4>1, EntryBooked
      <4>q. QED
        BY <4>2 DEF Goal, CategoryMoves
    <3>q. QED
      BY <1>4, <1>5, <2>6, <3>1, <3>2 DEF ApproveJournalEntry, RejectJournalEntry
  <2>7. CASE ApproveMaintenanceCompletion(h)
    BY <1>4, <1>5, <1>6, <1>7, <2>7 DEF ApproveMaintenanceCompletion, Approving
  <2>8. CASE Refuse(h)
    <3>1. RejectJournalEntry(h) \/ \E type : type # "MANUAL_JOURNAL_ENTRY" /\ Reject(h, type)
      BY <2>8 DEF Refuse, RejectPurchaseOrder, RejectOnboarding, RejectExpenseRequest,
         RejectBatchCostReview, RejectMaintenanceCompletion
    <3>q. QED
      BY <1>11, <2>6, <3>1
  <2>9. CASE PostRun(h)
    <3>1. CASE UNCHANGED <<status, category, balance>>
      BY <1>1, <3>1
    <3>2. CASE /\ Granted(h, "post", "PAYROLL_RUN") /\ balance' = balance
               /\ Settle(h, "POSTED", FALSE, [job[h] EXCEPT !.at = "publish"])
      BY <1>6, <3>2
    <3>q. QED
      BY <1>7, <2>9, <3>1, <3>2 DEF PostRun, Accept, Start, FindRun
  <2>10. CASE CloseBooks(h)
    <3>1. CASE UNCHANGED <<status, category, balance>>
      BY <1>1, <3>1
    <3>2. CASE /\ Granted(h, "close", "PERIOD_CLOSE") /\ Settle(h, "POSTED", TRUE, Idle)
               /\ balance' = Plus(balance, ClosingEffect(job[h].read))
      <4>1. job[h].read \in [Account -> Int]
        BY <1>0 DEF OfficeTypeOK, Jobs
      <4>2. PICK e : e = ClosingEffect(job[h].read)
        OBVIOUS
      <4>3. e \in [Account -> Int] /\ SumOf(e) = 0
        BY <4>1, <4>2, BalanceTypes, CloseBalances
      <4>4. Type[job[h].doc] # "MANUAL_JOURNAL_ENTRY"
        BY <1>0, <3>2
      <4>5. Journals' = Journals /\ category' = category
        BY <1>0, <3>2, <4>4, OthersRest
      <4>q. QED
        BY <1>3, <3>2, <4>2, <4>3, <4>5
    <3>q. QED
      BY <2>10, <3>1, <3>2 DEF CloseBooks, Accept, Start
  <2>11. CASE Decide(h) \/ Record(h) \/ Abandon(h)
    BY <1>1, <2>11 DEF Decide, Record, Abandon
  <2>q. QED
    BY <1>13, <2>1, <2>2, <2>3, <2>4, <2>5, <2>6, <2>7, <2>8, <2>9, <2>10, <2>11 DEF Approve
<1>q. QED
  BY <1>8, <1>9, <1>10, <1>13 DEF OfficeNext, Goal

\* While there is no category, expenses are left alone.
LEMMA NoExpenseYet ==
    ASSUME DeedInv, OfficeMove, NEW d \in DocsOf("EXPENSE_REQUEST"),
           status[d] \in {"absent", "none"}, \A h \in Handler : job[h].at # "insert"
    PROVE  status'[d] = status[d]
<1>0. OfficeTypeOK /\ d \in Doc /\ Type[d] = "EXPENSE_REQUEST"
  BY DEF DeedInv, FieldInv, FieldTypeOK, DocsOf
<1>1. CASE UNCHANGED status
  BY <1>1
<1>2. CASE Begins \/ Drops \/ Finds \/ Rests \/ LedgerPosts \/ Publishes
  BY <1>1, <1>2 DEF Begins, Drops, Finds, Rests, LedgerPosts, Publishes, JobStep
<1>3. ASSUME NEW h \in Handler, Decide(h) \/ Record(h)
      PROVE  UNCHANGED status
  BY <1>3 DEF Decide, Record
<1>4. CASE Writes
  <2>1. PICK h \in Handler, books \in BOOLEAN : \E s, g, c, e, next :
           Write(h, s, g, c, e, books, next) /\ Writable(h, s, g, c, e, books, next)
    BY <1>4 DEF Writes
  <2>2. PICK s, g, c, e, next :
           Write(h, s, g, c, e, books, next) /\ Writable(h, s, g, c, e, books, next)
    BY <2>1
  <2>3. Type[job[h].doc] = "EXPENSE_REQUEST" =>
           job[h].at = "insert" \/ (job[h].at = "write" /\ Deciding(job[h]))
    BY <2>2, WriteFacts
  <2>4. Deciding(job[h]) => status[job[h].doc] \in Past
    BY DEF DeedInv, Standings, Standing
  <2>5. d # job[h].doc
    BY <1>0, <2>3, <2>4, StatusFacts
  <2>q. QED
    BY <1>0, <2>2, <2>5, OfficeTypes DEF Write
<1>5. CASE Creates
  <2>1. PICK x \in Doc : \E s, c : Create(x, s, c)
    BY <1>5 DEF Creates
  <2>2. PICK s, c : Create(x, s, c)
    BY <2>1
  <2>q. QED
    BY <1>0, <2>2, OfficeTypes DEF Create
<1>q. QED
  BY <1>1, <1>2, <1>3, <1>4, <1>5 DEF OfficeMove

LEMMA CategoryStays ==
    ASSUME DeedInv, CategoryOK, OfficeNext
    PROVE  CategoryOK'
<1>0. /\ OfficeTypeOK /\ JobsOK
      /\ category \in [state : {"none", "active", "inactive"}, account : Account]
  BY DEF DeedInv, FieldInv, FieldTypeOK, OfficeTypeOK
<1>1. OfficeMove
  BY <1>0, OfficeMoves
<1>2. CASE CreateCategory
  <2>1. PICK a \in {x \in Account : TypeOf[x] = "EXPENSE"} :
           category' = [state |-> "active", account |-> a]
    BY <1>2 DEF CreateCategory, SetCategory
  <2>2. category'.state = "active" /\ TypeOf[category'.account] = "EXPENSE"
    BY <2>1
  <2>q. QED
    BY <2>2 DEF CategoryOK
<1>3. CASE DeactivateCategory
  <2>1. category' = [category EXCEPT !.state = "inactive"] /\ category.state = "active"
    BY <1>3 DEF DeactivateCategory, SetCategory
  <2>2. category'.state = "inactive" /\ category'.account = category.account
    BY <1>0, <2>1
  <2>q. QED
    BY <2>1, <2>2 DEF CategoryOK
<1>4. CASE category' = category
  <2>1. CASE category.state # "none"
    BY <1>4, <2>1 DEF CategoryOK
  <2>2. CASE category.state = "none"
    <3>1. ASSUME NEW d \in DocsOf("EXPENSE_REQUEST")
          PROVE  status'[d] \in {"absent", "none"}
      <4>1. status[d] \in {"absent", "none"} /\ \A h \in Handler : job[h].at # "insert"
        BY <2>2 DEF CategoryOK
      <4>q. QED
        BY <1>1, <4>1, NoExpenseYet
    <3>2. ASSUME NEW k \in Handler
          PROVE  job'[k].at # "insert"
      <4>1. job[k].at # "insert"
        BY <2>2 DEF CategoryOK
      <4>2. CASE Begins
        <5>1. PICK h \in Handler : \E q : job[h].at = "idle" /\ Starting(q) /\ JobStep(h, q)
          BY <4>2 DEF Begins
        <5>2. PICK q : Starting(q) /\ JobStep(h, q)
          BY <5>1
        <5>3. q.at # "insert"
          BY <2>2, <5>2 DEF Starting
        <5>4. job'[h] = q /\ \A i \in Handler \ {h} : job'[i] = job[i]
          BY <1>0, <5>2, JobStepEffect DEF JobStep
        <5>q. QED
          BY <4>1, <5>3, <5>4
      <4>3. CASE \A i \in Handler : Narrows(job'[i], job[i])
        BY <4>1, <4>3 DEF Narrows
      <4>q. QED
        BY <1>1, <4>2, <4>3, RequestsNarrow
    <3>q. QED
      BY <1>4, <2>2, <3>1, <3>2 DEF CategoryOK
  <2>q. QED
    BY <2>1, <2>2
<1>q. QED
  BY <1>2, <1>3, <1>4, OfficeBooks DEF CategoryMoves

\* What the field does is not in the books.
LEMMA FieldKeepsBooks ==
    ASSUME BookInv, FieldStep
    PROVE  CategoryOK' /\ Booked
<1>1. KeepsOffice /\ Touches
  BY FieldTouches DEF BookInv, DeedInv, FieldStep, FieldStays
<1>2. ASSUME NEW d \in Doc, Type[d] \notin {"BATCH_COST", "MAINTENANCE_COMPLETION"}
      PROVE  status'[d] = status[d]
  BY <1>1, <1>2, FieldDocuments DEF Touches, BroughtAbout
<1>3. balance' = balance /\ category' = category /\ job' = job
  BY <1>1 DEF KeepsOffice
<1>4. Journals' = Journals
  BY <1>2 DEF Journals, DocsOf
<1>5. \A d \in DocsOf("EXPENSE_REQUEST") : status'[d] = status[d]
  BY <1>2 DEF DocsOf
<1>q. QED
  BY <1>3, <1>4, <1>5 DEF CategoryOK, Booked, BookInv

LEMMA BooksStay ==
    ASSUME BookInv, [Next]_vars
    PROVE  BookInv'
<1>0. DeedInv /\ CategoryOK /\ DeedInv' /\ OfficeTypeOK'
  BY DeedsStay DEF BookInv, DeedInv, FieldInv, FieldTypeOK
<1>1. CASE OfficeStep
  BY <1>0, <1>1, OfficeBooks, CategoryStays, BookedAddsUp DEF OfficeStep, BookInv
<1>2. CASE FieldStep
  BY <1>0, <1>2, FieldKeepsBooks, BookedAddsUp DEF BookInv
<1>3. CASE UNCHANGED vars
  <2>1. UNCHANGED <<status, category, job, balance>>
    BY <1>3 DEF vars, officeVars
  <2>2. Booked /\ CategoryOK'
    BY <1>0, <2>1 DEF Booked, Journals, CategoryOK
  <2>q. QED
    BY <1>0, <2>2, BookedAddsUp DEF BookInv
<1>q. QED
  BY <1>0, <1>1, <1>2, <1>3, StepKinds DEF DeedInv

LEMMA BooksBegin ==
    ASSUME Init
    PROVE  BookInv
<1>1. PICK scene \in Scenes : OfficeInit(scene)
  BY DEF Init
<1>2. /\ status = [d \in Doc |-> IF d \in scene.docs THEN FirstStatus(Type[d]) ELSE "absent"]
      /\ category = NoCategory /\ balance = Nothing /\ \A h \in Handler : job[h] = Idle
  BY <1>1 DEF OfficeInit
<1>3. CategoryOK
  BY <1>2, IdleType DEF CategoryOK, NoCategory, DocsOf, FirstStatus
<1>4. Journals = {}
  BY <1>2 DEF Journals, DocsOf, FirstStatus
<1>5. SumOf(balance) = 0
  <2>1. balance \in [Account -> Int] /\ \A a \in Account : balance[a] = 0
    BY <1>2, BalanceTypes DEF Nothing
  <2>q. QED
    BY <2>1, BooksAssumption, NetIsSum, SumZero DEF Net
<1>6. IsFiniteSet(Journals) /\ TrialBalance = SumFunctionOnSet(Loss, Journals)
  BY <1>4, <1>5, FS_EmptySet, SumEmpty DEF TrialBalance
<1>q. QED
  BY <1>3, <1>6, DeedsBegin DEF BookInv

\* The trial balance lacks the cents that posted manual entries lost when
\* they were rounded and nothing else, and the balance sheet that and the net
\* income not closed yet: expenses, closes and the entries of ledger-service
\* are balanced, and a rejected entry takes back all it brought.
THEOREM ReportsAgree == Spec => []BalanceSheetExplained
<1>1. Init => BookInv
  BY BooksBegin
<1>2. BookInv /\ [Next]_vars => BookInv'
  BY BooksStay
<1>3. BookInv => BalanceSheetExplained
  BY BookInvSuffices
<1>q. QED
  BY <1>1, <1>2, <1>3, PTL DEF Spec
--------------------------------------------------------------------------------
(* What the statute takes.                                                  *)

\* The hundredths of a naira that a band taxes.
Taxed(b, taxable) == {h \in 1 .. taxable : 100 * b.min < h /\ h <= 100 * b.max}

LEMMA BandType ==
    ASSUME NEW b \in TaxBands
    PROVE  b.min \in Nat /\ b.max \in Nat /\ b.rate \in Nat
BY PayrollAssumption

\* What the code computes for a band is the number of them.
LEMMA BandCounts ==
    ASSUME BandsApart, NEW b \in TaxBands, NEW taxable \in Nat
    PROVE  /\ IsFiniteSet(Taxed(b, taxable)) /\ Cardinality(Taxed(b, taxable)) \in Nat
           /\ InBandH(b, taxable) = Cardinality(Taxed(b, taxable))
<1>1. b.min \in Nat /\ b.max \in Nat /\ b.min <= b.max
  BY BandType DEF BandsApart
<1> DEFINE lo == 100 * b.min + 1
           hi == AtMost(taxable, 100 * b.max)
<1>2. lo \in Int /\ hi \in Int /\ hi <= taxable /\ hi <= 100 * b.max /\ lo >= 1
  BY <1>1 DEF AtMost
<1>3. Taxed(b, taxable) = lo .. hi
  BY <1>1 DEF Taxed, AtMost
<1>4. InBandH(b, taxable) = IF lo > hi THEN 0 ELSE hi - lo + 1
  BY <1>1 DEF InBandH, AtMost
<1> HIDE DEF lo, hi
<1>5. /\ IsFiniteSet(lo .. hi)
      /\ Cardinality(lo .. hi) = IF lo > hi THEN 0 ELSE hi - lo + 1
  BY <1>2, FS_Interval
<1>6. Cardinality(lo .. hi) \in Nat
  BY <1>5, FS_CardinalityType
<1>q. QED
  BY <1>3, <1>4, <1>5, <1>6

\* What the bands of B with rate r tax.
TaxedBy(B, r, taxable) == UNION {Taxed(b, taxable) : b \in {c \in B : c.rate = r}}
Rates == {b.rate : b \in TaxBands}
ByBand(taxable) == [b \in TaxBands |-> InBandH(b, taxable) * b.rate]
ByRate(B, taxable) == [r \in Rates |-> r * Cardinality(TaxedBy(B, r, taxable))]

LEMMA TaxedByFacts ==
    ASSUME NEW B \in SUBSET TaxBands, NEW r, NEW taxable \in Nat
    PROVE  /\ TaxedBy(B, r, taxable) \subseteq 1 .. taxable
           /\ IsFiniteSet(TaxedBy(B, r, taxable)) /\ Cardinality(TaxedBy(B, r, taxable)) \in Nat
<1>1. TaxedBy(B, r, taxable) \subseteq 1 .. taxable
  BY DEF TaxedBy, Taxed
<1>2. IsFiniteSet(1 .. taxable)
  BY FS_Interval
<1>3. IsFiniteSet(TaxedBy(B, r, taxable))
  BY <1>1, <1>2, FS_Subset
<1>q. QED
  BY <1>1, <1>3, FS_CardinalityType

LEMMA RatesFinite == IsFiniteSet(Rates) /\ Rates \subseteq Nat
<1>1. Rates \subseteq 0 .. 100
  BY PayrollAssumption DEF Rates
<1>2. PICK lo \in Int, hi \in Int : lo = 0 /\ hi = 100
  OBVIOUS
<1>3. IsFiniteSet(lo .. hi)
  BY FS_Interval
<1>4. Rates \in SUBSET (lo .. hi)
  BY <1>1, <1>2
<1>5. IsFiniteSet(Rates)
  BY <1>3, <1>4, FS_Subset
<1>q. QED
  BY <1>1, <1>5

\* A band more.
LEMMA OneBandMore ==
    ASSUME BandsApart, NEW taxable \in Nat, NEW B \in SUBSET TaxBands, NEW a \in B
    PROVE  LET rest == B \ {a}
           IN  /\ \A r \in Rates \ {a.rate} : TaxedBy(B, r, taxable) = TaxedBy(rest, r, taxable)
               /\ Cardinality(TaxedBy(B, a.rate, taxable))
                    = Cardinality(TaxedBy(rest, a.rate, taxable)) + Cardinality(Taxed(a, taxable))
<1> DEFINE rest == B \ {a}
<1>1. \A r \in Rates \ {a.rate} : TaxedBy(B, r, taxable) = TaxedBy(rest, r, taxable)
  BY DEF TaxedBy
<1>2. TaxedBy(B, a.rate, taxable) = TaxedBy(rest, a.rate, taxable) \cup Taxed(a, taxable)
  BY DEF TaxedBy
<1>3. TaxedBy(rest, a.rate, taxable) \cap Taxed(a, taxable) = {}
  <2> SUFFICES ASSUME NEW b \in rest, NEW h \in Taxed(b, taxable), h \in Taxed(a, taxable)
               PROVE  FALSE
    BY DEF TaxedBy
  <2>1. b \in TaxBands /\ a \in TaxBands /\ a # b
    OBVIOUS
  <2>2. b.max <= a.min \/ a.max <= b.min
    BY <2>1 DEF BandsApart
  <2>3. h \in Nat /\ 100 * b.min < h /\ h <= 100 * b.max /\ 100 * a.min < h /\ h <= 100 * a.max
    BY DEF Taxed
  <2>q. QED
    BY <2>1, <2>2, <2>3, BandType
<1>4. IsFiniteSet(TaxedBy(rest, a.rate, taxable)) /\ IsFiniteSet(Taxed(a, taxable))
  BY TaxedByFacts, BandCounts
<1>5. Cardinality(TaxedBy(rest, a.rate, taxable) \cup Taxed(a, taxable))
        = Cardinality(TaxedBy(rest, a.rate, taxable)) + Cardinality(Taxed(a, taxable))
          - Cardinality(TaxedBy(rest, a.rate, taxable) \cap Taxed(a, taxable))
  BY <1>4, FS_Union
<1>6. Cardinality(TaxedBy(rest, a.rate, taxable)) \in Nat /\ Cardinality(Taxed(a, taxable)) \in Nat
  BY <1>4, FS_CardinalityType
<1> HIDE DEF rest
<1>8. Cardinality(TaxedBy(rest, a.rate, taxable) \cap Taxed(a, taxable)) = 0
  BY <1>3, FS_EmptySet, Zenon
<1>7. Cardinality(TaxedBy(B, a.rate, taxable))
        = Cardinality(TaxedBy(rest, a.rate, taxable)) + Cardinality(Taxed(a, taxable))
  <2>1. PICK x, y, z, w : /\ x = Cardinality(TaxedBy(rest, a.rate, taxable)) /\ y = Cardinality(Taxed(a, taxable))
                          /\ z = Cardinality(TaxedBy(rest, a.rate, taxable) \cap Taxed(a, taxable))
                          /\ w = Cardinality(TaxedBy(B, a.rate, taxable))
    OBVIOUS
  <2>2. w = x + y - z
    BY <1>2, <1>5, <2>1
  <2>q. QED
    BY <1>6, <1>8, <2>1, <2>2
<1>q. QED
  BY <1>1, <1>7 DEF rest

\* Band by band and rate by rate come to the same.
LEMMA BandsAndRates ==
    ASSUME BandsApart, NEW taxable \in Nat
    PROVE  SumFunctionOnSet(ByBand(taxable), TaxBands)
             = SumFunctionOnSet(ByRate(TaxBands, taxable), Rates)
<1> DEFINE Agree(B) == SumFunctionOnSet(ByBand(taxable), B)
                         = SumFunctionOnSet(ByRate(B, taxable), Rates)
           Bad == {B \in SUBSET TaxBands : ~Agree(B)}
<1>0. IsFiniteSet(TaxBands) /\ \A B \in SUBSET TaxBands : IsFiniteSet(B)
  BY PayrollAssumption, FS_Subset
<1>1. {} \notin Bad
  <2>1. \A r \in Rates : ByRate({}, taxable)[r] = 0
    <3>1. \A r \in Rates : TaxedBy({}, r, taxable) = {}
      BY DEF TaxedBy
    <3>2. \A r \in Rates : r * 0 = 0
      BY RatesFinite
    <3>q. QED
      BY <3>1, <3>2, FS_EmptySet DEF ByRate
  <2>2. SumFunctionOnSet(ByRate({}, taxable), Rates) = 0
    BY <2>1, RatesFinite, SumZero
  <2>q. QED
    BY <2>2, SumEmpty
<1>2. ASSUME NEW B \in Bad, B # {}
      PROVE  B \ {One(B)} \in Bad
  <2>1. PICK a, q : a = One(B) /\ q = B \ {a}
    OBVIOUS
  <2>2. /\ a \in B /\ B \in SUBSET TaxBands /\ q \in SUBSET TaxBands /\ a \in TaxBands
        /\ ~Agree(B) /\ IsFiniteSet(q)
    BY <1>0, <1>2, <2>1, TakeOne
  <2>3. SumFunctionOnSet(ByBand(taxable), B) = ByBand(taxable)[a] + SumFunctionOnSet(ByBand(taxable), q)
    BY <1>0, <1>2, <2>1, SumTakeOne
  <2>4. PICK n, f, g : /\ n = Cardinality(Taxed(a, taxable))
                       /\ f = ByRate(B, taxable) /\ g = ByRate(q, taxable)
    OBVIOUS
  <2>5. n \in Nat /\ ByBand(taxable)[a] = n * a.rate /\ a.rate \in Rates /\ a.rate \in Nat
    BY <2>2, <2>4, BandCounts, BandType DEF ByBand, Rates
  <2>6. /\ \A r \in Rates : f[r] \in Int /\ g[r] \in Int
        /\ \A r \in Rates \ {a.rate} : f[r] = g[r]
        /\ f[a.rate] = g[a.rate] + n * a.rate
    <3>1. /\ \A r \in Rates : f[r] = r * Cardinality(TaxedBy(B, r, taxable))
          /\ \A r \in Rates : g[r] = r * Cardinality(TaxedBy(q, r, taxable))
      BY <2>4 DEF ByRate
    <3>2. \A r \in Rates : /\ r \in Nat /\ Cardinality(TaxedBy(B, r, taxable)) \in Nat
                           /\ Cardinality(TaxedBy(q, r, taxable)) \in Nat
      BY <2>2, RatesFinite, TaxedByFacts
    <3>3. /\ \A r \in Rates \ {a.rate} : TaxedBy(B, r, taxable) = TaxedBy(q, r, taxable)
          /\ Cardinality(TaxedBy(B, a.rate, taxable)) = Cardinality(TaxedBy(q, a.rate, taxable)) + n
      BY <2>1, <2>2, <2>4, OneBandMore
    <3>4. \A r \in Rates : f[r] \in Int /\ g[r] \in Int
      BY <3>1, <3>2
    <3>5. \A r \in Rates \ {a.rate} : f[r] = g[r]
      BY <3>1, <3>3
    <3>6. PICK m, r : m = Cardinality(TaxedBy(q, a.rate, taxable)) /\ r = a.rate
      OBVIOUS
    <3>7. m \in Nat /\ r \in Nat /\ f[r] = r * (m + n) /\ g[r] = r * m
      BY <2>5, <3>1, <3>2, <3>3, <3>6
    <3>8. r * (m + n) = r * m + n * r
      BY <2>5, <3>7
    <3>q. QED
      BY <3>4, <3>5, <3>6, <3>7, <3>8
  <2>7. /\ SumFunctionOnSet(f, Rates) = f[a.rate] + SumFunctionOnSet(f, Rates \ {a.rate})
        /\ SumFunctionOnSet(g, Rates) = g[a.rate] + SumFunctionOnSet(g, Rates \ {a.rate})
    <3>1. IsFiniteSet(Rates) /\ (\A r \in Rates : f[r] \in Int) /\ (\A r \in Rates : g[r] \in Int)
      BY <2>6, RatesFinite
    <3>2. SumFunctionOnSet(f, Rates) = f[a.rate] + SumFunctionOnSet(f, Rates \ {a.rate})
      BY <2>5, <3>1, SumSplit
    <3>3. SumFunctionOnSet(g, Rates) = g[a.rate] + SumFunctionOnSet(g, Rates \ {a.rate})
      BY <2>5, <3>1, SumSplit
    <3>q. QED
      BY <3>2, <3>3
  <2>8. /\ IsFiniteSet(Rates \ {a.rate})
        /\ SumFunctionOnSet(f, Rates \ {a.rate}) = SumFunctionOnSet(g, Rates \ {a.rate})
    <3>1. IsFiniteSet(Rates \ {a.rate})
      BY <2>5, RatesFinite, FS_RemoveElement
    <3>q. QED
      BY <2>6, <3>1, SumSame
  <2>9. SumFunctionOnSet(g, Rates \ {a.rate}) \in Int
    BY <2>6, <2>8, SumInteger
  <2>10. SumFunctionOnSet(f, Rates) = n * a.rate + SumFunctionOnSet(g, Rates)
    <3>1. PICK x, y : x = n * a.rate /\ y = SumFunctionOnSet(g, Rates \ {a.rate})
      OBVIOUS
    <3>2. x \in Int /\ y \in Int /\ g[a.rate] \in Int
      BY <2>5, <2>6, <2>9, <3>1
    <3>q. QED
      BY <2>6, <2>7, <2>8, <3>1, <3>2
  <2>11. SumFunctionOnSet(ByBand(taxable), q) # SumFunctionOnSet(g, Rates)
    BY <2>2, <2>3, <2>4, <2>5, <2>10
  <2>q. QED
    BY <2>1, <2>2, <2>4, <2>11
<1>3. Bad = {}
  <2>1. Bad \subseteq SUBSET TaxBands
    OBVIOUS
  <2> HIDE DEF Bad
  <2>q. QED
    BY <1>0, <1>1, <1>2, <2>1, FiniteDescent
<1>4. TaxBands \notin Bad
  BY <1>3
<1>q. QED
  BY <1>4

\* A naira lies in one band at most, and is taxed at its rate.
LEMMA RateOfBand ==
    ASSUME BandsApart, NEW taxable \in Nat, NEW b \in TaxBands, NEW h \in Taxed(b, taxable)
    PROVE  RateAt(h) = b.rate
<1> DEFINE around == {c \in TaxBands : 100 * c.min < h /\ h <= 100 * c.max}
<1>1. h \in Nat /\ b \in around
  BY DEF Taxed
<1>2. \A c \in around : c = b
  <2> SUFFICES ASSUME NEW c \in around, c # b
               PROVE  FALSE
    OBVIOUS
  <2>1. b.max <= c.min \/ c.max <= b.min
    BY DEF BandsApart
  <2>2. 100 * c.min < h /\ h <= 100 * c.max /\ 100 * b.min < h /\ h <= 100 * b.max
    BY <1>1
  <2>q. QED
    BY <1>1, <2>1, <2>2, BandType
<1>3. RateAt(h) = IF around = {} THEN 0 ELSE (CHOOSE c \in around : TRUE).rate
  BY Zenon DEF RateAt
<1> HIDE DEF around
<1>4. (CHOOSE c \in around : TRUE) \in around
  BY <1>1
<1>q. QED
  BY <1>1, <1>2, <1>3, <1>4

LEMMA TaxableType == ASSUME NEW annual \in Nat PROVE TaxableH(annual) \in Nat
<1>1. PensionRate \in Nat /\ ReliefH(annual) \in Int
  BY PayrollAssumption DEF ReliefH, AtLeast
<1>2. PensionRate * annual \in Int /\ 100 * annual \in Int
  BY <1>1
<1>3. PICK n \in Int : n = 100 * annual - ReliefH(annual) - PensionRate * annual
  BY <1>1, <1>2
<1>q. QED
  BY <1>3 DEF TaxableH, AtLeast

\* What a rate takes, by the statute and by the bands.
LEMMA RateByRate ==
    ASSUME BandsApart, NEW annual \in Nat, NEW r \in Rates
    PROVE  r * Cardinality(TaxedAt(r, annual)) = ByRate(TaxBands, TaxableH(annual))[r]
<1> DEFINE taxable == TaxableH(annual)
<1>1. taxable \in Nat /\ r \in Nat
  BY TaxableType, RatesFinite
<1>2. ByRate(TaxBands, taxable)[r] = r * Cardinality(TaxedBy(TaxBands, r, taxable))
  BY DEF ByRate
<1>3. TaxedBy(TaxBands, r, taxable) \subseteq TaxedAt(r, annual)
  <2> SUFFICES ASSUME NEW b \in TaxBands, b.rate = r, NEW h \in Taxed(b, taxable)
               PROVE  h \in TaxedAt(r, annual)
    BY DEF TaxedBy
  <2>1. RateAt(h) = r
    BY <1>1, RateOfBand
  <2>q. QED
    BY <2>1 DEF Taxed, TaxedAt
<1>4. CASE r = 0
  <2>1. TaxedAt(r, annual) \in SUBSET (1 .. taxable) /\ IsFiniteSet(1 .. taxable)
    BY <1>1, FS_Interval DEF TaxedAt
  <2>2. IsFiniteSet(TaxedAt(r, annual))
    BY <2>1, FS_Subset
  <2>3. Cardinality(TaxedAt(r, annual)) \in Nat
    BY <2>2, FS_CardinalityType
  <2>4. TaxBands \in SUBSET TaxBands
    OBVIOUS
  <2>5. Cardinality(TaxedBy(TaxBands, r, taxable)) \in Nat
    BY <1>1, <2>4, TaxedByFacts
  <2>q. QED
    BY <1>2, <1>4, <2>3, <2>5
<1>5. CASE r # 0
  <2>1. TaxedAt(r, annual) \subseteq TaxedBy(TaxBands, r, taxable)
    <3> SUFFICES ASSUME NEW h \in 1 .. taxable, RateAt(h) = r
                 PROVE  h \in TaxedBy(TaxBands, r, taxable)
      BY DEF TaxedAt
    <3> DEFINE around == {c \in TaxBands : 100 * c.min < h /\ h <= 100 * c.max}
    <3>1. RateAt(h) = IF around = {} THEN 0 ELSE (CHOOSE c \in around : TRUE).rate
      BY Zenon DEF RateAt
    <3>2. around # {}
      BY <1>5, <3>1
    <3>3. PICK b \in around : TRUE
      BY <3>2
    <3>4. h \in Taxed(b, taxable)
      BY DEF Taxed
    <3>5. b.rate = r
      BY <1>1, <3>4, RateOfBand
    <3>q. QED
      BY <3>4, <3>5 DEF TaxedBy
  <2>2. TaxedAt(r, annual) = TaxedBy(TaxBands, r, taxable)
    BY <1>3, <2>1
  <2>q. QED
    BY <1>2, <2>2
<1>q. QED
  BY <1>4, <1>5

\* The code's tax is the tax of the statute.
LEMMA TaxIsStatutory ==
    ASSUME BandsApart, NEW annual \in Nat
    PROVE  PayeHH(annual) = StatutoryHH(annual)
<1> DEFINE taxable == TaxableH(annual)
           f == [r \in {b.rate : b \in TaxBands} |-> r * Cardinality(TaxedAt(r, annual))]
<1>1. taxable \in Nat
  BY TaxableType
<1>2. PayeHH(annual) = SumFunctionOnSet(ByBand(taxable), TaxBands)
  <2>1. PayeHH(annual) = SumOf(ByBand(taxable))
    BY Zenon DEF PayeHH, SumOf, ByBand
  <2>2. DOMAIN ByBand(taxable) = TaxBands
    BY DEF ByBand
  <2>q. QED
    BY <2>1, <2>2, SumIsOverDomain
<1>3. StatutoryHH(annual) = SumFunctionOnSet(f, Rates)
  <2>1. StatutoryHH(annual) = SumOf(f)
    BY Zenon DEF StatutoryHH, SumOf
  <2>2. DOMAIN f = Rates
    BY DEF Rates
  <2> HIDE DEF f
  <2>q. QED
    BY <2>1, <2>2, SumIsOverDomain
<1>4. \A r \in Rates : f[r] = ByRate(TaxBands, taxable)[r]
  <2>1. \A r \in Rates : f[r] = r * Cardinality(TaxedAt(r, annual))
    BY DEF Rates
  <2> HIDE DEF f
  <2>q. QED
    BY <2>1, RateByRate
<1> HIDE DEF f, taxable
<1>5. SumFunctionOnSet(f, Rates) = SumFunctionOnSet(ByRate(TaxBands, taxable), Rates)
  BY <1>4, RatesFinite, SumSame
<1>6. SumFunctionOnSet(ByBand(taxable), TaxBands) = SumFunctionOnSet(ByRate(TaxBands, taxable), Rates)
  BY <1>1, BandsAndRates
<1>q. QED
  BY <1>2, <1>3, <1>5, <1>6

\* So a run costs what the statute leaves of the gross salaries.
LEMMA NetIsStatutory ==
    ASSUME BandsApart, NEW revenue \in Nat
    PROVE  NetSalaryTotal(revenue)
             = SumOf([e \in DOMAIN GradeWeight |->
                        LET gross == Gross(revenue, e)
                        IN  100 * gross - PensionRate * gross
                            - Rounded(StatutoryHH(12 * gross), 1200)])
<1> DEFINE f == [e \in DOMAIN GradeWeight |->
                   LET gross == Gross(revenue, e) IN 100 * gross - Deductions(gross)]
           g == [e \in DOMAIN GradeWeight |->
                   LET gross == Gross(revenue, e)
                   IN  100 * gross - PensionRate * gross - Rounded(StatutoryHH(12 * gross), 1200)]
<1>1. ASSUME NEW e \in DOMAIN GradeWeight
      PROVE  Gross(revenue, e) \in Nat
  <2>1. GradeWeight[e] \in Nat /\ PayrollRatio \in Nat
    BY PayrollAssumption
  <2>2. revenue * PayrollRatio * GradeWeight[e] \in Nat
    BY <2>1
  <2>q. QED
    BY <2>2 DEF Gross
<1>2. ASSUME NEW gross \in Nat
      PROVE  100 * gross - Deductions(gross)
               = 100 * gross - PensionRate * gross - Rounded(StatutoryHH(12 * gross), 1200)
  <2>1. 12 * gross \in Nat
    OBVIOUS
  <2>2. PayeHH(12 * gross) = StatutoryHH(12 * gross)
    BY <2>1, TaxIsStatutory
  <2>3. PayeHH(12 * gross) \in Int
    <3>1. 12 * gross \in Nat /\ TaxableH(12 * gross) \in Nat
      BY <2>1, TaxableType
    <3> DEFINE taxable == TaxableH(12 * gross)
    <3>2. \A b \in TaxBands : ByBand(taxable)[b] \in Int
      BY <3>1, BandCounts, BandType DEF ByBand
    <3>3. SumFunctionOnSet(ByBand(taxable), TaxBands) \in Int
      BY <3>2, PayrollAssumption, SumInteger
    <3>4. PayeHH(12 * gross) = SumOf(ByBand(taxable))
      BY Zenon DEF PayeHH, SumOf, ByBand
    <3>5. DOMAIN ByBand(taxable) = TaxBands
      BY DEF ByBand
    <3>q. QED
      BY <3>3, <3>4, <3>5, SumIsOverDomain
  <2>4. PICK tax \in Int : tax = Rounded(PayeHH(12 * gross), 1200)
    BY <2>3 DEF Rounded
  <2>5. PICK pension \in Int : pension = PensionRate * gross
    BY PayrollAssumption
  <2>6. Deductions(gross) = tax + pension
    BY <2>4, <2>5 DEF Deductions, PayeCents, PensionCents
  <2>7. 100 * gross - (tax + pension) = 100 * gross - pension - tax
    OBVIOUS
  <2>q. QED
    BY <2>2, <2>4, <2>5, <2>6, <2>7
<1>3. f = g
  BY <1>1, <1>2
<1>4. NetSalaryTotal(revenue) = SumOf(f)
  BY Zenon DEF NetSalaryTotal, SumOf
<1>q. QED
  BY <1>3, <1>4

--------------------------------------------------------------------------------
(* Payroll runs.                                                            *)

\* A run that has been calculated costs what it was calculated to.
PayInv ==
    /\ DeedInv /\ BandsApart
    /\ \A d \in DocsOf("PAYROLL_RUN") :
          status[d] = "CALCULATED" => \E revenue \in Revenues : cost[d] = NetSalaryTotal(revenue)

LEMMA PayInvSuffices ==
    ASSUME PayInv
    PROVE  PayrollFollowsStatute
<1>1. \A revenue \in Revenues : revenue \in Nat
  BY OfficeAssumption
<1>2. ASSUME NEW d \in DocsOf("PAYROLL_RUN"), status[d] = "CALCULATED"
      PROVE  \E revenue \in Revenues :
                cost[d] = SumOf([e \in DOMAIN GradeWeight |->
                                 LET gross == Gross(revenue, e)
                                 IN  100 * gross - PensionRate * gross
                                     - Rounded(StatutoryHH(12 * gross), 1200)])
  <2>1. PICK revenue \in Revenues : cost[d] = NetSalaryTotal(revenue)
    BY <1>2 DEF PayInv
  <2>2. revenue \in Nat
    BY <1>1
  <2>3. PICK net : net = SumOf([e \in DOMAIN GradeWeight |->
                                LET gross == Gross(revenue, e)
                                IN  100 * gross - PensionRate * gross
                                    - Rounded(StatutoryHH(12 * gross), 1200)])
    OBVIOUS
  <2>4. NetSalaryTotal(revenue) = net
    BY <2>2, <2>3, NetIsStatutory DEF PayInv
  <2>q. QED
    BY <2>1, <2>3, <2>4, Zenon
<1>q. QED
  BY <1>2, Zenon DEF PayrollFollowsStatute

\* How the office changes a payroll run.
LEMMA OfficePays ==
    ASSUME DeedInv, OfficeMove, NEW d \in DocsOf("PAYROLL_RUN"), status'[d] = "CALCULATED"
    PROVE  \/ status[d] = "CALCULATED" /\ cost'[d] = cost[d]
           \/ \E revenue \in Revenues : cost'[d] = NetSalaryTotal(revenue)
<1>0. OfficeTypeOK /\ d \in Doc /\ Type[d] = "PAYROLL_RUN"
  BY DEF DeedInv, FieldInv, FieldTypeOK, DocsOf
<1>1. CASE UNCHANGED <<status, cost>>
  BY <1>1
<1>2. CASE Begins \/ Drops \/ Finds \/ Rests \/ LedgerPosts \/ Publishes
  BY <1>1, <1>2 DEF Begins, Drops, Finds, Rests, LedgerPosts, Publishes, JobStep
<1>3. ASSUME NEW h \in Handler, Decide(h) \/ Record(h)
      PROVE  UNCHANGED <<status, cost>>
  BY <1>3 DEF Decide, Record
<1>4. CASE Writes
  <2>1. PICK h \in Handler, books \in BOOLEAN : \E s, g, c, e, next :
           Write(h, s, g, c, e, books, next) /\ Writable(h, s, g, c, e, books, next)
    BY <1>4 DEF Writes
  <2>2. PICK s, g, c, e, next :
           Write(h, s, g, c, e, books, next) /\ Writable(h, s, g, c, e, books, next)
    BY <2>1
  <2>3. s \in Past
    BY <2>2, WriteFacts
  <2>4. d # job[h].doc
    BY <1>0, <2>2, <2>3, OfficeTypes, StatusFacts DEF Write
  <2>q. QED
    BY <1>0, <2>2, <2>4, OfficeTypes DEF Write
<1>5. CASE Creates
  <2>1. PICK x \in Doc : \E s, c : Create(x, s, c)
    BY <1>5 DEF Creates
  <2>2. PICK s, c : Create(x, s, c)
    BY <2>1
  <2>3. CASE d = x
    <3>1. /\ \E revenue \in Revenues : c = NetSalaryTotal(revenue)
          /\ cost'[d] = c
      BY <1>0, <2>2, <2>3, OfficeTypes DEF Create
    <3>q. QED
      BY <3>1
  <2>4. CASE d # x
    BY <1>0, <2>2, <2>4, OfficeTypes DEF Create
  <2>q. QED
    BY <2>3, <2>4
<1>q. QED
  BY <1>1, <1>2, <1>3, <1>4, <1>5 DEF OfficeMove

LEMMA PayStays ==
    ASSUME PayInv, [Next]_vars
    PROVE  PayInv'
<1>0. DeedInv /\ DeedInv' /\ OfficeTypeOK /\ JobsOK
  BY DeedsStay DEF PayInv, DeedInv, FieldInv, FieldTypeOK
<1> SUFFICES ASSUME NEW d \in DocsOf("PAYROLL_RUN"), status'[d] = "CALCULATED"
             PROVE  \E revenue \in Revenues : cost'[d] = NetSalaryTotal(revenue)
  BY <1>0 DEF PayInv, DocsOf, BandsApart
<1>1. CASE OfficeStep
  BY <1>0, <1>1, OfficeMoves, OfficePays DEF PayInv, OfficeStep
<1>2. CASE FieldStep
  <2>1. KeepsOffice /\ Touches
    BY <1>0, <1>2, FieldTouches DEF DeedInv, FieldStep, FieldStays
  <2>2. status'[d] = status[d]
    BY <2>1, FieldDocuments DEF Touches, BroughtAbout, DocsOf
  <2>3. cost' = cost
    BY <2>1 DEF KeepsOffice
  <2>q. QED
    BY <2>2, <2>3 DEF PayInv
<1>3. CASE UNCHANGED vars
  BY <1>3 DEF vars, officeVars, PayInv
<1>q. QED
  BY <1>0, <1>1, <1>2, <1>3, StepKinds DEF DeedInv

LEMMA PayBegins ==
    ASSUME BandsApart, Init
    PROVE  PayInv
<1>1. PICK scene \in Scenes : OfficeInit(scene)
  BY DEF Init
<1>2. status = [d \in Doc |-> IF d \in scene.docs THEN FirstStatus(Type[d]) ELSE "absent"]
  BY <1>1 DEF OfficeInit
<1>q. QED
  BY <1>2, DeedsBegin DEF PayInv, DocsOf, FirstStatus

\* Where no two bands tax the same naira, a calculated run costs what the
\* statute leaves of the gross salaries, naira by naira, whatever the bands,
\* rates, grades and revenues: a band starts where the one before it ends, and
\* nobody pays twice for a naira at an edge or escapes it.
THEOREM PayrollIsStatutory == BandsApart /\ Spec => []PayrollFollowsStatute
<1>1. BandsApart /\ Init => PayInv
  BY PayBegins
<1>2. PayInv /\ [Next]_vars => PayInv'
  BY PayStays
<1>3. PayInv => PayrollFollowsStatute
  BY PayInvSuffices
<1>q. QED
  BY <1>1, <1>2, <1>3, PTL DEF Spec
================================================================================
