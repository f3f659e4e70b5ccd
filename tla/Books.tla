--------------------------------- MODULE Books ---------------------------------
(***************************************************************************)
(* The books of accounting-service: the net debit of every account over    *)
(* the POSTED journal entries, what a manual entry must satisfy, the       *)
(* reports and the lines of a period close.                                *)
(*                                                                         *)
(* Requests carry amounts in mils, tenths of a cent, for no validator      *)
(* limits their decimals; the columns are numeric(14,2), whole cents.      *)
(***************************************************************************)
EXTENDS Integers, Sequences, FiniteSets, Functions

CONSTANTS Account,          \* chart_of_accounts
          TypeOf,           \* account_type
          AccountsPayable, RetainedEarnings

ASSUME BooksAssumption ==
    /\ IsFiniteSet(Account)
    /\ TypeOf \in [Account -> {"ASSET", "LIABILITY", "EQUITY", "REVENUE", "EXPENSE"}]
    /\ AccountsPayable \in Account /\ TypeOf[AccountsPayable] = "LIABILITY"
    /\ RetainedEarnings \in Account /\ TypeOf[RetainedEarnings] = "EQUITY"

VARIABLE balance    \* total debit - total credit of the POSTED lines, in cents

PnL == {a \in Account : TypeOf[a] \in {"REVENUE", "EXPENSE"}}

\* The lines a manual entry may have: no amount below zero.
Lines == Seq([account : Account, debit : Nat, credit : Nat])

SumOf(f) == FoldFunction(LAMBDA x, y : x + y, 0, f)
Abs(n) == IF n < 0 THEN -n ELSE n

\* numeric(14,2): half a cent and more is rounded up.
ToCents(mils) == (mils + 5) \div 10

OneSided(l) == \/ l.debit > 0 /\ l.credit = 0
               \/ l.credit > 0 /\ l.debit = 0

\* createManualJournalEntry's checks, made on the amounts as they were sent.
Acceptable(lines) ==
    /\ \A i \in DOMAIN lines : OneSided(lines[i])
    /\ Abs(SumOf([i \in DOMAIN lines |-> lines[i].debit - lines[i].credit])) <= 5

AsStored(l) == [l EXCEPT !.debit = ToCents(@), !.credit = ToCents(@)]

\* one_sided_line, checked on the columns.
Storable(lines) == \A i \in DOMAIN lines : OneSided(AsStored(lines[i]))

\* What an entry does to the balances once it is POSTED.
Effect(lines) ==
    [a \in Account |-> SumOf([i \in DOMAIN lines |->
                              LET l == AsStored(lines[i])
                              IN  IF l.account = a THEN l.debit - l.credit ELSE 0])]

\* totalAmount: the sum of the stored debits.
TotalAmount(lines) == SumOf([i \in DOMAIN lines |-> AsStored(lines[i]).debit])

Plus(f, g) == [a \in Account |-> f[a] + g[a]]
Minus(f, g) == [a \in Account |-> f[a] - g[a]]
Nothing == [a \in Account |-> 0]

\* An expense of an amount in cents, booked against its category's account.
ExpenseEffect(account, cents) ==
    [a \in Account |-> IF a = account THEN cents
                       ELSE IF a = AccountsPayable THEN -cents ELSE 0]

\* closeBooks: every account of the P&L is zeroed as it was read, and
\* retained earnings take the net income.
NothingToClose(read) == \A a \in PnL : read[a] = 0

\* Mutant: no line for retained earnings.
ClosingLines(read) == [a \in Account |-> IF a \in PnL THEN -read[a] ELSE 0]

ClosingEffect(read) ==
    [a \in Account |-> IF a \in PnL THEN -read[a]
                       ELSE IF a = RetainedEarnings
                            THEN SumOf([b \in PnL |-> read[b]]) ELSE 0]

\* reports.service: totals of a report, debit side positive.
TotalOf(type) == SumOf([a \in {b \in Account : TypeOf[b] = type} |-> balance[a]])
TrialBalance == SumOf(balance)
NetIncome == -(TotalOf("REVENUE") + TotalOf("EXPENSE"))
BalanceSheetGap == TotalOf("ASSET") + TotalOf("LIABILITY") + TotalOf("EQUITY")
================================================================================
