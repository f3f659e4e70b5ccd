-------------------------------- MODULE Payroll --------------------------------
(***************************************************************************)
(* hr-service: what an employee is paid out of a plant's revenue.          *)
(*                                                                         *)
(* Gross salaries are whole currency units, rates whole percents.  An      *)
(* annual amount that a rate was applied to is in hundredths (H), the      *)
(* annual tax in hundredths of those (HH); a payslip is in cents.  Gross   *)
(* rounds down, where the code's numeric(14,2) keeps cents.                *)
(***************************************************************************)
EXTENDS Integers, FiniteSets, Functions

CONSTANTS ReliefFloor,   \* the floor of the consolidated relief allowance
          PensionRate,   \* pension_employee_rate
          TaxBands,      \* payroll_tax_bands: [min, max, rate]
          NoUpperBound,  \* stands for a threshold_max that is not set
          PayrollRatio,  \* percent of a plant's revenue
          GradeWeight    \* percent of the pool, per active employee

ASSUME PayrollAssumption ==
    /\ ReliefFloor \in Nat /\ NoUpperBound \in Nat
    /\ PensionRate \in 0 .. 100 /\ PayrollRatio \in 0 .. 100
    /\ IsFiniteSet(TaxBands) /\ TaxBands \subseteq [min : Nat, max : Nat, rate : 0 .. 100]
    /\ IsFiniteSet(DOMAIN GradeWeight) /\ GradeWeight \in [DOMAIN GradeWeight -> Nat]

AtLeast(a, b) == IF a < b THEN b ELSE a
AtMost(a, b) == IF a < b THEN a ELSE b
\* Math.round of a quotient, for amounts that are never negative.
Rounded(n, d) == (2 * n + d) \div (2 * d)

ReliefH(annual) == AtLeast(100 * ReliefFloor, annual) + 20 * annual
TaxableH(annual) == AtLeast(0, 100 * annual - ReliefH(annual) - PensionRate * annual)

\* Mutant: the lower bound of the band is not taken off.
UpToBandH(band, taxable) ==
    IF taxable <= 100 * band.min THEN 0 ELSE AtMost(taxable, 100 * band.max)

InBandH(band, taxable) ==
    IF taxable <= 100 * band.min THEN 0
    ELSE AtMost(taxable, 100 * band.max) - 100 * band.min

PayeHH(annual) ==
    FoldFunction(LAMBDA x, y : x + y, 0,
                 [b \in TaxBands |-> InBandH(b, TaxableH(annual)) * b.rate])

PayeCents(gross) == Rounded(PayeHH(12 * gross), 1200)
PensionCents(gross) == PensionRate * gross
Deductions(gross) == PayeCents(gross) + PensionCents(gross)

\* calculateRun: the pool is a share of the revenue, a salary a share of the
\* pool; postRun announces the sum of the net salaries.
Gross(revenue, employee) == (revenue * PayrollRatio * GradeWeight[employee]) \div 10000
NetSalaryTotal(revenue) ==
    FoldFunction(LAMBDA x, y : x + y, 0,
                 [e \in DOMAIN GradeWeight |->
                    LET gross == Gross(revenue, e) IN 100 * gross - Deductions(gross)])

\* No two bands tax the same naira.  The table has no constraint that says so;
\* its seeds follow one another.
BandsApart ==
    \A b \in TaxBands : /\ b.min <= b.max
                        /\ \A c \in TaxBands \ {b} : b.max <= c.min \/ c.max <= b.min

(***************************************************************************)
(* The statute, naira by naira: a naira of taxable income is taxed once,   *)
(* at the rate of the band it lies in, and at no rate outside the bands.   *)
(***************************************************************************)
RateAt(hundredth) ==
    LET around == {b \in TaxBands : 100 * b.min < hundredth /\ hundredth <= 100 * b.max}
    IN  IF around = {} THEN 0 ELSE (CHOOSE b \in around : TRUE).rate
TaxedAt(rate, annual) == {h \in 1 .. TaxableH(annual) : RateAt(h) = rate}
StatutoryHH(annual) ==
    FoldFunction(LAMBDA x, y : x + y, 0,
                 [r \in {b.rate : b \in TaxBands} |-> r * Cardinality(TaxedAt(r, annual))])
================================================================================
