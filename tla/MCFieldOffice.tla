---------------------------- MODULE MCFieldOffice ----------------------------
(***************************************************************************)
(* A clerk of the first stage, a manager of the second who may post, and a *)
(* stranger.  A small amount needs the clerk alone, a large one both; a    *)
(* third stage is set behind a gap; plant p has a band of its own.  Each   *)
(* scene puts in play what can disturb one another, with as many requests  *)
(* as a race of two final decisions takes.                                 *)
(***************************************************************************)
EXTENDS FieldCapture, TLC

CONSTANTS clerk, manager, stranger, po, agent, expense, entry, rounded, wrong, review,
          review2, repair, repair2, inquiry, run, close1, close2, cash, payable, retained,
          sales, wages, posting, batch, trial, trip, trip2, fuel, clock, kiosk, visit,
          van, shop

Stages(one, two, three) == [n \in Level |-> CASE n = 1 -> one [] n = 2 -> two [] n = 3 -> three]
Band(type, plant, min, max, levels) ==
    [type |-> type, plant |-> plant, min |-> min, max |-> max, levels |-> levels]

MCUser == {clerk, manager, stranger}
MCRole == {"clerk", "manager"}
MCRoleOf == clerk :> "clerk" @@ manager :> "manager" @@ stranger :> "none"
MCBands ==
    {Band(t, AnyPlant, 0, 2, Stages("clerk", NoRole, "manager")) : t \in Approvable}
    \cup {Band(t, AnyPlant, 2, NoMax, Stages("clerk", "manager", NoRole)) : t \in Approvable}
    \cup {Band("PURCHASE_ORDER", "p", 0, NoMax, Stages("manager", "clerk", NoRole))}

\* No document can be granted its stages by different rows.
ASSUME MatrixAgrees == BandsAgree

MCType == po :> "PURCHASE_ORDER" @@ agent :> "AGENT_ONBOARDING" @@ expense :> "EXPENSE_REQUEST"
    @@ entry :> "MANUAL_JOURNAL_ENTRY" @@ rounded :> "MANUAL_JOURNAL_ENTRY"
    @@ wrong :> "MANUAL_JOURNAL_ENTRY" @@ review :> "BATCH_COST" @@ review2 :> "BATCH_COST"
    @@ repair :> "MAINTENANCE_COMPLETION" @@ repair2 :> "MAINTENANCE_COMPLETION"
    @@ inquiry :> "MAINTENANCE_COMPLETION" @@ run :> "PAYROLL_RUN"
    @@ close1 :> "PERIOD_CLOSE" @@ close2 :> "PERIOD_CLOSE"
MCDoc == DOMAIN MCType
MCPlantOf == [d \in MCDoc |-> IF d = po THEN "p" ELSE AnyPlant]
MCAmount == [d \in MCDoc |-> CASE d \in {po, expense, review} -> 1 [] d \in {agent, review2} -> 3
                               [] OTHER -> 0]

MCTypeOf == cash :> "ASSET" @@ payable :> "LIABILITY" @@ retained :> "EQUITY"
    @@ sales :> "REVENUE" @@ wages :> "EXPENSE"
Line(a, debit, credit) == [account |-> a, debit |-> debit, credit |-> credit]
\* In mils: an entry of two cents; 0.4 cents more on each of two debits, which
\* the columns lose while the credit side gains one; a debit without a credit.
MCLinesOf ==
    entry :> <<Line(wages, 20, 0), Line(cash, 0, 20)>>
    @@ rounded :> <<Line(wages, 14, 0), Line(wages, 14, 0), Line(cash, 0, 28)>>
    @@ wrong :> <<Line(cash, 20, 0)>>
MCPostingEffect ==
    posting :> [a \in DOMAIN MCTypeOf |-> CASE a = cash -> 5 [] a = sales -> -5 [] OTHER -> 0]

MCTaxBands == {[min |-> 0, max |-> 10, rate |-> 0], [min |-> 10, max |-> 20, rate |-> 15],
               [min |-> 20, max |-> NoUpperBound, rate |-> 25]}
\* No naira is taxed twice.
ASSUME BandsFollow == BandsApart
MCGradeWeight == "junior" :> 20 @@ "senior" :> 50
MCRevenues == {0, 20}
MCCosts == {1, 3}

MCKind == batch :> "production_batch" @@ trial :> "production_batch" @@ trip :> "trip_log"
    @@ trip2 :> "trip_log" @@ fuel :> "fuel_record" @@ clock :> "attendance_log"
    @@ kiosk :> "attendance_log" @@ visit :> "activity"
MCFact == batch :> [approved |-> TRUE, consumed |-> 2] @@ trial :> [approved |-> FALSE, consumed |-> 1]
    @@ trip :> [vehicle |-> van, end |-> 12, expected |-> 10]
    @@ trip2 :> [vehicle |-> van, end |-> 15, expected |-> 0]
    @@ fuel :> [vehicle |-> van, trip |-> trip, litres |-> 12]
    @@ clock :> [bucket |-> 1] @@ kiosk :> [bucket |-> 1] @@ visit :> [customer |-> shop]
MCServiceThreshold == van :> 10
MCDocOf == batch :> review @@ trial :> review2 @@ trip :> repair @@ trip2 :> repair2
    @@ fuel :> inquiry

Scene(docs, entries, captures, asked, pushed) ==
    [docs |-> docs, due |-> entries, captures |-> captures, requests |-> asked, pushes |-> pushed]
MCScenes ==
    {Scene({po}, {}, {}, 3, 0), Scene({agent}, {}, {}, 3, 0), Scene({run}, {}, {}, 2, 0)}
    \cup {Scene({expense, close1}, {}, {}, 3, 0), Scene({entry, close1}, {}, {}, 3, 0),
          Scene({rounded, wrong}, {}, {}, 3, 0), Scene({close1, close2}, {posting}, {}, 3, 0),
          Scene({review}, {}, {batch}, 2, 1), Scene({review, review2}, {}, {batch, trial}, 0, 4),
          Scene({repair}, {}, {trip}, 2, 1), Scene({repair, repair2}, {}, {trip, trip2}, 0, 3),
          Scene({repair, inquiry}, {}, {trip, fuel}, 0, 3),
          Scene({}, {}, {clock, kiosk}, 0, 4), Scene({}, {}, {visit}, 0, 3)}
Symmetry == Permutations(Handler) \cup Permutations(Field)
================================================================================
