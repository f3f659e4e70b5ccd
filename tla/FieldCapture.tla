----------------------------- MODULE FieldCapture -----------------------------
(***************************************************************************)
(* What the field captures, online or through a Sync Gateway: production   *)
(* batches, trips, fuel, clock events and CRM activities.  Each method     *)
(* looks its client_event_id up first, writes in one transaction, then     *)
(* publishes.  Batches and trips bring about documents that the office     *)
(* decides on (BackOffice).                                                *)
(*                                                                         *)
(* A capture stands for its client_event_id; recipes, vehicles and drivers *)
(* do not change.  The writes of a transaction and its COMMIT are one      *)
(* step, for the row lock of the vehicle orders the trips of one vehicle.  *)
(* A capture that refers to a row that does not exist is refused before it *)
(* changes anything and is no step here.                                   *)
(***************************************************************************)
EXTENDS BackOffice, SequencesExt

CONSTANTS Field,       \* requests that can be in flight together
          Capture,
          Kind,        \* entity type of a capture
          Fact,        \* what was captured, a record by kind
          DocOf,       \* the review or repair a capture may bring about
          Vehicle, ServiceThreshold,
          Tolerance,   \* percent of the expected litres
          Customer

KindOf(k) == {c \in Capture : Kind[c] = k}

ASSUME FieldAssumption ==
    /\ Kind \in [Capture -> {"production_batch", "trip_log", "fuel_record",
                             "attendance_log", "activity"}]
    /\ Capture # {}
    /\ DocOf \in [KindOf("production_batch") \cup KindOf("trip_log") \cup KindOf("fuel_record") -> Doc]
    /\ \A c \in KindOf("production_batch") : Type[DocOf[c]] = "BATCH_COST"
    /\ \A c \in KindOf("trip_log") \cup KindOf("fuel_record") :
          Type[DocOf[c]] = "MAINTENANCE_COMPLETION" /\ Fact[c].vehicle \in Vehicle
    /\ \A c, d \in DOMAIN DocOf : DocOf[c] = DocOf[d] => c = d
    /\ \A c \in KindOf("trip_log") : Fact[c].end \in Nat
    /\ \A c \in KindOf("fuel_record") : Fact[c].trip \in KindOf("trip_log")
    /\ \A c \in KindOf("activity") : Fact[c].customer \in Customer
    /\ ServiceThreshold \in [Vehicle -> Nat]
    /\ \A scene \in Scenes : scene.captures \subseteq Capture

VARIABLES
    row,        \* "absent": never captured; "none": not stored; else its answer
    answers,    \* what was answered: the outcome and the capture whose row it is
    events,     \* events published for a capture
    mileage, cancelled, customer, opportunities,
    task,       \* what a request is doing
    pushes,     \* bound: captures still to be pushed
    lost,       \* history: captures whose request died owing events
    overrun     \* history: vehicles written on a stale read

fieldVars == <<row, answers, events, mileage, cancelled, customer, opportunities, task,
               pushes, lost, overrun>>
vars == <<officeVars, fieldVars>>

Free == [at |-> "idle", of |-> CHOOSE c \in Capture : TRUE, seen |-> 0,
         owes |-> <<>>, old |-> FALSE]
Stored(c) == row[c] \in {"ACKED", "NEEDS_REVIEW"}

FieldInit(scene) ==
    /\ row = [c \in Capture |-> IF c \in scene.captures THEN "none" ELSE "absent"]
    /\ answers = [c \in Capture |-> {}]
    /\ events = [c \in Capture |-> <<>>]
    /\ mileage = [v \in Vehicle |-> 0]
    /\ cancelled = {} /\ customer = [k \in Customer |-> "none"] /\ opportunities = {}
    /\ task = [f \in Field |-> Free]
    /\ pushes = scene.pushes /\ lost = {} /\ overrun = {}

--------------------------------------------------------------------------------
\* The steps the methods share.
At(f, step, k) == task[f].at = step /\ Kind[task[f].of] = k
\* Mutant: whatever is stored is accepted.
AnswerAcked(c, by) == answers' = [answers EXCEPT ![c] = @ \cup {[status |-> "ACKED", row |-> by]}]

Answer(c, by) == answers' = [answers EXCEPT ![c] = @ \cup {[status |-> row'[by], row |-> by]}]

\* findUnique by client_event_id: a row that is there is answered as it is.
Lookup(f, k) ==
    \E c \in KindOf(k) :
        /\ row[c] # "absent" /\ task[f].at = "idle" /\ pushes > 0
        /\ pushes' = pushes - 1
        /\ IF Stored(c)
           THEN UNCHANGED row /\ Answer(c, c) /\ UNCHANGED task
           ELSE /\ task' = [task EXCEPT ![f] = [Free EXCEPT !.at = "write", !.of = c]]
                /\ UNCHANGED <<row, answers>>
        /\ UNCHANGED <<events, mileage, cancelled, customer, opportunities, lost, overrun,
                       officeVars>>

\* The row is inserted, once for its unique client_event_id, with the
\* documents it brings about; then the events are owed, or the answer given.
Store(f, outcome, opened, owes) ==
    LET c == task[f].of
    IN  /\ row[c] = "none" /\ row' = [row EXCEPT ![c] = outcome]
        /\ status' = [d \in Doc |-> IF d \in DOMAIN opened THEN opened[d] ELSE status[d]]
        /\ IF owes = <<>>
           THEN Answer(c, c) /\ task' = [task EXCEPT ![f] = Free]
           ELSE /\ task' = [task EXCEPT ![f].at = "publish", ![f].owes = owes]
                /\ UNCHANGED answers
        /\ UNCHANGED <<events, pushes, lost, stage, cost, effects, category, job, due, raced,
                       crossed, requests, chain, balance>>

NoFleet == UNCHANGED <<mileage, overrun>>
NoCrm == UNCHANGED <<customer, opportunities>>
Opens(d, s, condition) == [x \in {y \in {d} : condition} |-> s]

\* The next event is out; after the last one the request is answered.
PublishNext(f) ==
    LET c == task[f].of
    IN  /\ task[f].at = "publish"
        /\ events' = [events EXCEPT ![c] = Append(@, Head(task[f].owes))]
        /\ IF Len(task[f].owes) = 1
           THEN /\ UNCHANGED row /\ Answer(c, c)
                /\ task' = [task EXCEPT ![f] = Free]
           ELSE /\ task' = [task EXCEPT ![f].owes = Tail(@)]
                /\ UNCHANGED <<row, answers>>
        /\ UNCHANGED <<mileage, cancelled, customer, opportunities, pushes, lost, overrun,
                       officeVars>>

\* The request throws, for its row is there by now or a call fails, or the
\* service dies.  An event may be out although its publication threw.
Fail(f) ==
    LET c == task[f].of
        owing == task[f].at = "publish"
    IN  /\ task[f].at # "idle"
        /\ task' = [task EXCEPT ![f] = Free]
        /\ lost' = lost \cup {x \in {c} : owing}
        /\ \/ UNCHANGED events
           \/ owing /\ events' = [events EXCEPT ![c] = Append(@, Head(task[f].owes))]
        /\ UNCHANGED <<row, answers, mileage, cancelled, customer, opportunities, pushes,
                       overrun, officeVars>>

--------------------------------------------------------------------------------
\* manufacturing-service: a batch of an unapproved recipe is kept for review
\* and posts nothing; a cost within any active band is reviewed afterwards.
Output(c) == Amount[DocOf[c]]
VarianceEvent(c) == CASE Fact[c].consumed > Output(c) -> <<"unfavorable">>
                      [] Fact[c].consumed < Output(c) -> <<"favorable">>
                      [] OTHER -> <<>>
LedgerEvents(c) == <<"consumption", "output">> \o VarianceEvent(c)
CostIsReviewed(amount) ==
    \E b \in Bands : /\ b.type = "BATCH_COST" /\ b.min <= amount
                     /\ b.max = NoMax \/ amount < b.max

\* Mutant: a batch under review posts its events too.
CloseAnyBatch(f) ==
    LET c == task[f].of
    IN  /\ At(f, "write", "production_batch")
        /\ Store(f, IF Fact[c].approved THEN "ACKED" ELSE "NEEDS_REVIEW",
                 Opens(DocOf[c], "PENDING_APPROVAL", CostIsReviewed(Output(c))), LedgerEvents(c))
        /\ NoFleet /\ NoCrm /\ UNCHANGED cancelled

CloseProductionBatch(f) ==
    LET c == task[f].of
        approved == Fact[c].approved
    IN  /\ At(f, "write", "production_batch")
        /\ Store(f, IF approved THEN "ACKED" ELSE "NEEDS_REVIEW",
                 Opens(DocOf[c], "PENDING_APPROVAL", CostIsReviewed(Output(c))),
                 IF approved THEN LedgerEvents(c) ELSE <<>>)
        /\ NoFleet /\ NoCrm /\ UNCHANGED cancelled

\* fleet-service: the vehicle is read, then the trip inserted, the mileage
\* advanced and, past the threshold, a service requested unless one is open.
ReadVehicle(f) ==
    /\ At(f, "write", "trip_log")
    /\ task' = [task EXCEPT ![f].at = "trip", ![f].seen = mileage[Fact[task[f].of].vehicle]]
    /\ UNCHANGED <<row, answers, events, mileage, cancelled, customer, opportunities, pushes,
                   lost, overrun, officeVars>>

OpenRequests(v) == {c \in KindOf("trip_log") : Fact[c].vehicle = v /\ status[DocOf[c]] = "OPEN"}

\* Mutant: an open request does not matter.
NeedsServiceAgain(v, km) == km >= ServiceThreshold[v]

NeedsService(v, km) == km >= ServiceThreshold[v] /\ OpenRequests(v) = {}

\* What the others have read of the vehicle is old now.
CreateTripLog(f) ==
    LET c == task[f].of
        v == Fact[c].vehicle
        newMileage == AtLeast(task[f].seen, Fact[c].end)
    IN  /\ task[f].at = "trip" /\ row[c] = "none"
        /\ row' = [row EXCEPT ![c] = "ACKED"] /\ Answer(c, c)
        /\ mileage' = [mileage EXCEPT ![v] = newMileage]
        /\ IF NeedsService(v, newMileage)
           THEN status' = [status EXCEPT ![DocOf[c]] = "OPEN"] ELSE UNCHANGED status
        /\ overrun' = overrun \cup {x \in {v} : task[f].old}
        /\ task' = [g \in Field |->
                      IF g = f THEN Free
                      ELSE IF task[g].at = "trip" /\ Fact[task[g].of].vehicle = v
                           THEN [task[g] EXCEPT !.old = TRUE] ELSE task[g]]
        /\ UNCHANGED <<events, cancelled, customer, opportunities, pushes, lost, stage, cost,
                       effects, category, job, due, raced, crossed, requests, chain, balance>>

\* Fuel: a variance beyond the tolerance against a trip that is not cancelled
\* is investigated; a trip that is not there is an error.  A record without a
\* trip, or of a class without a norm, is stored and announced alike.
Deviates(c) ==
    LET expected == Fact[Fact[c].trip].expected
    IN  100 * Abs(expected - Fact[c].litres) > Tolerance * expected
CreateFuelRecord(f) ==
    LET c == task[f].of
        fuelled == Fact[c].trip
    IN  /\ At(f, "write", "fuel_record") /\ Stored(fuelled)
        /\ Store(f, "ACKED", Opens(DocOf[c], "OPEN", fuelled \notin cancelled /\ Deviates(c)),
                 <<"fuel_recorded">>)
        /\ NoFleet /\ NoCrm /\ UNCHANGED cancelled

\* A trip is cancelled in the database: no service does so.
CancelTrip ==
    \E c \in KindOf("trip_log") :
        /\ Stored(c) /\ cancelled' = cancelled \cup {c} /\ c \notin cancelled
        /\ \E x \in KindOf("fuel_record") : row[x] = "none" /\ Fact[x].trip = c
        /\ UNCHANGED <<row, answers, events, mileage, customer, opportunities, task, pushes,
                       lost, overrun, officeVars>>

\* hr-service: a second clock event of the same employee, type and hour is
\* not stored, and answered with the first one's row.
Claiming(c) == {d \in KindOf("attendance_log") : Stored(d) /\ Fact[d].bucket = Fact[c].bucket}
RecordAttendance(f) ==
    LET c == task[f].of
    IN  /\ At(f, "write", "attendance_log")
        /\ \/ Claiming(c) = {} /\ Store(f, "ACKED", <<>>, <<>>)
           \/ /\ UNCHANGED row
              /\ \E d \in Claiming(c) : Answer(c, d)
              /\ task' = [task EXCEPT ![f] = Free]
              /\ UNCHANGED <<events, pushes, lost, officeVars>>
        /\ NoFleet /\ NoCrm /\ UNCHANGED cancelled

\* crm-service: an activity and an opportunity need their customer.
CreateActivity(f) ==
    /\ At(f, "write", "activity") /\ customer[Fact[task[f].of].customer] # "none"
    /\ Store(f, "ACKED", <<>>, <<>>)
    /\ NoFleet /\ NoCrm /\ UNCHANGED cancelled

NoCapture == UNCHANGED <<row, answers, events, mileage, cancelled, task, pushes, lost, overrun,
                         officeVars>>
AwaitedCustomers == {Fact[c].customer : c \in {x \in KindOf("activity") : row[x] # "absent"}}
CreateCustomer ==
    \E k \in AwaitedCustomers :
        /\ customer[k] = "none" /\ customer' = [customer EXCEPT ![k] = "PROSPECT"]
        /\ UNCHANGED opportunities /\ NoCapture
UpdateStatus ==
    \E k \in AwaitedCustomers, s \in {"PROSPECT", "ACTIVE", "INACTIVE"} :
        /\ customer[k] # "none" /\ customer' = [customer EXCEPT ![k] = s]
        /\ UNCHANGED opportunities /\ NoCapture
\* Mutant of CreateOpportunity: neither the lookup of the customer nor the
\* table's foreign key (012_crm.sql:47).
CreateAnyOpportunity ==
    \E k \in AwaitedCustomers :
        opportunities' = opportunities \cup {k} /\ UNCHANGED customer /\ NoCapture

CreateOpportunity ==
    \E k \in AwaitedCustomers :
        /\ customer[k] # "none" /\ opportunities' = opportunities \cup {k}
        /\ UNCHANGED customer /\ NoCapture

\* The Sync Gateways: a request for each capture, in the order they were sent.
ManufacturingPush(f) == Lookup(f, "production_batch")
FleetPush(f) == Lookup(f, "trip_log") \/ Lookup(f, "fuel_record")
HrPush(f) == Lookup(f, "attendance_log")
CrmPush(f) == Lookup(f, "activity")

--------------------------------------------------------------------------------
Init == \E scene \in Scenes : OfficeInit(scene) /\ FieldInit(scene)

Next ==
    \/ OfficeNext /\ UNCHANGED fieldVars
    \/ CancelTrip \/ CreateCustomer \/ UpdateStatus \/ CreateOpportunity
    \/ \E f \in Field :
          \/ ManufacturingPush(f) \/ FleetPush(f) \/ HrPush(f) \/ CrmPush(f)
          \/ CloseProductionBatch(f) \/ ReadVehicle(f) \/ CreateTripLog(f)
          \/ CreateFuelRecord(f) \/ RecordAttendance(f) \/ CreateActivity(f)
          \/ PublishNext(f) \/ Fail(f)

Spec == Init /\ [][Next]_vars

--------------------------------------------------------------------------------
(***************************************************************************)
(* Properties.                                                             *)
(***************************************************************************)

EventNames == {"consumption", "output", "favorable", "unfavorable", "fuel_recorded"}
Tasks == [at : {"idle", "write", "trip", "publish"}, of : Capture, seen : Nat,
          owes : Seq(EventNames), old : BOOLEAN]

\* Types of the captures and of the office; a request that owes events has
\* stored its row.
FieldTypeOK ==
    /\ OfficeTypeOK
    /\ row \in [Capture -> {"absent", "none", "ACKED", "NEEDS_REVIEW"}]
    /\ answers \in [Capture -> SUBSET [status : {"ACKED", "NEEDS_REVIEW"}, row : Capture]]
    /\ events \in [Capture -> Seq(EventNames)]
    /\ mileage \in [Vehicle -> Nat] /\ cancelled \cup lost \subseteq Capture
    /\ customer \in [Customer -> {"none", "PROSPECT", "ACTIVE", "INACTIVE"}]
    /\ opportunities \subseteq {k \in Customer : customer[k] # "none"}
    /\ task \in [Field -> Tasks]
    /\ \A f \in Field : task[f].at = "publish" => Stored(task[f].of) /\ task[f].owes # <<>>
    /\ pushes \in Nat /\ overrun \subseteq Vehicle

\* However often a capture is pushed, and whatever its first request came to,
\* it is answered with one outcome and one row, that of the row: a retry may
\* not hear that a batch under review was accepted, nor two clock events of
\* one hour be counted as two rows.
OneAnswerPerCapture ==
    \A c \in Capture :
        /\ Cardinality(answers[c]) <= 1
        /\ \A a \in answers[c] : Stored(a.row) /\ a.status = row[a.row]
        /\ Kind[c] = "attendance_log" => Cardinality(Claiming(c)) <= 1

\* The ledger hears of a capture what it is owed, in order and once, although
\* replays publish nothing: all of it, unless a request still publishes or
\* died owing it (postLedgerEvents, createFuelRecord).
Owed(c) ==
    CASE Kind[c] = "production_batch" /\ row[c] = "ACKED" -> LedgerEvents(c)
      [] Kind[c] = "fuel_record" /\ row[c] = "ACKED" -> <<"fuel_recorded">>
      [] OTHER -> <<>>
AnnouncedAsOwed ==
    \A c \in Capture :
        /\ IsPrefix(events[c], Owed(c))
        /\ \/ events[c] = Owed(c) \/ c \in lost
           \/ \E f \in Field : task[f].at = "publish" /\ task[f].of = c

\* A vehicle has at most one open service request, and one was made if a trip
\* ended past its threshold, even where trips overtook each other; the mileage
\* covers every trip, unless one was written on an outdated read
\* (createTripLog).
VehicleIsWatched ==
    \A v \in Vehicle :
        LET trips == {c \in KindOf("trip_log") : Stored(c) /\ Fact[c].vehicle = v}
        IN  /\ Cardinality(OpenRequests(v)) <= 1
            /\ (\E c \in trips : Fact[c].end >= ServiceThreshold[v])
               => \E c \in trips : status[DocOf[c]] \notin {"absent", "none"}
            /\ v \in overrun \/ \A c \in trips : mileage[v] >= Fact[c].end
================================================================================
