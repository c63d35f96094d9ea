---------------------------- MODULE MetricsScrape ----------------------------
(***************************************************************************)
(* GET /metrics beside the operations of FleetContract.  Every scrape is a  *)
(* request thread: it counts the cars by status in one query, sets one      *)
(* gauge per status, counts the open rentals in another query, sets their   *)
(* gauge, and answers with what the gauges then hold.  The gauges belong to *)
(* the process, so scrapes that overlap share them.                         *)
(***************************************************************************)
EXTENDS FleetContract

CONSTANT Scraper   \* the threads serving /metrics side by side

ASSUME ScrapeAssumption == IsFiniteSet(Car) /\ IsFiniteSet(Rental)

VARIABLES carGauge,     \* CARS: carGauge[s], its child for status s
          rentalGauge,  \* ONGOING_RENTALS
          pc,           \* pc[p]: what scrape p does next
          byStatus,     \* byStatus[p]: the rows of its first query
          active,       \* active[p]: the result of its second query
          response,     \* response[p]: the figures it answers with, or NULL
          quiet         \* quiet[p]: since p began, no row changed and it was alone

gauges == <<carGauge, rentalGauge>>
vars   == <<tables, gauges, pc, byStatus, active, response, quiet>>

\* The loop over CarStatus, in its declaration order: pc is the status whose
\* gauge is set next.
After == [available |-> "in_use", in_use |-> "under_maintenance",
          under_maintenance |-> "countRentals"]

PC == {"idle"} \cup CarStatus \cup {"countRentals", "setRentals", "generate", "answered"}

Count == 0..Cardinality(Car)
Figures == [cars : [CarStatus -> Count], rentals : 0..Cardinality(Rental)]

LiveCars(status) == {c \in Car : IsLive(cars[c]) /\ cars[c].status = status}

\* count_by_status: GROUP BY gives a row to the statuses that some car has.
CountByStatus ==
  [s \in {t \in CarStatus : LiveCars(t) # {}} |-> Cardinality(LiveCars(s))]

CountActive == Cardinality({r \in Rental : IsOpen(rentals[r])})

TypeOK ==
  /\ TablesOK
  /\ carGauge \in [CarStatus -> Count]
  /\ rentalGauge \in 0..Cardinality(Rental)
  /\ pc \in [Scraper -> PC]
  /\ \A p \in Scraper : /\ DOMAIN byStatus[p] \subseteq CarStatus
                        /\ \A s \in DOMAIN byStatus[p] : byStatus[p][s] \in Count \ {0}
  /\ active \in [Scraper -> 0..Cardinality(Rental)]
  /\ response \in [Scraper -> Figures \cup {NULL}]
  /\ quiet \in [Scraper -> BOOLEAN]

NoRows == [s \in {} |-> 0]

InitScrapes ==
  /\ carGauge = [s \in CarStatus |-> 0] /\ rentalGauge = 0
  /\ pc = [p \in Scraper |-> "idle"]
  /\ byStatus = [p \in Scraper |-> NoRows] /\ active = [p \in Scraper |-> 0]
  /\ response = [p \in Scraper |-> NULL]
  /\ quiet = [p \in Scraper |-> FALSE]

MInit == TablesInit /\ InitScrapes

----------------------------------------------------------------------------
Goto(p, next) == pc' = [pc EXCEPT ![p] = next]

Alone(p) == \A q \in Scraper \ {p} : pc[q] = "idle"

CountCars(p) ==
  /\ pc[p] = "idle"
  /\ byStatus' = [byStatus EXCEPT ![p] = CountByStatus]
  /\ quiet' = [q \in Scraper |-> q = p /\ Alone(p)]
  /\ Goto(p, "available")
  /\ UNCHANGED <<tables, gauges, active, response>>

\* Mutant: only the statuses in the query's result are set.
SetCarGaugeIfCounted(p) ==
  /\ pc[p] \in CarStatus
  /\ LET s == pc[p] IN
       carGauge' = IF s \in DOMAIN byStatus[p]
                   THEN [carGauge EXCEPT ![s] = byStatus[p][s]] ELSE carGauge
  /\ Goto(p, After[pc[p]])
  /\ UNCHANGED <<tables, rentalGauge, byStatus, active, response, quiet>>

\* One turn of the loop over CarStatus; a status without cars counts 0.
SetCarGauge(p) ==
  /\ pc[p] \in CarStatus
  /\ LET s == pc[p] IN
       carGauge' = [carGauge EXCEPT ![s] =
                      IF s \in DOMAIN byStatus[p] THEN byStatus[p][s] ELSE 0]
  /\ Goto(p, After[pc[p]])
  /\ UNCHANGED <<tables, rentalGauge, byStatus, active, response, quiet>>

CountRentals(p) ==
  /\ pc[p] = "countRentals"
  /\ active' = [active EXCEPT ![p] = CountActive]
  /\ Goto(p, "setRentals")
  /\ UNCHANGED <<tables, gauges, byStatus, response, quiet>>

\* Mutant: the gauge is increased by the count, not set to it.
IncRentalGauge(p) ==
  /\ pc[p] = "setRentals"
  /\ rentalGauge' = rentalGauge + active[p]
  /\ Goto(p, "generate")
  /\ UNCHANGED <<tables, carGauge, byStatus, active, response, quiet>>

SetRentalGauge(p) ==
  /\ pc[p] = "setRentals"
  /\ rentalGauge' = active[p]
  /\ Goto(p, "generate")
  /\ UNCHANGED <<tables, carGauge, byStatus, active, response, quiet>>

\* generate_latest.
Generate(p) ==
  /\ pc[p] = "generate"
  /\ response' = [response EXCEPT ![p] = [cars |-> carGauge, rentals |-> rentalGauge]]
  /\ Goto(p, "answered")
  /\ UNCHANGED <<tables, gauges, byStatus, active, quiet>>

Finish(p) ==
  /\ pc[p] = "answered"
  /\ Goto(p, "idle")
  /\ byStatus' = [byStatus EXCEPT ![p] = NoRows]
  /\ active' = [active EXCEPT ![p] = 0]
  /\ response' = [response EXCEPT ![p] = NULL]
  /\ UNCHANGED <<tables, gauges, quiet>>

\* A service operation commits, on another thread.
Operate ==
  /\ Next
  /\ quiet' = [p \in Scraper |-> FALSE]
  /\ UNCHANGED <<gauges, pc, byStatus, active, response>>

\* The process restarts: the gauges are registered anew.
Restart ==
  /\ carGauge' = [s \in CarStatus |-> 0] /\ rentalGauge' = 0
  /\ pc' = [p \in Scraper |-> "idle"]
  /\ byStatus' = [p \in Scraper |-> NoRows] /\ active' = [p \in Scraper |-> 0]
  /\ response' = [p \in Scraper |-> NULL]
  /\ quiet' = [p \in Scraper |-> FALSE]
  /\ UNCHANGED tables

MNext == \/ \E p \in Scraper : \/ CountCars(p) \/ SetCarGauge(p) \/ CountRentals(p)
                               \/ SetRentalGauge(p) \/ Generate(p) \/ Finish(p)
         \/ Operate
         \/ Restart

MSpec == MInit /\ [][MNext]_vars

----------------------------------------------------------------------------
(* Properties. *)

\* A scrape beside which nothing is committed and no other scrape runs answers
\* with the tables' figures, whatever scrapes, torn or cut off, went before it.
UndisturbedScrapeIsExact ==
  \A p \in Scraper : response[p] # NULL /\ quiet[p] =>
    /\ \A s \in CarStatus : response[p].cars[s] = Cardinality(LiveCars(s))
    /\ response[p].rentals = CountActive
============================================================================
